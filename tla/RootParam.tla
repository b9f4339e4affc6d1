------------------------------ MODULE RootParam ------------------------------
(***************************************************************************)
(* How handler_roundrobin (swupdate_handlers.lua) reads the current root   *)
(* device out of /proc/cmdline and writes the next one into kernelparams.  *)
(* What is behind "root=" and a device name are sequences over the classes *)
(* of characters that the pattern "(root=[%u=]*[/dev/]*(%S+))" tells       *)
(* apart: "U" for an upper case letter, "=", "/", "d", "e", "v", and any   *)
(* other, such as "s", "f", "2" or "-".                                    *)
(***************************************************************************)
EXTENDS Naturals, Sequences

CONSTANTS
  Names,     \* the device= list of the root partitions, without /dev/
  PartType   \* how get_device_path finds them: PARTTYPE

Upper == {"U", "="}

Dev == {"/", "d", "e", "v"}

ASSUME NamesAssumption ==
  /\ Names \in Seq(Seq(STRING))
  /\ \A i \in DOMAIN Names : Names[i] # <<>>
  /\ \A i, j \in DOMAIN Names : Names[i] = Names[j] => i = j

ASSUME PartTypeAssumption == PartType \in {"UUID", "PLAIN", "UBI"}

-----------------------------------------------------------------------------
\* The first position from i on whose character is not in a set, or the one
\* behind the end.
SkipFrom(word, i, chars) ==
  CHOOSE j \in i .. Len(word) + 1 :
    /\ j = Len(word) + 1 \/ word[j] \notin chars
    /\ \A k \in i .. j - 1 : word[k] \in chars

\* Mutant of RootDevice: the /dev/ of a device path is not taken off.
MutRootDeviceKeepsDev(word) ==
  LET start == SkipFrom(word, 1, Upper)
  IN SubSeq(word, IF start > Len(word) THEN Len(word) ELSE start, Len(word))

\* The capture (%S+): both sets are skipped greedily, but one character has to
\* be left for the capture.
RootDevice(word) ==
  LET start == SkipFrom(word, SkipFrom(word, 1, Upper), Dev)
  IN SubSeq(word, IF start > Len(word) THEN Len(word) ELSE start, Len(word))

PartUuidEq == <<"U", "U", "U", "U", "U", "U", "U", "U", "=">>

DevDir == <<"/", "d", "e", "v", "/">>

\* What kernelparams gets behind root= for a device.
RootValue(name, type) ==
  CASE type = "UUID" -> PartUuidEq \o name
    [] type = "PLAIN" -> DevDir \o name
    [] type = "UBI" -> name

\* devices[rootdevice]: the index of a name in the list, 0 if it is not there.
IndexOf(name) ==
  IF \E i \in DOMAIN Names : Names[i] = name
    THEN CHOOSE i \in DOMAIN Names : Names[i] = name
    ELSE 0

\* The index that is read back where root= names a device of the list.
ReadBack(i) == IndexOf(RootDevice(RootValue(Names[i], PartType)))

-----------------------------------------------------------------------------
\* What the pattern takes off a name along with what is in front of it: a
\* beginning of "/dev/" characters always, one in upper case unless "/dev/" has
\* ended the skipping of upper case before it.
Stripped(name, type) ==
  \/ name[1] \in Dev
  \/ type # "PLAIN" /\ name[1] \in Upper

\* What is left of a name is never the name of another device.
NamesApart == \A i \in DOMAIN Names : ReadBack(i) \in {0, i}

\* The pattern takes nothing off any of the names.
NamesUnstripped == \A i \in DOMAIN Names : ~ Stripped(Names[i], PartType)
=============================================================================
