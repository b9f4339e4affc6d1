-------------------------------- MODULE Eeprom --------------------------------
(***************************************************************************)
(* The identity of the board in its AT24C02: srg52cfg                      *)
(* (recipes-bsp/srg52cfg/files/src/srg52cfg.c), which programs it, and     *)
(* U-Boot (board_detect.c and board_late_init of the patch in              *)
(* recipes-bsp/u-boot/files), which reads it at every boot.                *)
(*                                                                         *)
(* The EEPROM is an array of cells, one per byte; Layout gives the field   *)
(* of EEPROM_HDR each cell belongs to, in the order of the structure.  A   *)
(* write of one cell is atomic, nothing larger is.                         *)
(***************************************************************************)
EXTENDS Integers, Sequences, FiniteSets

CONSTANTS
  Layout,       \* the field of each cell, "tail" behind the header
  Bytes, FF, Zero,
  Text,         \* the bytes of "AIOT", "01" and of the default strings
  Chunk,        \* cells read at a time (32)
  Procs,        \* srg52cfg processes that may run at the same time
  Invocations,  \* command lines they may be started with
  Contents,     \* what the EEPROM may hold at first
  Efuse,        \* the MAC address in the e-fuses of the SoC is valid
  Faults        \* which faults occur: "open", "read", "write", "cut"

Cells == DOMAIN Layout

Strings == {"bname", "serial", "manufacturer"}

Macs == {"macEth0", "macEth1"}

Fields == Strings \cup Macs \cup {"hwCfg"}

CellsOf(f) == {c \in Cells : Layout[c] = f}

Header == {c \in Cells : Layout[c] # "tail"}

Signature == CellsOf("magic") \cup CellsOf("rev")

Image == [Cells -> Bytes]

(***************************************************************************)
(* One option of a command line: without an argument ("get"), with one     *)
(* ("set"), or -A and -B, which put the prefix of the manufacturer before  *)
(* it ("prefixed").  bytes are the cells the conversion of the argument    *)
(* fills; of a malformed MAC address only the first ones.                  *)
(***************************************************************************)
IsOption(o, f) ==
  /\ o.form \in {"get", "set", "prefixed"}
  /\ DOMAIN o.bytes \subseteq CellsOf(f)
  /\ \A c \in DOMAIN o.bytes : o.bytes[c] \in Bytes

IsInvocation(v) ==
  /\ v.force \in BOOLEAN
  /\ DOMAIN v.options \subseteq Fields
  /\ \A f \in DOMAIN v.options : IsOption(v.options[f], f)

ASSUME LayoutAssumption ==
  /\ Layout \in Seq(Fields \cup {"magic", "rev", "tail"})
  /\ \A c, d \in Cells : Layout[c] = "tail" /\ c < d => Layout[d] = "tail"
  /\ CellsOf("magic") # {}

ASSUME BytesAssumption == {FF, Zero} \subseteq Bytes /\ FF # Zero

ASSUME TextAssumption == Text \in [Cells -> Bytes \ {FF, Zero}]

ASSUME ChunkAssumption == Chunk \in Nat \ {0}

ASSUME InvocationsAssumption == \A v \in Invocations : IsInvocation(v)

ASSUME ContentsAssumption == Contents \subseteq Image

ASSUME FaultsAssumption ==
  Efuse \in BOOLEAN /\ Faults \subseteq {"open", "read", "write", "cut"}

VARIABLES
  ee,       \* the EEPROM
  pc,       \* of each process
  inv,      \* its command line
  eeBuff,   \* what it has read, 0xFF where it has not
  flag,     \* the result of readFromEEPROM
  epr,      \* the header it writes
  idx,      \* the next cell to read or to compare
  status,   \* the exit status of the last run
  valid,    \* history: the header was valid when the run started
  env       \* where U-Boot took its variables from at boot; Off: no power

vars == <<ee, pc, inv, eeBuff, flag, epr, idx, status, valid, env>>

proc == <<pc, inv, eeBuff, flag, epr, idx, status, valid>>

Blank == [c \in Cells |-> FF]

Off == [on |-> FALSE]

NoInvocation == [force |-> FALSE, options |-> [f \in {} |-> 0]]

-----------------------------------------------------------------------------
(***************************************************************************)
(* Options                                                                 *)
(***************************************************************************)

\* optSetFlag: -A and -B look at the result of convMAC, the others do not.
IsSet(v, f) ==
  /\ f \in DOMAIN v.options
  /\ LET o == v.options[f]
     IN o.form = "set" \/ (o.form = "prefixed" /\ DOMAIN o.bytes = CellsOf(f))

\* optBuf is 0xFF where the conversion did not get to.
OptBuf(v) ==
  [c \in Cells |->
     IF /\ Layout[c] \in DOMAIN v.options
        /\ c \in DOMAIN v.options[Layout[c]].bytes
       THEN v.options[Layout[c]].bytes[c]
       ELSE FF]

SetCells(v) == {c \in Cells : IsSet(v, Layout[c])}

\* No option had an effect, or there was none: the help text is shown.
IsHelp(v) ==
  /\ ~ v.force
  /\ \A f \in DOMAIN v.options : v.options[f].form = "prefixed" /\ ~ IsSet(v, f)

\* strtoul stores the end of the number through an uninitialised pointer.
MayCrash(v) == IsSet(v, "hwCfg")

Supported(b) == \A c \in Signature : b[c] = Text[c]

Nodata(b) == \A c \in Cells : b[c] \in {FF, Zero}

\* Mutant of Default: the revision is set before the header is cleared.
MutDefaultRevFirst ==
  [c \in Cells |-> IF Layout[c] \in Strings \cup {"magic"} THEN Text[c] ELSE Zero]

\* The header that -f starts from: cleared, with the texts.
Default ==
  [c \in Cells |-> IF c \in Signature \/ Layout[c] \in Strings THEN Text[c] ELSE Zero]

\* Mutant of Merge: optBuf is copied as a whole.
MutMergeAll(base, v) ==
  [c \in Cells |-> IF c \in Signature \/ SetCells(v) = {} THEN base[c] ELSE OptBuf(v)[c]]

Merge(base, v) ==
  LET buf == OptBuf(v)
  IN [c \in Cells |-> IF IsSet(v, Layout[c]) THEN buf[c] ELSE base[c]]

\* Mutant of Differing: the whole header is written.
MutDifferingAll(p) == {c \in Header : c >= idx[p]}

\* The cells that writeIntoEEPROM still has to write.
Differing(p) == {c \in Header : c >= idx[p] /\ epr[p][c] # eeBuff[p][c]}

TypeOK ==
  /\ ee \in Image
  /\ pc \in [Procs -> {"idle", "reading", "options", "opening", "writing"}]
  /\ inv \in [Procs -> Invocations \cup {NoInvocation}]
  /\ eeBuff \in [Procs -> Image]
  /\ flag \in [Procs -> {0, -1, -2, -3}]
  /\ epr \in [Procs -> Image]
  /\ idx \in [Procs -> Nat]
  /\ status \in [Procs -> {"none", "0", "1", "2", "signal"}]
  /\ valid \in [Procs -> BOOLEAN]
  /\ \A p \in Procs : pc[p] # "idle" => env # Off

Init ==
  /\ ee \in Contents
  /\ pc = [p \in Procs |-> "idle"]
  /\ inv = [p \in Procs |-> NoInvocation]
  /\ eeBuff = [p \in Procs |-> Blank]
  /\ flag = [p \in Procs |-> 0]
  /\ epr = [p \in Procs |-> Blank]
  /\ idx = [p \in Procs |-> 1]
  /\ status = [p \in Procs |-> "none"]
  /\ valid = [p \in Procs |-> FALSE]
  /\ env = Off

-----------------------------------------------------------------------------
(***************************************************************************)
(* srg52cfg                                                                *)
(***************************************************************************)

\* The process ends; what it held in memory is forgotten.
Exit(p, how) ==
  /\ pc' = [pc EXCEPT ![p] = "idle"]
  /\ inv' = [inv EXCEPT ![p] = NoInvocation]
  /\ eeBuff' = [eeBuff EXCEPT ![p] = Blank]
  /\ flag' = [flag EXCEPT ![p] = 0]
  /\ epr' = [epr EXCEPT ![p] = Blank]
  /\ idx' = [idx EXCEPT ![p] = 1]
  /\ status' = [status EXCEPT ![p] = how]
  /\ valid' = [valid EXCEPT ![p] = FALSE]

Start(p, v) ==
  /\ env # Off /\ pc[p] = "idle"
  /\ ~ IsHelp(v)
  /\ pc' = [pc EXCEPT ![p] = "reading"]
  /\ inv' = [inv EXCEPT ![p] = v]
  /\ status' = [status EXCEPT ![p] = "none"]
  /\ valid' = [valid EXCEPT ![p] = Supported(ee)]
  /\ UNCHANGED <<ee, eeBuff, flag, epr, idx, env>>

\* The command line is read before the EEPROM: it asks for help, or the
\* process dies there.
StartEnds(p, v) ==
  /\ env # Off /\ pc[p] = "idle"
  /\ \/ IsHelp(v) /\ Exit(p, "0")
     \/ MayCrash(v) /\ Exit(p, "signal")
  /\ UNCHANGED <<ee, env>>

\* Neither the sysfs file nor the bus can be opened.
OpenFails(p) ==
  /\ "open" \in Faults
  /\ pc[p] \in {"reading", "opening"} /\ idx[p] = 1
  /\ Exit(p, "1")
  /\ UNCHANGED <<ee, env>>

\* readFromEEPROM of what could be read.
ReadResult(b) == IF Supported(b) THEN 0 ELSE IF Nodata(b) THEN -1 ELSE -2

ReadChunk(p) ==
  /\ pc[p] = "reading"
  /\ LET chunk == {c \in Cells : idx[p] <= c /\ c < idx[p] + Chunk}
     IN eeBuff' = [eeBuff EXCEPT ![p] = [c \in Cells |-> IF c \in chunk THEN ee[c] ELSE @[c]]]
  /\ idx' = [idx EXCEPT ![p] = @ + Chunk]
  /\ IF idx[p] + Chunk > Len(Layout)
       THEN /\ pc' = [pc EXCEPT ![p] = "options"]
            /\ flag' = [flag EXCEPT ![p] = ReadResult(eeBuff'[p])]
       ELSE UNCHANGED <<pc, flag>>
  /\ UNCHANGED <<ee, inv, epr, status, valid, env>>

\* The device address is refused, or a read fails, at any chunk.
ReadFails(p) ==
  /\ "read" \in Faults
  /\ pc[p] = "reading"
  /\ pc' = [pc EXCEPT ![p] = "options"]
  /\ flag' = [flag EXCEPT ![p] = -3]
  /\ UNCHANGED <<ee, inv, eeBuff, epr, idx, status, valid, env>>

\* process_options: without a valid header only -f goes on, from the default.
ProcessOptions(p) ==
  /\ pc[p] = "options"
  /\ IF flag[p] < 0 /\ ~ inv[p].force
       THEN Exit(p, IF flag[p] = -1 THEN "1" ELSE "2")
       ELSE /\ epr' = [epr EXCEPT ![p] =
                         Merge(IF flag[p] < 0 THEN Default ELSE eeBuff[p], inv[p])]
            /\ pc' = [pc EXCEPT ![p] = "opening"]
            /\ idx' = [idx EXCEPT ![p] = 1]
            /\ UNCHANGED <<inv, eeBuff, flag, status, valid>>
  /\ UNCHANGED <<ee, env>>

\* writeIntoEEPROM opens the device again; that it cannot select the address
\* goes unnoticed.
OpenForWriting(p) ==
  /\ pc[p] = "opening"
  /\ \/ /\ pc' = [pc EXCEPT ![p] = "writing"]
        /\ UNCHANGED <<inv, eeBuff, flag, epr, idx, status, valid>>
     \/ "open" \in Faults /\ Exit(p, "0")
  /\ UNCHANGED <<ee, env>>

\* Mutant of WriteCell: a byte is written again until it reads back.
MutWriteCellStays(p) ==
  /\ pc[p] = "writing"
  /\ \E c \in Differing(p) :
       /\ \A d \in Differing(p) : c <= d
       /\ ee' = [ee EXCEPT ![c] = epr[p][c]]
       /\ idx' = [idx EXCEPT ![p] = c]
  /\ UNCHANGED <<pc, inv, eeBuff, flag, epr, status, valid, env>>

\* The next cell that differs from what was read.  The result of wr2402Byte
\* is not looked at.
WriteCell(p) ==
  /\ pc[p] = "writing"
  /\ \E c \in Differing(p) :
       /\ \A d \in Differing(p) : c <= d
       /\ \/ ee' = [ee EXCEPT ![c] = epr[p][c]]
          \/ "write" \in Faults /\ UNCHANGED ee
       /\ idx' = [idx EXCEPT ![p] = c + 1]
  /\ UNCHANGED <<pc, inv, eeBuff, flag, epr, status, valid, env>>

Finish(p) ==
  /\ pc[p] = "writing"
  /\ Differing(p) = {}
  /\ Exit(p, "0")
  /\ UNCHANGED <<ee, env>>

Step(p) ==
  \/ OpenFails(p) \/ ReadChunk(p) \/ ReadFails(p) \/ ProcessOptions(p)
  \/ OpenForWriting(p) \/ WriteCell(p) \/ Finish(p)

-----------------------------------------------------------------------------
(***************************************************************************)
(* U-Boot: srg52_i2c_eeprom_get of the SPL, set_board_info_env and         *)
(* board_late_init.  It looks at the magic only.                           *)
(***************************************************************************)

\* The C string in the first n cells of a field.
String(f, n) ==
  LET cells == {c \in CellsOf(f) : Cardinality({d \in CellsOf(f) : d <= c}) <= n}
  IN [c \in {c \in cells : \A d \in cells : d <= c => ee[d] # Zero} |-> ee[c]]

Size(f) == Cardinality(CellsOf(f))

Printable(str) == \A c \in DOMAIN str : str[c] # FF

\* is_valid_ethaddr: not all zero, not a multicast address.
ValidMac(f) ==
  /\ \E c \in CellsOf(f) : ee[c] # Zero
  /\ \A c \in CellsOf(f) : ee[c] = FF => \E d \in CellsOf(f) : d < c

\* Mutant of Ethaddr: the fallback is left out.
MutEthaddrNoEfuse(read, f) == IF read /\ ValidMac(f) THEN "eeprom" ELSE "none"

Ethaddr(read, f) ==
  IF read /\ ValidMac(f) THEN "eeprom" ELSE IF Efuse THEN "efuse" ELSE "none"

\* The manufacturer is copied with the length of the serial number.
VendorString == String("manufacturer", Size("serial"))

\* U-Boot deletes a variable that is set to the empty string.
Shown(str) == IF str = <<>> THEN "none" ELSE "eeprom"

Vendor(read) ==
  IF read /\ Printable(VendorString) THEN Shown(VendorString) ELSE "none"

BoardName(read) ==
  LET str == String("bname", Size("bname"))
  IN IF read /\ Printable(str) THEN Shown(str) ELSE "default"

BoardSerial(read) ==
  LET str == String("serial", Size("serial"))
  IN IF read /\ Printable(str) THEN Shown(str) ELSE "unknown"

\* Mutant of SerialNumber: a missing board_serial is not noticed.
MutSerialNumberUnset(read) ==
  IF BoardSerial(read) = "unknown" THEN Ethaddr(read, "macEth0") ELSE BoardSerial(read)

\* serial#: board_serial, or else ethaddr.
SerialNumber(read) ==
  IF BoardSerial(read) \in {"none", "unknown"}
    THEN Ethaddr(read, "macEth0")
    ELSE BoardSerial(read)

Boot ==
  /\ env = Off
  /\ \E read \in {\A c \in CellsOf("magic") : ee[c] = Text[c]} \cup
                  (IF "read" \in Faults THEN {FALSE} ELSE {}) :
       env' = [on |-> TRUE, name |-> BoardName(read), vendor |-> Vendor(read),
               eth |-> [f \in Macs |-> Ethaddr(read, f)],
               serial |-> SerialNumber(read)]
  /\ UNCHANGED <<ee, proc>>

\* The board is switched off; at any moment if the power may be cut.
PowerOff ==
  /\ env # Off
  /\ "cut" \in Faults \/ \A p \in Procs : pc[p] = "idle"
  /\ env' = Off
  /\ pc' = [p \in Procs |-> "idle"]
  /\ inv' = [p \in Procs |-> NoInvocation]
  /\ eeBuff' = [p \in Procs |-> Blank]
  /\ flag' = [p \in Procs |-> 0]
  /\ epr' = [p \in Procs |-> Blank]
  /\ idx' = [p \in Procs |-> 1]
  /\ status' = [p \in Procs |-> "none"]
  /\ valid' = [p \in Procs |-> FALSE]
  /\ UNCHANGED ee

-----------------------------------------------------------------------------
Next ==
  \/ Boot
  \/ PowerOff
  \/ \E p \in Procs : \/ \E v \in Invocations : Start(p, v) \/ StartEnds(p, v)
                      \/ Step(p)

Spec == Init /\ [][Next]_vars

\* The scheduler runs every process that can go on.
FairSpec == Spec /\ \A p \in Procs : WF_vars(Step(p))
-----------------------------------------------------------------------------
(***************************************************************************)
(* Properties                                                              *)
(***************************************************************************)

\* A header that is valid stays valid whatever happens: failed reads, lost
\* writes, power cuts, several processes, -f on top of each other.
StaysValid == [][Supported(ee) => Supported(ee')]_vars

\* "change device model to SRG-3352 from SRG-3352C": on a board whose header is
\* valid a run writes to the fields it was given values for and to no other,
\* with -f too; a run without values writes nothing.
OtherFieldsKept ==
  [][\A p \in Procs : WriteCell(p) /\ valid[p] =>
       \A c \in Cells : ee'[c] # ee[c] => c \in SetCells(inv[p])]_vars

\* Processes that set different fields at the same time do not undo each
\* other's work: when one has written, the EEPROM has its values.  (One that
\* cannot open the device a second time writes nothing and ends with 0, too.)
SettingsTakeEffect ==
  [][\A p \in Procs : Finish(p) =>
       \A c \in SetCells(inv[p]) : ee[c] = OptBuf(inv[p])[c]]_vars

\* However torn the EEPROM is: if the SoC has addresses, both interfaces get
\* one and the board gets a serial number.
Identified ==
  env # Off /\ Efuse => /\ \A f \in Macs : env.eth[f] # "none"
                       /\ env.serial # "none"

\* Every run ends.
RunsEnd == \A p \in Procs : (pc[p] # "idle") ~> (pc[p] = "idle")
-----------------------------------------------------------------------------
(***************************************************************************)
(* The inductive invariant behind StaysValid and, if no read fails,        *)
(* OtherFieldsKept, and if no write is lost either, SettingsTakeEffect.    *)
(***************************************************************************)

\* What is about to be written has the signature.
SignatureWritten ==
  \A p \in Procs :
    /\ pc[p] = "options" /\ flag[p] = 0 => Supported(eeBuff[p])
    /\ pc[p] \in {"opening", "writing"} => Supported(epr[p])

\* A run that began with a valid header has read one, and what it is about to
\* write differs from that in its own fields only.
OwnFieldsDiffer ==
  \A p \in Procs :
    /\ pc[p] = "idle" => idx[p] = 1
    /\ valid[p] =>
         /\ Supported(ee)
         /\ pc[p] = "reading" =>
              \A c \in Signature : c < idx[p] => eeBuff[p][c] = Text[c]
         /\ pc[p] \in {"options", "opening", "writing"} => flag[p] = 0
         /\ pc[p] \in {"opening", "writing"} =>
              \A c \in Cells : c \in SetCells(inv[p]) \/ epr[p][c] = eeBuff[p][c]

\* Nothing is lost but by a power cut, every board was programmed once, and no
\* two command lines give a cell different values.
CleanRuns ==
  /\ Faults \subseteq {"open", "cut"}
  /\ \A b \in Contents : Supported(b)
  /\ \A v, w \in Invocations : \A c \in SetCells(v) \cap SetCells(w) :
       OptBuf(v)[c] = OptBuf(w)[c]

\* Of the cells a run is to set, those behind it have their values, and those it
\* found set already keep them.
SettingsHold ==
  /\ Supported(ee)
  /\ \A p \in Procs :
       /\ pc[p] # "idle" => valid[p]
       /\ pc[p] = "opening" => idx[p] = 1
       /\ pc[p] \in {"opening", "writing"} =>
            \A c \in SetCells(inv[p]) : epr[p][c] = OptBuf(inv[p])[c]
       /\ \A c \in SetCells(inv[p]) :
            (\/ pc[p] = "writing" /\ c < idx[p]
             \/ /\ pc[p] # "idle" /\ (pc[p] = "reading" => c < idx[p])
                /\ eeBuff[p][c] = OptBuf(inv[p])[c])
            => ee[c] = OptBuf(inv[p])[c]

IInv ==
  /\ TypeOK
  /\ SignatureWritten
  /\ "read" \notin Faults => OwnFieldsDiffer
  /\ CleanRuns => SettingsHold
=============================================================================
