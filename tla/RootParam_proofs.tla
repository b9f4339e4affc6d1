--------------------------- MODULE RootParam_proofs ---------------------------
(***************************************************************************)
(* Proofs about RootParam, for names of any characters and any length:     *)
(* when what kernelparams says is read back as the device it names.        *)
(***************************************************************************)
EXTENDS RootParam, TLAPS, WellFoundedInduction

-----------------------------------------------------------------------------
(***************************************************************************)
(* Greedy skipping.                                                        *)
(***************************************************************************)

\* A set of all characters, as the provers do not look into literals.
Chars == STRING \cup Upper \cup Dev

LEMMA LeastOf ==
  ASSUME NEW T \in SUBSET Nat, T # {}
  PROVE  \E n \in T : \A m \in T : n <= m
  <1>1. PICK n \in T : \A m \in T : ~ (<<m, n>> \in OpToRel(<, Nat))
    BY NatLessThanWellFounded, WFMin
  <1>2. \A m \in T : ~ (m < n)
    BY <1>1 DEF OpToRel
  <1> QED BY <1>2

\* There is a place where the skipping ends, and SkipFrom is one.
LEMMA SkipEnds ==
  ASSUME NEW word \in Seq(Chars), NEW i \in 1 .. Len(word) + 1, NEW chars
  PROVE  LET j == SkipFrom(word, i, chars)
         IN /\ j \in i .. Len(word) + 1
            /\ j = Len(word) + 1 \/ word[j] \notin chars
            /\ \A k \in i .. j - 1 : word[k] \in chars
  <1> DEFINE Ends == {j \in i .. Len(word) + 1 :
                        j = Len(word) + 1 \/ word[j] \notin chars}
  <1>1. Len(word) + 1 \in Ends /\ Ends \in SUBSET Nat
    OBVIOUS
  <1>2. PICK j \in Ends : \A m \in Ends : j <= m
    <2> HIDE DEF Ends
    <2> QED BY <1>1, LeastOf
  <1>3. ASSUME NEW k \in i .. j - 1 PROVE word[k] \in chars
    <2>1. k \notin Ends
      BY <1>2
    <2> QED BY <2>1, <1>2
  <1>4. \E m \in i .. Len(word) + 1 :
          /\ m = Len(word) + 1 \/ word[m] \notin chars
          /\ \A k \in i .. m - 1 : word[k] \in chars
    BY <1>2, <1>3
  <1> QED BY <1>4 DEF SkipFrom

\* What is known to be in the set is skipped, and nothing beyond it if the
\* character there is not.
LEMMA SkipTo ==
  ASSUME NEW word \in Seq(Chars), NEW i \in 1 .. Len(word) + 1, NEW chars,
         NEW m \in i .. Len(word) + 1,
         \A k \in i .. m - 1 : word[k] \in chars
  PROVE  /\ SkipFrom(word, i, chars) \in m .. Len(word) + 1
         /\ m <= Len(word) /\ word[m] \notin chars
              => SkipFrom(word, i, chars) = m
  <1> DEFINE j == SkipFrom(word, i, chars)
  <1>1. /\ j \in i .. Len(word) + 1
        /\ j = Len(word) + 1 \/ word[j] \notin chars
        /\ \A k \in i .. j - 1 : word[k] \in chars
    BY SkipEnds
  <1> HIDE DEF j
  <1>2. j >= m
    BY <1>1
  <1>3. m <= Len(word) /\ word[m] \notin chars => ~ (j > m)
    BY <1>1
  <1> QED BY <1>1, <1>2, <1>3 DEF j

-----------------------------------------------------------------------------
(***************************************************************************)
(* The capture, of a word that ends with a name behind p other characters. *)
(***************************************************************************)

\* Where the skipping ends with those, the capture is the name.
LEMMA CaptureName ==
  ASSUME NEW word \in Seq(Chars), NEW name \in Seq(Chars), NEW p \in Nat,
         name # <<>>, Len(word) = p + Len(name),
         \A k \in 1 .. Len(name) : word[p + k] = name[k],
         SkipFrom(word, SkipFrom(word, 1, Upper), Dev) = p + 1
  PROVE  RootDevice(word) = name
  <1>1. Len(name) \in Nat \ {0}
    OBVIOUS
  <1>2. RootDevice(word) = SubSeq(word, p + 1, Len(word))
    BY <1>1 DEF RootDevice
  <1>3. Len(SubSeq(word, p + 1, Len(word))) = Len(name)
    BY <1>1
  <1>4. \A k \in 1 .. Len(name) : SubSeq(word, p + 1, Len(word))[k] = name[k]
    BY <1>1
  <1>5. SubSeq(word, p + 1, Len(word)) \in Seq(Chars)
    BY <1>1
  <1> QED BY <1>2, <1>3, <1>4, <1>5

\* Where it ends later, the capture is shorter than the name.
LEMMA CaptureLess ==
  ASSUME NEW word \in Seq(Chars), NEW name \in Seq(Chars), NEW p \in Nat,
         Len(name) >= 2, Len(word) = p + Len(name),
         SkipFrom(word, SkipFrom(word, 1, Upper), Dev)
           \in p + 2 .. Len(word) + 1
  PROVE  Len(RootDevice(word)) < Len(name)
  <1> DEFINE start == SkipFrom(word, SkipFrom(word, 1, Upper), Dev)
             from == IF start > Len(word) THEN Len(word) ELSE start
  <1>1. RootDevice(word) = SubSeq(word, from, Len(word))
    BY DEF RootDevice
  <1>2. from \in p + 2 .. Len(word) /\ from >= 1
    <2> HIDE DEF start
    <2> QED BY DEF start
  <1> HIDE DEF from
  <1>3. Len(SubSeq(word, from, Len(word))) = Len(word) - from + 1
    BY <1>2
  <1> QED BY <1>1, <1>2, <1>3

\* A name behind a prefix.
LEMMA Behind ==
  ASSUME NEW a \in Seq(Chars), NEW b \in Seq(Chars)
  PROVE  /\ a \o b \in Seq(Chars) /\ Len(a \o b) = Len(a) + Len(b)
         /\ \A k \in 1 .. Len(b) : (a \o b)[Len(a) + k] = b[k]
         /\ \A k \in 1 .. Len(a) : (a \o b)[k] = a[k]
  <1>1. \A k \in 1 .. Len(b) : /\ Len(a) + k \in 1 .. Len(a) + Len(b)
                              /\ ~ (Len(a) + k <= Len(a))
                              /\ Len(a) + k - Len(a) = k
    OBVIOUS
  <1>2. \A k \in 1 .. Len(b) : (a \o b)[Len(a) + k] = b[k]
    BY <1>1
  <1> QED BY <1>2

\* The skipping in a word that ends with a name of a kind, behind p other
\* characters, ends at the name or, if the name is stripped, in it.
EndsAt(word, name, type, p) ==
  LET start == SkipFrom(word, SkipFrom(word, 1, Upper), Dev)
  IN /\ word \in Seq(Chars)
     /\ Len(word) = p + Len(name)
     /\ \A k \in 1 .. Len(name) : word[p + k] = name[k]
     /\ start \in p + 1 .. Len(word) + 1
     /\ start = p + 1 <=> ~ Stripped(name, type)

\* Where the skipping ends, for each kind of device.
LEMMA WhereItEnds ==
  ASSUME NEW name \in Seq(Chars), name # <<>>,
         NEW type \in {"UUID", "PLAIN", "UBI"},
         NEW word, word = RootValue(name, type)
  PROVE  \E p \in Nat : EndsAt(word, name, type, p)
  <1> DEFINE s == SkipFrom(word, 1, Upper)
             start == SkipFrom(word, s, Dev)
  <1>1. Len(name) \in Nat \ {0}
    OBVIOUS
  \* Upper case is skipped to the name, or to the slash before it; then the
  \* characters of "/dev/" are.
  <1>2. ASSUME NEW p \in Nat, word \in Seq(Chars), Len(word) = p + Len(name),
               \A k \in 1 .. Len(name) : word[p + k] = name[k],
               s \in p + 1 .. Len(word) + 1,
               name[1] \notin Upper => s = p + 1,
               name[1] \in Upper => s # p + 1,
               Stripped(name, type) <=> name[1] \in Dev \cup Upper
        PROVE  /\ start \in p + 1 .. Len(word) + 1
               /\ start = p + 1 <=> ~ Stripped(name, type)
    <2>1. word[p + 1] = name[1]
      BY <1>1, <1>2
    <2>2. start \in s .. Len(word) + 1
      <3> HIDE DEF s
      <3>1. s \in 1 .. Len(word) + 1 /\ s \in s .. Len(word) + 1
        BY <1>2, <1>1
      <3>2. \A k \in s .. s - 1 : word[k] \in Dev
        BY <3>1
      <3> QED BY <3>1, <3>2, <1>2, SkipTo
    <2>3. CASE s # p + 1
      <3> HIDE DEF start, s
      <3> QED BY <2>2, <2>3, <1>2, <1>1
    <2>4. CASE s = p + 1
      <3> HIDE DEF s
      <3>1. p + 1 \in 1 .. Len(word) + 1 /\ p + 1 <= Len(word)
        BY <1>1, <1>2
      <3>2. CASE name[1] \in Dev
        <4>1. p + 2 \in s .. Len(word) + 1
          BY <1>1, <1>2, <2>4
        <4>2. \A k \in s .. (p + 2) - 1 : word[k] \in Dev
          BY <2>4, <2>1, <3>2
        <4>3. start \in p + 2 .. Len(word) + 1
          BY <4>1, <4>2, <3>1, <2>4, <1>2, SkipTo
        <4> HIDE DEF start
        <4> QED BY <4>3, <3>2, <1>2
      <3>3. CASE name[1] \notin Dev
        <4>1. \A k \in s .. (p + 1) - 1 : word[k] \in Dev
          BY <2>4
        <4>2. start = p + 1
          BY <4>1, <3>1, <2>1, <2>4, <3>3, <1>2, SkipTo
        <4> HIDE DEF start
        <4> QED BY <4>2, <2>4, <3>1, <3>3, <1>2
      <3> QED BY <3>2, <3>3
    <2> QED BY <2>3, <2>4
  <1>3. ASSUME NEW p \in Nat, word \in Seq(Chars), Len(word) = p + Len(name),
               \A k \in 1 .. Len(name) : word[p + k] = name[k],
               \A k \in 1 .. p : word[k] \in Upper
        PROVE  /\ s \in p + 1 .. Len(word) + 1
               /\ name[1] \notin Upper => s = p + 1
               /\ name[1] \in Upper => s # p + 1
    <2>1. word[p + 1] = name[1] /\ p + 1 \in 1 .. Len(word)
      BY <1>1, <1>3
    <2>2. /\ 1 \in 1 .. Len(word) + 1 /\ p + 1 \in 1 .. Len(word) + 1
          /\ \A k \in 1 .. (p + 1) - 1 : word[k] \in Upper
      BY <2>1, <1>3
    <2>3. /\ s \in p + 1 .. Len(word) + 1
          /\ name[1] \notin Upper => s = p + 1
      <3>1. /\ s \in p + 1 .. Len(word) + 1
            /\ p + 1 <= Len(word) /\ word[p + 1] \notin Upper => s = p + 1
        BY <2>2, <1>3, SkipTo
      <3> HIDE DEF s
      <3> QED BY <3>1, <2>1
    <2>4. ASSUME name[1] \in Upper PROVE s # p + 1
      <3>1. /\ p + 2 \in 1 .. Len(word) + 1
            /\ \A k \in 1 .. (p + 2) - 1 : word[k] \in Upper
        BY <2>1, <2>4, <1>3
      <3>2. s \in p + 2 .. Len(word) + 1
        BY <3>1, <2>2, <1>3, SkipTo
      <3> HIDE DEF s
      <3> QED BY <3>2
    <2> QED BY <2>3, <2>4
  <1>4. CASE type = "UUID"
    <2>1. word = PartUuidEq \o name
      BY <1>4 DEF RootValue
    <2>2. /\ PartUuidEq \in Seq(Chars) /\ Len(PartUuidEq) = 9
          /\ \A k \in 1 .. 9 : PartUuidEq[k] \in Upper
      BY DEF PartUuidEq, Upper, Chars
    <2>3. /\ word \in Seq(Chars) /\ Len(word) = 9 + Len(name)
          /\ \A k \in 1 .. Len(name) : word[9 + k] = name[k]
          /\ \A k \in 1 .. 9 : word[k] = PartUuidEq[k]
      <3>1. LET w == PartUuidEq \o name
            IN /\ w \in Seq(Chars) /\ Len(w) = Len(PartUuidEq) + Len(name)
               /\ \A k \in 1 .. Len(name) : w[Len(PartUuidEq) + k] = name[k]
               /\ \A k \in 1 .. Len(PartUuidEq) : w[k] = PartUuidEq[k]
        BY <2>2, Behind
      <3>2. Len(PartUuidEq) = 9
        BY <2>2
      <3> QED BY ONLY <2>1, <3>1, <3>2
    <2>4. Stripped(name, type) <=> name[1] \in Dev \cup Upper
      BY <1>4 DEF Stripped
    <2>5. \A k \in 1 .. 9 : word[k] \in Upper
      BY <2>2, <2>3
    <2>6. /\ s \in 9 + 1 .. Len(word) + 1
          /\ name[1] \notin Upper => s = 9 + 1
          /\ name[1] \in Upper => s # 9 + 1
      <3> HIDE DEF s
      <3> QED BY <1>3, <2>3, <2>5
    <2>7. /\ start \in 9 + 1 .. Len(word) + 1
          /\ start = 9 + 1 <=> ~ Stripped(name, type)
      <3> HIDE DEF s, start
      <3> QED BY <1>2, <2>3, <2>4, <2>6
    <2>9. EndsAt(word, name, type, 9)
      BY <2>3, <2>7 DEF EndsAt
    <2> QED BY <2>9
  <1>5. CASE type = "UBI"
    <2>1. word = name
      BY <1>5 DEF RootValue
    <2>2. /\ word \in Seq(Chars) /\ Len(word) = 0 + Len(name)
          /\ \A k \in 1 .. Len(name) : word[0 + k] = name[k]
          /\ \A k \in 1 .. 0 : word[k] \in Upper
      <3> QED BY <2>1
    <2>3. Stripped(name, type) <=> name[1] \in Dev \cup Upper
      BY <1>5 DEF Stripped
    <2>4. /\ s \in 0 + 1 .. Len(word) + 1
          /\ name[1] \notin Upper => s = 0 + 1
          /\ name[1] \in Upper => s # 0 + 1
      <3> HIDE DEF s
      <3> QED BY <1>3, <2>2
    <2>5. /\ start \in 0 + 1 .. Len(word) + 1
          /\ start = 0 + 1 <=> ~ Stripped(name, type)
      <3> HIDE DEF s, start
      <3> QED BY <1>2, <2>2, <2>3, <2>4
    <2>9. EndsAt(word, name, type, 0)
      BY <2>2, <2>5 DEF EndsAt
    <2> QED BY <2>9
  <1>6. CASE type = "PLAIN"
    <2>1. word = DevDir \o name
      BY <1>6 DEF RootValue
    <2>2. /\ DevDir \in Seq(Chars) /\ Len(DevDir) = 5
          /\ \A k \in 1 .. 5 : DevDir[k] \in Dev
          /\ DevDir[1] \notin Upper
      BY DEF DevDir, Dev, Upper, Chars
    <2>3. /\ word \in Seq(Chars) /\ Len(word) = 5 + Len(name)
          /\ \A k \in 1 .. Len(name) : word[5 + k] = name[k]
          /\ \A k \in 1 .. 5 : word[k] = DevDir[k]
      <3>1. LET w == DevDir \o name
            IN /\ w \in Seq(Chars) /\ Len(w) = Len(DevDir) + Len(name)
               /\ \A k \in 1 .. Len(name) : w[Len(DevDir) + k] = name[k]
               /\ \A k \in 1 .. Len(DevDir) : w[k] = DevDir[k]
        BY <2>2, Behind
      <3>2. Len(DevDir) = 5
        BY <2>2
      <3> QED BY ONLY <2>1, <3>1, <3>2
    <2>4. Stripped(name, type) <=> name[1] \in Dev
      BY <1>6 DEF Stripped
    <2>5. s = 1
      <3>1. /\ 1 \in 1 .. Len(word) + 1 /\ 1 <= Len(word)
            /\ word[1] \notin Upper
            /\ \A k \in 1 .. 1 - 1 : word[k] \in Upper
        BY <1>1, <2>2, <2>3
      <3> QED BY <3>1, <2>3, SkipTo
    <2>6. /\ start \in 6 .. Len(word) + 1
          /\ name[1] \notin Dev => start = 6
      <3> HIDE DEF s
      <3>1. /\ 1 \in 1 .. Len(word) + 1 /\ 6 \in 1 .. Len(word) + 1
            /\ 6 <= Len(word) /\ word[6] = name[1]
            /\ \A k \in 1 .. 6 - 1 : word[k] \in Dev
        BY <1>1, <2>2, <2>3
      <3>2. /\ SkipFrom(word, 1, Dev) \in 6 .. Len(word) + 1
            /\ word[6] \notin Dev => SkipFrom(word, 1, Dev) = 6
        BY <3>1, <2>3, SkipTo
      <3> QED BY <3>1, <3>2, <2>5
    <2>7. ASSUME name[1] \in Dev PROVE start # 6
      <3> HIDE DEF s
      <3>1. /\ 1 \in 1 .. Len(word) + 1 /\ 7 \in 1 .. Len(word) + 1
            /\ \A k \in 1 .. 7 - 1 : word[k] \in Dev
        BY <1>1, <2>2, <2>3, <2>7
      <3>2. SkipFrom(word, 1, Dev) \in 7 .. Len(word) + 1
        BY <3>1, <2>3, SkipTo
      <3>3. start \in 7 .. Len(word) + 1
        BY <3>2, <2>5
      <3> HIDE DEF start
      <3> QED BY <3>3
    <2>8. /\ start \in 5 + 1 .. Len(word) + 1
          /\ start = 5 + 1 <=> ~ Stripped(name, type)
      <3> HIDE DEF s, start
      <3> QED BY <2>4, <2>6, <2>7
    <2>9. EndsAt(word, name, type, 5)
      BY <2>3, <2>8 DEF EndsAt
    <2> QED BY <2>9
  <1> QED BY <1>4, <1>5, <1>6

-----------------------------------------------------------------------------
(***************************************************************************)
(* Reading back what was written.                                          *)
(***************************************************************************)

\* The index of a device of the list is its place there.
LEMMA IndexOfDevice ==
  ASSUME NEW i \in DOMAIN Names
  PROVE  IndexOf(Names[i]) = i
  BY NamesAssumption DEF IndexOf

LEMMA IndexInRange ==
  ASSUME NEW name
  PROVE  IndexOf(name) \in {0} \cup DOMAIN Names
  BY DEF IndexOf

LEMMA NameTyped ==
  ASSUME NEW i \in DOMAIN Names
  PROVE  Names[i] \in Seq(Chars) /\ Names[i] # <<>> /\ Len(Names[i]) \in Nat
  <1>1. Names[i] \in Seq(STRING) /\ Names[i] # <<>>
    BY NamesAssumption
  <1> QED BY <1>1 DEF Chars

\* What is read back of a name that is not stripped is that name.
LEMMA WholeName ==
  ASSUME NEW i \in DOMAIN Names, ~ Stripped(Names[i], PartType)
  PROVE  RootDevice(RootValue(Names[i], PartType)) = Names[i]
  <1> DEFINE name == Names[i]
             arg == RootValue(name, PartType)
             start == SkipFrom(arg, SkipFrom(arg, 1, Upper), Dev)
  <1>1. name \in Seq(Chars) /\ name # <<>> /\ ~ Stripped(name, PartType)
    BY NameTyped
  <1> HIDE DEF name
  <1>2. PICK p \in Nat : EndsAt(arg, name, PartType, p)
    BY <1>1, PartTypeAssumption, WhereItEnds
  <1>3. /\ arg \in Seq(Chars)
        /\ Len(arg) = p + Len(name)
        /\ \A k \in 1 .. Len(name) : arg[p + k] = name[k]
        /\ start = p + 1
    BY <1>1, <1>2 DEF EndsAt
  <1> HIDE DEF start, arg
  <1>4. RootDevice(arg) = name
    BY <1>1, <1>3, CaptureName DEF start
  <1> QED BY <1>4 DEF name, arg

\* What is read back of one that is stripped is shorter than it.
LEMMA ShortName ==
  ASSUME NEW i \in DOMAIN Names, Stripped(Names[i], PartType), Len(Names[i]) >= 2
  PROVE  Len(RootDevice(RootValue(Names[i], PartType))) < Len(Names[i])
  <1> DEFINE name == Names[i]
             arg == RootValue(name, PartType)
             start == SkipFrom(arg, SkipFrom(arg, 1, Upper), Dev)
  <1>1. /\ name \in Seq(Chars) /\ name # <<>> /\ Stripped(name, PartType)
        /\ Len(name) >= 2
    BY NameTyped
  <1> HIDE DEF name
  <1>2. PICK p \in Nat : EndsAt(arg, name, PartType, p)
    BY <1>1, PartTypeAssumption, WhereItEnds
  <1>3. /\ arg \in Seq(Chars)
        /\ Len(arg) = p + Len(name)
        /\ start \in p + 1 .. Len(arg) + 1
        /\ start # p + 1
    BY <1>1, <1>2 DEF EndsAt
  <1> HIDE DEF start, arg
  <1>4. start \in p + 2 .. Len(arg) + 1
    BY <1>3
  <1>5. Len(RootDevice(arg)) < Len(name)
    BY <1>1, <1>3, <1>4, CaptureLess DEF start
  <1> QED BY <1>5 DEF name, arg

\* Where the pattern takes nothing off a name, handler_roundrobin finds the
\* device that root= names at its own place in the list, whatever the names
\* and whichever kind of device.
THEOREM UnstrippedFound ==
  ASSUME NEW i \in DOMAIN Names, ~ Stripped(Names[i], PartType)
  PROVE  ReadBack(i) = i
  BY WholeName, IndexOfDevice DEF ReadBack

\* With names of one length, of two characters at least, as PARTUUIDs are, a
\* name that the pattern takes a part off is not found at all: no device is
\* taken for another one (handler_roundrobin).
THEOREM OneLengthApart ==
  ASSUME \A i, j \in DOMAIN Names : Len(Names[i]) >= 2 /\ Len(Names[i]) = Len(Names[j])
  PROVE  NamesApart
  <1> SUFFICES ASSUME NEW i \in DOMAIN Names PROVE ReadBack(i) \in {0, i}
    BY DEF NamesApart
  <1>1. CASE ~ Stripped(Names[i], PartType)
    BY <1>1, UnstrippedFound
  <1>2. CASE Stripped(Names[i], PartType)
    <2> DEFINE rest == RootDevice(RootValue(Names[i], PartType))
    <2>1. Len(rest) < Len(Names[i])
      BY <1>2, ShortName
    <2> HIDE DEF rest
    <2>2. \A j \in DOMAIN Names : Names[j] # rest
      <3> SUFFICES ASSUME NEW j \in DOMAIN Names, Names[j] = rest PROVE FALSE
        OBVIOUS
      <3>1. Len(Names[j]) = Len(Names[i]) /\ Len(Names[i]) \in Nat
        BY NameTyped
      <3> QED BY <3>1, <2>1
    <2>3. IndexOf(rest) = 0
      BY <2>2 DEF IndexOf
    <2> QED BY <2>3 DEF ReadBack, rest
  <1> QED BY <1>1, <1>2
=============================================================================
