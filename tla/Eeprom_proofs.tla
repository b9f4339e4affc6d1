---------------------------- MODULE Eeprom_proofs ----------------------------
(***************************************************************************)
(* Proofs about Eeprom: types, that a valid header stays valid under every *)
(* fault, that a run leaves the fields of others alone if reads do not     *)
(* fail, that runs do not undo each other's work, and that every board is  *)
(* identified.                                                             *)
(***************************************************************************)
EXTENDS Eeprom, TLAPS

USE LayoutAssumption, BytesAssumption, TextAssumption, ChunkAssumption

\* The magic and the revision are not fields an option can name.
LEMMA SignatureNotSet ==
  ASSUME NEW v, IsInvocation(v)
  PROVE  \A c \in Signature : c \in Cells /\ ~ IsSet(v, Layout[c])
  BY DEF IsInvocation, IsSet, Signature, CellsOf, Fields, Strings, Macs

\* What a process holds as its command line is one.
LEMMA IsCommandLine ==
  \A v \in Invocations \cup {NoInvocation} : IsInvocation(v)
  <1>1. IsInvocation(NoInvocation)
    BY DEF IsInvocation, NoInvocation
  <1> QED BY <1>1, InvocationsAssumption

\* The images that srg52cfg builds are images.
LEMMA OptBufImage == ASSUME NEW v, IsInvocation(v) PROVE OptBuf(v) \in Image
  <1>1. ASSUME NEW c \in Cells, Layout[c] \in DOMAIN v.options,
               c \in DOMAIN v.options[Layout[c]].bytes
        PROVE  v.options[Layout[c]].bytes[c] \in Bytes
    BY <1>1 DEF IsInvocation, IsOption
  <1> QED BY <1>1 DEF OptBuf, Image

LEMMA DefaultImage == Default \in Image /\ Supported(Default)
  BY DEF Default, Image, Supported, Signature, CellsOf

LEMMA BlankImage == Blank \in Image
  BY DEF Blank, Image

LEMMA MergeImage ==
  ASSUME NEW v, IsInvocation(v), NEW base \in Image
  PROVE  /\ Merge(base, v) \in Image
         /\ Supported(base) => Supported(Merge(base, v))
         /\ \A c \in Cells : c \notin SetCells(v) => Merge(base, v)[c] = base[c]
  <1>1. Merge(base, v) \in Image
    BY OptBufImage DEF Merge, Image
  <1>2. Supported(base) => Supported(Merge(base, v))
    BY SignatureNotSet DEF Merge, Supported
  <1>3. \A c \in Cells : c \notin SetCells(v) => Merge(base, v)[c] = base[c]
    BY DEF Merge, SetCells
  <1> QED BY <1>1, <1>2, <1>3

LEMMA CellsNat == Cells \subseteq Nat /\ Cells = 1 .. Len(Layout)
  BY DEF Cells

-----------------------------------------------------------------------------
(***************************************************************************)
(* Type correctness.                                                       *)
(***************************************************************************)

\* An exit keeps the types.
LEMMA ExitTyped ==
  ASSUME TypeOK, NEW p \in Procs, NEW how \in {"none", "0", "1", "2", "signal"},
         Exit(p, how), UNCHANGED <<ee, env>>
  PROVE  TypeOK'
  BY BlankImage DEF TypeOK, Exit

LEMMA TypeStep == TypeOK /\ [Next]_vars => TypeOK'
  <1> SUFFICES ASSUME TypeOK, [Next]_vars PROVE TypeOK'
    OBVIOUS
  <1> USE BlankImage
  <1>1. CASE Boot
    BY <1>1 DEF Boot, TypeOK, proc
  <1>2. CASE PowerOff
    BY <1>2 DEF PowerOff, TypeOK
  <1>3. ASSUME NEW p \in Procs, NEW v \in Invocations, Start(p, v)
        PROVE  TypeOK'
    BY <1>3 DEF Start, TypeOK, Supported
  <1>4. ASSUME NEW p \in Procs, NEW v \in Invocations, StartEnds(p, v)
        PROVE  TypeOK'
    BY <1>4, ExitTyped DEF StartEnds
  <1>5. ASSUME NEW p \in Procs, Step(p)
        PROVE  TypeOK'
    <2>1. CASE OpenFails(p)
      BY <2>1, ExitTyped DEF OpenFails
    <2>2. CASE ReadChunk(p)
      <3>1. eeBuff' \in [Procs -> Image]
        BY <2>2 DEF ReadChunk, ReadResult, TypeOK, Image
      <3>2. idx' \in [Procs -> Nat]
        BY <2>2 DEF ReadChunk, ReadResult, TypeOK
      <3>3. flag' \in [Procs -> {0, -1, -2, -3}]
        <4>1. CASE idx[p] + Chunk > Len(Layout)
          BY <2>2, <4>1 DEF ReadChunk, ReadResult, TypeOK
        <4>2. CASE ~ (idx[p] + Chunk > Len(Layout))
          BY <2>2, <4>2 DEF ReadChunk, ReadResult, TypeOK
        <4> QED BY <4>1, <4>2
      <3> QED BY <2>2, <3>1, <3>2, <3>3 DEF ReadChunk, ReadResult, TypeOK
    <2>3. CASE ReadFails(p)
      BY <2>3 DEF ReadFails, TypeOK
    <2>4. CASE ProcessOptions(p)
      <3>1. CASE flag[p] < 0 /\ ~ inv[p].force
        BY <2>4, <3>1, ExitTyped DEF ProcessOptions
      <3>2. CASE ~ (flag[p] < 0 /\ ~ inv[p].force)
        <4> DEFINE base == IF flag[p] < 0 THEN Default ELSE eeBuff[p]
        <4>1. base \in Image
          BY DefaultImage DEF TypeOK
        <4>2. Merge(base, inv[p]) \in Image
          BY <4>1, IsCommandLine, MergeImage DEF TypeOK
        <4>3. /\ epr' = [epr EXCEPT ![p] = Merge(base, inv[p])]
              /\ pc' = [pc EXCEPT ![p] = "opening"]
              /\ idx' = [idx EXCEPT ![p] = 1]
              /\ UNCHANGED <<ee, inv, eeBuff, flag, status, valid, env>>
              /\ pc[p] = "options"
          BY <2>4, <3>2 DEF ProcessOptions
        <4>4. epr' \in [Procs -> Image]
          BY <4>2, <4>3 DEF TypeOK
        <4> HIDE DEF base
        <4> QED BY <4>3, <4>4 DEF TypeOK
      <3> QED BY <3>1, <3>2
    <2>5. CASE OpenForWriting(p)
      BY <2>5, ExitTyped DEF OpenForWriting, TypeOK
    <2>6. CASE WriteCell(p)
      BY <2>6, CellsNat DEF WriteCell, TypeOK, Differing, Header, Image
    <2>7. CASE Finish(p)
      BY <2>7, ExitTyped DEF Finish
    <2> QED BY <1>5, <2>1, <2>2, <2>3, <2>4, <2>5, <2>6, <2>7 DEF Step
  <1>6. CASE UNCHANGED vars
    BY <1>6 DEF vars, TypeOK
  <1> QED BY <1>1, <1>2, <1>3, <1>4, <1>5, <1>6 DEF Next

LEMMA TypeInit == Init => TypeOK
  BY BlankImage, ContentsAssumption DEF Init, TypeOK

\* TypeOK: the state of the EEPROM, of every process and of the board has its
\* type, and no process runs on a board without power.
THEOREM TypeCorrect == Spec => []TypeOK
  BY TypeInit, TypeStep, PTL DEF Spec

-----------------------------------------------------------------------------
(***************************************************************************)
(* The signature.                                                          *)
(***************************************************************************)

\* Every process that a step leaves alone is as it was.
LEMMA OthersUnchanged ==
  ASSUME TypeOK, NEW p \in Procs, Step(p), NEW q \in Procs, q # p
  PROVE  /\ pc'[q] = pc[q] /\ inv'[q] = inv[q] /\ eeBuff'[q] = eeBuff[q]
         /\ flag'[q] = flag[q] /\ epr'[q] = epr[q] /\ idx'[q] = idx[q]
         /\ valid'[q] = valid[q]
  BY DEF TypeOK, Step, OpenFails, ReadChunk, ReadFails, ProcessOptions,
         OpenForWriting, WriteCell, Finish, Exit

\* Only WriteCell writes.
LEMMA OnlyWriteCellWrites ==
  ASSUME NEW p \in Procs, Step(p)
  PROVE  ee' = ee \/ WriteCell(p)
  BY DEF Step, OpenFails, ReadChunk, ReadFails, ProcessOptions,
         OpenForWriting, Finish

LEMMA SignatureStep ==
  ASSUME TypeOK, SignatureWritten, [Next]_vars
  PROVE  SignatureWritten'
  <1>1. CASE Boot
    BY <1>1 DEF Boot, proc, SignatureWritten, Supported
  <1>2. CASE PowerOff
    BY <1>2 DEF PowerOff, SignatureWritten
  <1>3. ASSUME NEW p \in Procs, NEW v \in Invocations, Start(p, v)
        PROVE  SignatureWritten'
    BY <1>3 DEF Start, SignatureWritten, TypeOK
  <1>4. ASSUME NEW p \in Procs, NEW v \in Invocations, StartEnds(p, v)
        PROVE  SignatureWritten'
    BY <1>4 DEF StartEnds, Exit, SignatureWritten, TypeOK
  <1>5. ASSUME NEW p \in Procs, Step(p)
        PROVE  SignatureWritten'
    <2> DEFINE P(q) == /\ pc'[q] = "options" /\ flag'[q] = 0 => Supported(eeBuff'[q])
                       /\ pc'[q] \in {"opening", "writing"} => Supported(epr'[q])
    <2>1. ASSUME NEW q \in Procs, q # p
          PROVE  P(q)
      BY <1>5, <2>1, OthersUnchanged DEF SignatureWritten
    <2>2. P(p)
      <3>1. CASE OpenFails(p)
        BY <3>1 DEF OpenFails, Exit, TypeOK
      <3>2. CASE ReadChunk(p)
        BY <3>2 DEF ReadChunk, ReadResult, TypeOK
      <3>3. CASE ReadFails(p)
        BY <3>3 DEF ReadFails, TypeOK
      <3>4. CASE ProcessOptions(p)
        <4> DEFINE base == IF flag[p] < 0 THEN Default ELSE eeBuff[p]
        <4>1. CASE flag[p] < 0 /\ ~ inv[p].force
          BY <3>4, <4>1 DEF ProcessOptions, Exit, TypeOK
        <4>2. CASE ~ (flag[p] < 0 /\ ~ inv[p].force)
          <5>1. base \in Image /\ Supported(base)
            <6>1. CASE flag[p] < 0
              BY <6>1, DefaultImage
            <6>2. CASE flag[p] = 0
              BY <3>4, <6>2 DEF TypeOK, SignatureWritten, ProcessOptions
            <6>3. flag[p] \in {0, -1, -2, -3}
              BY DEF TypeOK
            <6> HIDE DEF base
            <6> QED BY <6>1, <6>2, <6>3
          <5>2. Supported(Merge(base, inv[p]))
            BY <5>1, IsCommandLine, MergeImage DEF TypeOK
          <5>3. epr'[p] = Merge(base, inv[p]) /\ pc'[p] = "opening"
            BY <3>4, <4>2 DEF ProcessOptions, TypeOK
          <5> QED BY <5>2, <5>3
        <4> QED BY <4>1, <4>2
      <3>5. CASE OpenForWriting(p)
        BY <3>5 DEF OpenForWriting, Exit, TypeOK, SignatureWritten
      <3>6. CASE WriteCell(p)
        BY <3>6 DEF WriteCell, TypeOK, SignatureWritten
      <3>7. CASE Finish(p)
        BY <3>7 DEF Finish, Exit, TypeOK
      <3> QED BY <1>5, <3>1, <3>2, <3>3, <3>4, <3>5, <3>6, <3>7 DEF Step
    <2> QED BY <2>1, <2>2 DEF SignatureWritten, Supported
  <1>6. CASE UNCHANGED vars
    BY <1>6 DEF vars, SignatureWritten, Supported
  <1> QED BY <1>1, <1>2, <1>3, <1>4, <1>5, <1>6 DEF Next

LEMMA SignatureInit == Init => SignatureWritten
  BY DEF Init, SignatureWritten

\* A write keeps a header that is valid valid: what it writes has the signature.
LEMMA WriteKeepsSignature ==
  ASSUME TypeOK, SignatureWritten, NEW p \in Procs, WriteCell(p), Supported(ee)
  PROVE  Supported(ee')
  BY DEF TypeOK, SignatureWritten, WriteCell, Supported, Signature, CellsOf, Image

LEMMA StepKeepsSignature ==
  ASSUME TypeOK, SignatureWritten, [Next]_vars, Supported(ee)
  PROVE  Supported(ee')
  <1>1. CASE ee' = ee
    BY <1>1
  <1>2. ASSUME NEW p \in Procs, Step(p)
        PROVE  Supported(ee')
    BY <1>2, OnlyWriteCellWrites, WriteKeepsSignature
  <1>3. CASE Boot \/ PowerOff
    BY <1>3 DEF Boot, PowerOff
  <1>4. ASSUME NEW p \in Procs, NEW v \in Invocations, Start(p, v) \/ StartEnds(p, v)
        PROVE  Supported(ee')
    BY <1>4 DEF Start, StartEnds
  <1> QED BY <1>1, <1>2, <1>3, <1>4 DEF Next, vars

\* StaysValid: whatever fails, whatever runs at the same time and whenever the
\* power is cut, a header with magic and revision keeps them.
THEOREM ValidForGood == Spec => StaysValid
  <1>1. Init => TypeOK /\ SignatureWritten
    BY TypeInit, SignatureInit
  <1>2. TypeOK /\ SignatureWritten /\ [Next]_vars => (TypeOK /\ SignatureWritten)'
    BY TypeStep, SignatureStep
  <1>3. TypeOK /\ SignatureWritten /\ [Next]_vars => [Supported(ee) => Supported(ee')]_vars
    BY StepKeepsSignature
  <1> QED BY <1>1, <1>2, <1>3, PTL DEF Spec, StaysValid

-----------------------------------------------------------------------------
(***************************************************************************)
(* A run leaves the other fields alone, if no read fails.                  *)
(***************************************************************************)

LEMMA OwnFieldsStep ==
  ASSUME "read" \notin Faults, TypeOK, SignatureWritten, OwnFieldsDiffer, [Next]_vars
  PROVE  OwnFieldsDiffer'
  <1> DEFINE P(q) ==
        /\ pc'[q] = "idle" => idx'[q] = 1
        /\ valid'[q] =>
             /\ Supported(ee')
             /\ pc'[q] = "reading" =>
                  \A c \in Signature : c < idx'[q] => eeBuff'[q][c] = Text[c]
             /\ pc'[q] \in {"options", "opening", "writing"} => flag'[q] = 0
             /\ pc'[q] \in {"opening", "writing"} =>
                  \A c \in Cells : c \in SetCells(inv'[q]) \/ epr'[q][c] = eeBuff'[q][c]
  <1>0. (\A q \in Procs : P(q)) => OwnFieldsDiffer'
    BY DEF OwnFieldsDiffer
  <1>1. CASE Boot
    BY <1>1 DEF Boot, proc, OwnFieldsDiffer
  <1>2. CASE PowerOff
    BY <1>2 DEF PowerOff, OwnFieldsDiffer
  <1>3. ASSUME NEW p \in Procs, NEW v \in Invocations, Start(p, v), NEW q \in Procs
        PROVE  P(q)
    <2>1. CASE q = p
      BY <1>3, <2>1, CellsNat DEF Start, OwnFieldsDiffer, TypeOK, Signature, CellsOf
    <2>2. CASE q # p
      BY <1>3, <2>2 DEF Start, OwnFieldsDiffer, TypeOK
    <2> QED BY <2>1, <2>2
  <1>4. ASSUME NEW p \in Procs, NEW v \in Invocations, StartEnds(p, v), NEW q \in Procs
        PROVE  P(q)
    <2>1. CASE q = p
      BY <1>4, <2>1 DEF StartEnds, Exit, TypeOK
    <2>2. CASE q # p
      BY <1>4, <2>2 DEF StartEnds, Exit, OwnFieldsDiffer, TypeOK
    <2> QED BY <2>1, <2>2
  <1>5. ASSUME NEW p \in Procs, Step(p), NEW q \in Procs
        PROVE  P(q)
    <2>1. Supported(ee) => Supported(ee')
      BY <1>5, OnlyWriteCellWrites, WriteKeepsSignature
    <2>2. CASE q # p
      <3> HIDE DEF Supported
      <3> QED BY <1>5, <2>1, <2>2, OthersUnchanged DEF OwnFieldsDiffer
    <2>3. CASE q = p
      <3>1. CASE OpenFails(p)
        BY <2>3, <3>1 DEF OpenFails, Exit, TypeOK
      <3>2. CASE ReadChunk(p)
        <4>1. valid'[p] = valid[p] /\ ee' = ee /\ pc[p] = "reading" /\ pc'[p] \in {"reading", "options"}
          BY <3>2 DEF ReadChunk, ReadResult, TypeOK
        <4>2. idx'[p] = idx[p] + Chunk /\ idx[p] \in Nat
          BY <3>2 DEF ReadChunk, ReadResult, TypeOK
        <4>3. ASSUME valid[p], NEW c \in Signature, c < idx'[p]
              PROVE  eeBuff'[p][c] = Text[c]
          <5>1. c \in Cells /\ c \in Nat
            BY CellsNat DEF Signature, CellsOf
          <5>2. eeBuff'[p][c] = IF idx[p] <= c /\ c < idx[p] + Chunk THEN ee[c] ELSE eeBuff[p][c]
            BY <3>2, <5>1 DEF ReadChunk, ReadResult, TypeOK
          <5>3. CASE idx[p] <= c
            BY <4>2, <4>3, <5>2, <5>3 DEF OwnFieldsDiffer, Supported
          <5>4. CASE c < idx[p]
            BY <4>1, <4>2, <4>3, <5>1, <5>2, <5>4 DEF OwnFieldsDiffer
          <5> QED BY <4>2, <5>1, <5>3, <5>4
        <4>4. ASSUME valid[p], pc'[p] = "options"
              PROVE  flag'[p] = 0
          <5>1. idx[p] + Chunk > Len(Layout)
            BY <3>2, <4>4 DEF ReadChunk, ReadResult, TypeOK
          <5>2. Len(Layout) \in Nat /\ \A c \in Signature : c \in 1 .. Len(Layout)
            BY CellsNat DEF Signature, CellsOf
          <5>3. Supported(eeBuff'[p])
            BY <4>2, <4>3, <4>4, <5>1, <5>2 DEF Supported
          <5> QED BY <3>2, <5>1, <5>3 DEF ReadChunk, ReadResult, TypeOK
        <4> QED BY <2>1, <2>3, <4>1, <4>3, <4>4 DEF OwnFieldsDiffer
      <3>3. CASE ReadFails(p)
        BY <3>3 DEF ReadFails
      <3>4. CASE ProcessOptions(p)
        <4>1. CASE flag[p] < 0 /\ ~ inv[p].force
          BY <2>3, <3>4, <4>1 DEF ProcessOptions, Exit, TypeOK
        <4>2. CASE ~ (flag[p] < 0 /\ ~ inv[p].force)
          <5> DEFINE base == IF flag[p] < 0 THEN Default ELSE eeBuff[p]
          <5>1. /\ epr'[p] = Merge(base, inv[p]) /\ pc'[p] = "opening"
                /\ UNCHANGED <<ee, inv, eeBuff, flag, valid>>
            BY <3>4, <4>2 DEF ProcessOptions, TypeOK
          <5>2. valid[p] => base = eeBuff[p] /\ flag[p] = 0
            BY <3>4 DEF ProcessOptions, OwnFieldsDiffer
          <5>3. valid[p] => \A c \in Cells : c \in SetCells(inv[p]) \/ epr'[p][c] = eeBuff[p][c]
            <6>1. base \in Image /\ IsInvocation(inv[p])
              BY DefaultImage, IsCommandLine DEF TypeOK
            <6> HIDE DEF base
            <6> QED BY <5>1, <5>2, <6>1, MergeImage
          <5>4. valid[p] => Supported(ee) /\ base = eeBuff[p] /\ flag'[p] = 0
            BY <5>1, <5>2 DEF OwnFieldsDiffer
          <5> HIDE DEF base
          <5> QED BY <2>1, <2>3, <5>1, <5>3, <5>4
        <4> QED BY <4>1, <4>2
      <3>5. CASE OpenForWriting(p)
        BY <2>1, <2>3, <3>5 DEF OpenForWriting, Exit, TypeOK, OwnFieldsDiffer
      <3>6. CASE WriteCell(p)
        BY <2>1, <2>3, <3>6 DEF WriteCell, TypeOK, OwnFieldsDiffer
      <3>7. CASE Finish(p)
        BY <2>3, <3>7 DEF Finish, Exit, TypeOK
      <3> QED BY <1>5, <3>1, <3>2, <3>3, <3>4, <3>5, <3>6, <3>7 DEF Step
    <2> QED BY <2>2, <2>3
  <1>6. CASE UNCHANGED vars
    BY <1>6 DEF vars, OwnFieldsDiffer
  <1> QED BY <1>0, <1>1, <1>2, <1>3, <1>4, <1>5, <1>6 DEF Next

-----------------------------------------------------------------------------
(***************************************************************************)
(* Runs that agree do not undo each other's work.                          *)
(***************************************************************************)

\* What a process is to set is in the header, and the same as what another is to.
LEMMA SettingsAgree ==
  ASSUME CleanRuns, NEW v \in Invocations \cup {NoInvocation},
         NEW w \in Invocations \cup {NoInvocation}
  PROVE  /\ SetCells(v) \subseteq Header /\ SetCells(NoInvocation) = {}
         /\ \A c \in SetCells(v) \cap SetCells(w) : OptBuf(v)[c] = OptBuf(w)[c]
  <1>1. SetCells(NoInvocation) = {}
    BY DEF SetCells, IsSet, NoInvocation
  <1>2. SetCells(v) \subseteq Header
    BY IsCommandLine DEF SetCells, IsSet, IsInvocation, Header, Fields, Strings, Macs
  <1> QED BY <1>1, <1>2 DEF CleanRuns

\* A write to a cell that somebody is to set puts the value there.
LEMMA WriteAgrees ==
  ASSUME CleanRuns, TypeOK, OwnFieldsDiffer, SettingsHold, NEW p \in Procs, WriteCell(p)
  PROVE  \E cell \in Header :
           /\ pc[p] = "writing" /\ cell >= idx[p] /\ cell \in Cells
           /\ idx' = [idx EXCEPT ![p] = cell + 1]
           /\ UNCHANGED <<pc, inv, eeBuff, flag, epr, valid>>
           /\ \A c \in Header : c >= idx[p] /\ c < cell => epr[p][c] = eeBuff[p][c]
           /\ ee' = [ee EXCEPT ![cell] = epr[p][cell]]
           /\ \A q \in Procs : cell \in SetCells(inv[q]) => ee'[cell] = OptBuf(inv[q])[cell]
  <1>1. PICK cell \in Differing(p) :
          /\ \A d \in Differing(p) : cell <= d
          /\ ee' = [ee EXCEPT ![cell] = epr[p][cell]]
          /\ idx' = [idx EXCEPT ![p] = cell + 1]
    BY DEF WriteCell, CleanRuns
  <1>2. pc[p] = "writing" /\ UNCHANGED <<pc, inv, eeBuff, flag, epr, valid>>
    BY DEF WriteCell
  <1>3. cell \in Header /\ cell \in Cells /\ cell >= idx[p] /\ epr[p][cell] # eeBuff[p][cell]
    BY <1>1 DEF Differing, Header
  <1>4. ASSUME NEW c \in Header, c >= idx[p], c < cell PROVE epr[p][c] = eeBuff[p][c]
    <2>1. c \notin Differing(p)
      <3>1. c \in Nat /\ cell \in Nat
        BY <1>3, CellsNat DEF Header
      <3> QED BY <1>1, <1>4, <3>1
    <2> QED BY <1>4, <2>1 DEF Differing
  <1>5. cell \in SetCells(inv[p])
    BY <1>2, <1>3 DEF SettingsHold, OwnFieldsDiffer
  <1>6. ee'[cell] = OptBuf(inv[p])[cell]
    BY <1>1, <1>2, <1>3, <1>5 DEF SettingsHold, TypeOK, Image
  <1>7. ASSUME NEW q \in Procs, cell \in SetCells(inv[q]) PROVE ee'[cell] = OptBuf(inv[q])[cell]
    <2>1. inv[q] \in Invocations \cup {NoInvocation} /\ inv[p] \in Invocations \cup {NoInvocation}
      BY DEF TypeOK
    <2> QED BY <1>5, <1>6, <1>7, <2>1, SettingsAgree
  <1> QED BY <1>1, <1>2, <1>3, <1>4, <1>7

\* SettingsHold, of one process, after a step.
Holds(p) ==
  /\ pc[p] # "idle" => valid[p]
  /\ pc[p] = "opening" => idx[p] = 1
  /\ pc[p] \in {"opening", "writing"} =>
       \A c \in SetCells(inv[p]) : epr[p][c] = OptBuf(inv[p])[c]
  /\ \A c \in SetCells(inv[p]) :
       (\/ pc[p] = "writing" /\ c < idx[p]
        \/ /\ pc[p] # "idle" /\ (pc[p] = "reading" => c < idx[p])
           /\ eeBuff[p][c] = OptBuf(inv[p])[c])
       => ee[c] = OptBuf(inv[p])[c]

LEMMA Ended ==
  ASSUME CleanRuns, TypeOK, NEW p \in Procs, NEW how, Exit(p, how)
  PROVE  Holds(p)'
  <1>1. pc'[p] = "idle"
    BY DEF Exit, TypeOK
  <1> QED BY <1>1 DEF Holds

LEMMA SettingsStep ==
  ASSUME CleanRuns, TypeOK, SignatureWritten, OwnFieldsDiffer, SettingsHold, [Next]_vars
  PROVE  SettingsHold'
  <1>1. Supported(ee')
    BY StepKeepsSignature DEF SettingsHold
  <1>2. \A q \in Procs : Holds(q)
    BY DEF SettingsHold, Holds
  <1>3. ASSUME UNCHANGED <<ee, proc>>, NEW q \in Procs PROVE Holds(q)'
    BY <1>2, <1>3 DEF Holds, proc
  <1>4. ASSUME PowerOff, NEW q \in Procs PROVE Holds(q)'
    BY <1>4 DEF PowerOff, Holds
  <1>5. ASSUME NEW p \in Procs, NEW v \in Invocations, Start(p, v), NEW q \in Procs
        PROVE  Holds(q)'
    <2>1. CASE q # p
      BY <1>2, <1>5, <2>1 DEF Start, TypeOK, Holds
    <2>2. CASE q = p
      <3>1. pc'[p] = "reading" /\ valid'[p] /\ idx'[p] = 1
        BY <1>5 DEF Start, TypeOK, SettingsHold, OwnFieldsDiffer
      <3>2. \A c \in SetCells(inv'[p]) : c \in Nat /\ c >= 1
        BY CellsNat DEF SetCells
      <3> QED BY <2>2, <3>1, <3>2 DEF Holds
    <2> QED BY <2>1, <2>2
  <1>6. ASSUME NEW p \in Procs, NEW v \in Invocations, StartEnds(p, v), NEW q \in Procs
        PROVE  Holds(q)'
    <2>1. CASE q # p
      <3>1. /\ pc'[q] = pc[q] /\ inv'[q] = inv[q] /\ eeBuff'[q] = eeBuff[q]
            /\ epr'[q] = epr[q] /\ idx'[q] = idx[q] /\ valid'[q] = valid[q] /\ ee' = ee
        BY <1>6, <2>1 DEF StartEnds, Exit, TypeOK
      <3> QED BY <1>2, <3>1 DEF Holds
    <2>2. CASE q = p
      BY <1>6, <2>2, Ended DEF StartEnds
    <2> QED BY <2>1, <2>2
  <1>7. ASSUME NEW p \in Procs, Step(p), ~ WriteCell(p), NEW q \in Procs PROVE Holds(q)'
    <2>1. ee' = ee
      BY <1>7, OnlyWriteCellWrites
    <2>2. CASE q # p
      BY <1>2, <1>7, <2>1, <2>2, OthersUnchanged DEF Holds
    <2>3. CASE q = p
      <3>1. CASE OpenFails(p) \/ Finish(p)
        BY <2>3, <3>1, Ended DEF OpenFails, Finish
      <3>2. CASE ReadChunk(p)
        <4>1. /\ pc[p] = "reading" /\ inv'[p] = inv[p] /\ valid'[p] = valid[p]
              /\ pc'[p] \in {"reading", "options"}
              /\ idx'[p] = idx[p] + Chunk /\ idx[p] \in Nat
          BY <3>2 DEF ReadChunk, ReadResult, TypeOK
        <4>2. ASSUME NEW c \in SetCells(inv[p]), c < idx'[p],
                     eeBuff'[p][c] = OptBuf(inv[p])[c]
              PROVE  ee[c] = OptBuf(inv[p])[c]
          <5>1. c \in Cells /\ c \in Nat
            BY CellsNat DEF SetCells
          <5>2. eeBuff'[p][c] = IF idx[p] <= c /\ c < idx[p] + Chunk THEN ee[c] ELSE eeBuff[p][c]
            BY <3>2, <5>1 DEF ReadChunk, ReadResult, TypeOK
          <5>3. CASE idx[p] <= c
            BY <4>1, <4>2, <5>2, <5>3
          <5>4. CASE c < idx[p]
            <6>1. eeBuff[p][c] = OptBuf(inv[p])[c]
              BY <4>1, <4>2, <5>1, <5>2, <5>4
            <6>2. pc[p] = "reading" /\ Holds(p)
              BY <1>2, <4>1
            <6> QED BY <5>4, <6>1, <6>2 DEF Holds
          <5> QED BY <4>1, <5>1, <5>3, <5>4
        <4>3. ASSUME NEW c \in SetCells(inv[p]), pc'[p] = "options" PROVE c < idx'[p]
          <5>1. idx[p] + Chunk > Len(Layout)
            BY <3>2, <4>3 DEF ReadChunk, ReadResult, TypeOK
          <5>2. c \in 1 .. Len(Layout) /\ Len(Layout) \in Nat
            BY CellsNat DEF SetCells
          <5> QED BY <4>1, <5>1, <5>2
        <4> QED BY <1>2, <2>1, <2>3, <4>1, <4>2, <4>3 DEF Holds
      <3>3. CASE ReadFails(p)
        BY <3>3 DEF ReadFails, CleanRuns
      <3>4. CASE ProcessOptions(p)
        <4>1. CASE flag[p] < 0 /\ ~ inv[p].force
          BY <2>3, <3>4, <4>1, Ended DEF ProcessOptions
        <4>2. CASE ~ (flag[p] < 0 /\ ~ inv[p].force)
          <5> DEFINE base == IF flag[p] < 0 THEN Default ELSE eeBuff[p]
          <5>1. /\ epr'[p] = Merge(base, inv[p]) /\ pc'[p] = "opening" /\ pc[p] = "options"
                /\ idx'[p] = 1 /\ UNCHANGED <<inv, eeBuff, valid>>
            BY <3>4, <4>2 DEF ProcessOptions, TypeOK
          <5> HIDE DEF base
          <5>2. \A c \in SetCells(inv[p]) : epr'[p][c] = OptBuf(inv[p])[c]
            BY <5>1 DEF Merge, SetCells
          <5> QED BY <1>2, <2>1, <2>3, <5>1, <5>2 DEF Holds
        <4> QED BY <4>1, <4>2
      <3>5. CASE OpenForWriting(p)
        <4>1. CASE Exit(p, "0")
          BY <2>3, <4>1, Ended
        <4>2. CASE /\ pc' = [pc EXCEPT ![p] = "writing"]
                   /\ UNCHANGED <<inv, eeBuff, flag, epr, idx, status, valid>>
          <5>1. pc[p] = "opening" /\ pc'[p] = "writing"
            BY <3>5, <4>2 DEF OpenForWriting, TypeOK
          <5>2. \A c \in SetCells(inv[p]) : ~ (c < idx[p])
            BY <1>2, <5>1, CellsNat DEF SetCells, Holds
          <5> QED BY <1>2, <2>1, <2>3, <4>2, <5>1, <5>2 DEF Holds
        <4> QED BY <3>5, <4>1, <4>2 DEF OpenForWriting
      <3> QED BY <1>7, <3>1, <3>2, <3>3, <3>4, <3>5 DEF Step
    <2> QED BY <2>2, <2>3
  <1>8. ASSUME NEW p \in Procs, WriteCell(p), NEW q \in Procs PROVE Holds(q)'
    <2>1. PICK cell \in Header :
            /\ pc[p] = "writing" /\ cell >= idx[p] /\ cell \in Cells
            /\ idx' = [idx EXCEPT ![p] = cell + 1]
            /\ UNCHANGED <<pc, inv, eeBuff, flag, epr, valid>>
            /\ \A c \in Header : c >= idx[p] /\ c < cell => epr[p][c] = eeBuff[p][c]
            /\ ee' = [ee EXCEPT ![cell] = epr[p][cell]]
            /\ \A o \in Procs : cell \in SetCells(inv[o]) => ee'[cell] = OptBuf(inv[o])[cell]
      BY <1>8, WriteAgrees
    <2>2. \A c \in SetCells(inv[q]) : c \in Header /\ c \in Cells /\ c \in Nat
      <3>1. inv[q] \in Invocations \cup {NoInvocation}
        BY DEF TypeOK
      <3>2. SetCells(inv[q]) \subseteq Header
        BY <3>1, SettingsAgree
      <3> QED BY <3>2, CellsNat DEF Header
    <2>3. \A c \in SetCells(inv[q]) : ee[c] = OptBuf(inv[q])[c] => ee'[c] = OptBuf(inv[q])[c]
      BY <2>1, <2>2 DEF TypeOK, Image
    <2>4. CASE q # p
      <3>1. idx'[q] = idx[q]
        BY <2>1, <2>4 DEF TypeOK
      <3> QED BY <1>2, <2>1, <2>3, <3>1 DEF Holds
    <2>5. CASE q = p
      <3>1. ASSUME NEW c \in SetCells(inv[p]), c < idx'[p] PROVE ee'[c] = OptBuf(inv[p])[c]
        <4>1. c < cell + 1 /\ cell \in Nat /\ idx[p] \in Nat
          BY <2>1, <3>1, CellsNat DEF TypeOK
        <4>2. CASE c = cell
          BY <2>1, <3>1, <4>2
        <4>3. CASE c < idx[p]
          BY <1>2, <2>1, <2>3, <2>5, <3>1, <4>3 DEF Holds
        <4>4. CASE c >= idx[p] /\ c < cell
          BY <1>2, <2>1, <2>2, <2>3, <2>5, <3>1, <4>4 DEF Holds
        <4> QED BY <2>2, <2>5, <4>1, <4>2, <4>3, <4>4
      <3> QED BY <1>2, <2>1, <2>3, <2>5, <3>1 DEF Holds
    <2> QED BY <2>4, <2>5
  <1>9. \A q \in Procs : Holds(q)'
    BY <1>3, <1>4, <1>5, <1>6, <1>7, <1>8 DEF Next, Boot, vars, proc
  <1> QED BY <1>1, <1>9 DEF SettingsHold, Holds

LEMMA SettingsInit == CleanRuns /\ Init => SettingsHold
  <1> SUFFICES ASSUME CleanRuns, Init PROVE SettingsHold
    OBVIOUS
  <1>1. Supported(ee)
    BY DEF CleanRuns, Init
  <1> QED BY <1>1 DEF Init, SettingsHold

-----------------------------------------------------------------------------
(***************************************************************************)
(* What follows.                                                           *)
(***************************************************************************)

\* IInv: a run that began with a valid header has read one, and is about to
\* change its own fields only; where nothing is lost, what it has set stays set.
THEOREM Invariant == Spec => []IInv
  <1>1. Init => IInv
    BY TypeInit, SignatureInit, SettingsInit DEF IInv, Init, OwnFieldsDiffer
  <1>2. IInv /\ [Next]_vars => IInv'
    <2>1. CleanRuns => "read" \notin Faults
      BY DEF CleanRuns
    <2> QED BY <2>1, TypeStep, SignatureStep, OwnFieldsStep, SettingsStep DEF IInv
  <1> QED BY <1>1, <1>2, PTL DEF Spec

\* OtherFieldsKept: if reads do not fail, a run on a valid header writes to the
\* fields it was given values for only, whatever else fails or runs.
THEOREM FieldsOfOthersKept == ASSUME "read" \notin Faults PROVE Spec => OtherFieldsKept
  <1> DEFINE Kept == \A p \in Procs : WriteCell(p) /\ valid[p] =>
                       \A c \in Cells : ee'[c] # ee[c] => c \in SetCells(inv[p])
  <1>1. IInv /\ [Next]_vars => [Kept]_vars
    BY DEF IInv, OwnFieldsDiffer, WriteCell, Differing, Header, TypeOK, Image
  <1> QED BY <1>1, Invariant, PTL DEF Spec, OtherFieldsKept

\* SettingsTakeEffect: on programmed boards, if no read or write fails and no two
\* command lines give a cell different values, the EEPROM has the values of a
\* run when the run ends, whatever ran beside it and whenever the power was cut.
THEOREM SettingsSurvive == ASSUME CleanRuns PROVE Spec => SettingsTakeEffect
  <1> DEFINE Effect == \A p \in Procs : Finish(p) =>
                         \A c \in SetCells(inv[p]) : ee[c] = OptBuf(inv[p])[c]
  <1>1. ASSUME IInv, NEW p \in Procs, Finish(p), NEW c \in SetCells(inv[p])
        PROVE  ee[c] = OptBuf(inv[p])[c]
    <2>1. pc[p] = "writing" /\ Differing(p) = {}
      BY <1>1 DEF Finish
    <2>2. c \in Header /\ c \in Nat /\ idx[p] \in Nat
      <3>1. inv[p] \in Invocations \cup {NoInvocation} /\ idx[p] \in Nat
        BY <1>1 DEF IInv, TypeOK
      <3>2. SetCells(inv[p]) \subseteq Header
        BY <3>1, SettingsAgree
      <3> QED BY <1>1, <3>1, <3>2, CellsNat DEF Header
    <2>3. c < idx[p] \/ epr[p][c] = eeBuff[p][c]
      BY <2>1, <2>2 DEF Differing
    <2> QED BY <1>1, <2>1, <2>3 DEF IInv, SettingsHold
  <1>2. IInv /\ [Next]_vars => [Effect]_vars
    BY <1>1
  <1> QED BY <1>2, Invariant, PTL DEF Spec, SettingsTakeEffect

\* Identified: if the SoC has addresses, a board that was started has both of
\* its own and a serial number, whatever the EEPROM holds and how its reading
\* ends (set_board_info_env, board_late_init).
THEOREM BoardIdentified == Spec => []Identified
  <1>1. Init => Identified
    BY DEF Init, Identified
  <1>2. ASSUME Identified, Boot PROVE Identified'
    <2>1. PICK read : env' = [on |-> TRUE, name |-> BoardName(read), vendor |-> Vendor(read),
                              eth |-> [f \in Macs |-> Ethaddr(read, f)],
                              serial |-> SerialNumber(read)]
      BY <1>2 DEF Boot
    <2>2. Efuse => \A f \in Macs : Ethaddr(read, f) # "none"
      BY DEF Ethaddr
    <2>3. Efuse => SerialNumber(read) # "none"
      BY <2>2 DEF SerialNumber, Macs
    <2> HIDE DEF Macs
    <2> QED BY <2>1, <2>2, <2>3 DEF Identified
  <1>3. ASSUME Identified, PowerOff PROVE Identified'
    BY <1>3 DEF PowerOff, Identified
  <1>4. ASSUME Identified, env' = env PROVE Identified'
    BY <1>4 DEF Identified
  <1>5. ASSUME NEW p \in Procs, Step(p) PROVE env' = env
    BY <1>5 DEF Step, OpenFails, ReadChunk, ReadFails, ProcessOptions, OpenForWriting,
                WriteCell, Finish
  <1>6. ASSUME NEW p \in Procs, NEW v \in Invocations, Start(p, v) \/ StartEnds(p, v)
        PROVE  env' = env
    BY <1>6 DEF Start, StartEnds
  <1>7. Identified /\ [Next]_vars => Identified'
    BY <1>2, <1>3, <1>4, <1>5, <1>6 DEF Next, vars
  <1> QED BY <1>1, <1>7, PTL DEF Spec
=============================================================================
