----------------------------- MODULE Adc_proofs -----------------------------
(***************************************************************************)
(* Proofs about Adc: types, that the lines of a reading are held while it  *)
(* is taken, and that a sure reading is of the input that was asked for,   *)
(* for any number of processes and whatever their command lines.           *)
(***************************************************************************)
EXTENDS Adc, TLAPS



-----------------------------------------------------------------------------
(***************************************************************************)
(* What a plan is, and what becomes of a configuration word.               *)
(***************************************************************************)

\* Whatever the options were, the tool gets levels for all lines and modes for
\* its readings.
LEMMA RunIsPlan ==
  ASSUME NEW modes, NEW S \in SUBSET Muxes, NEW reads \in [S -> Modes]
  PROVE  Run(modes, reads) \in Plans
  <1>1. \A c \in Channels : Level(modes[c]) \in -1 .. 1
    BY DEF Level, INVALID_MODE, VOLTAGE_MODE
  <1>2. reads \in UNION {[T -> Modes] : T \in SUBSET Muxes}
    OBVIOUS
  <1>3. [c \in Channels |-> Level(modes[c])] \in [Channels -> -1 .. 1]
    BY <1>1
  <1> QED BY <1>2, <1>3 DEF Run, Plans

LEMMA GroupsRead ==
  ASSUME NEW group
  PROVE  /\ ReadGroups(group) \in [DOMAIN ReadGroups(group) -> Modes]
         /\ DOMAIN ReadGroups(group) \subseteq Muxes
         /\ \A m \in DOMAIN ReadGroups(group) :
              /\ m \in {0, 3} /\ m \div 3 \in Groups
              /\ group[m \div 3] \in Modes
              /\ ReadGroups(group)[m] = group[m \div 3]
  BY DEF ReadGroups, MuxDiff, Groups, Muxes

LEMMA ChannelsRead ==
  ASSUME NEW chmode
  PROVE  /\ ReadChannels(chmode) \in [DOMAIN ReadChannels(chmode) -> Modes]
         /\ DOMAIN ReadChannels(chmode) \subseteq Muxes
         /\ \A m \in DOMAIN ReadChannels(chmode) :
              /\ m >= 4 /\ m - 4 \in Channels
              /\ chmode[m - 4] \in Modes
              /\ ReadChannels(chmode)[m] = chmode[m - 4]
  BY DEF ReadChannels, MuxChan, Channels, Muxes

LEMMA GroupPlan ==
  ASSUME NEW modes, NEW group
  PROVE  Run(modes, ReadGroups(group)) \in Plans
  BY GroupsRead, RunIsPlan

LEMMA ChannelPlan ==
  ASSUME NEW modes, NEW chmode
  PROVE  Run(modes, ReadChannels(chmode)) \in Plans
  BY ChannelsRead, RunIsPlan

\* The lines of a plan suit its readings.
Suits(b, plan) ==
  /\ b = "B" => plan.lines[0] # -1
  /\ \A m \in DOMAIN plan.reads : \A c \in LinesOf(b, m) :
       c \in Channels /\ plan.lines[c] = plan.reads[m]

LEMMA ModeLevel == \A m \in Modes : Level(m) = m /\ m # INVALID_MODE /\ m # -1
  BY DEF Modes, Level, INVALID_MODE, VOLTAGE_MODE, CURRENT_MODE

LEMMA PlanASuits ==
  ASSUME NEW s, PlanA(s).how = "run"
  PROVE  PlanA(s) \in Plans /\ Suits("A", PlanA(s))
  <1> DEFINE group == Given(s.groupmode, s.group, s.mode)
             spread == Spread(group, s.chmode)
             diffmode == \E g \in Groups : group[g] # INVALID_MODE
             chmode == IF diffmode THEN spread ELSE Given(spread, s.ch, s.mode)
  <1>1. CASE \E g \in Groups : group[g] \in Modes
    <2>1. PlanA(s) = Run(chmode, ReadGroups(group))
      BY <1>1 DEF PlanA, Usage
    <2>2. PlanA(s) \in Plans
      BY <2>1, GroupPlan
    <2>3. chmode = spread
      BY <1>1, ModeLevel
    <2>4. ASSUME NEW m \in DOMAIN ReadGroups(group), NEW c \in LinesOf("A", m)
          PROVE  c \in Channels /\ Level(spread[c]) = ReadGroups(group)[m]
      <3>1. m \in {0, 3} /\ group[m \div 3] \in Modes
            /\ ReadGroups(group)[m] = group[m \div 3]
        BY GroupsRead
      <3>2. c \in Channels /\ c \div 2 = m \div 3
        <4>1. CASE m = 0
          BY <4>1, <2>4 DEF LinesOf, Channels
        <4>2. CASE m = 3
          BY <4>2, <2>4 DEF LinesOf, Channels
        <4> QED BY <3>1, <4>1, <4>2
      <3>3. spread[c] = group[m \div 3]
        BY <3>1, <3>2, ModeLevel DEF Spread
      <3> QED BY <3>1, <3>2, <3>3, ModeLevel
    <2> QED BY <2>1, <2>2, <2>3, <2>4 DEF Suits, Run
  <1>2. CASE ~ \E g \in Groups : group[g] \in Modes
    <2>1. PlanA(s) = Run(chmode, ReadChannels(chmode))
      BY <1>2 DEF PlanA, Usage
    <2>2. PlanA(s) \in Plans
      BY <2>1, ChannelPlan
    <2>3. ASSUME NEW m \in DOMAIN ReadChannels(chmode), NEW c \in LinesOf("A", m)
          PROVE  c \in Channels /\ Level(chmode[c]) = ReadChannels(chmode)[m]
      <3>1. m >= 4 /\ m - 4 \in Channels /\ chmode[m - 4] \in Modes
            /\ ReadChannels(chmode)[m] = chmode[m - 4]
        BY ChannelsRead
      <3>2. c = m - 4
        BY <3>1, <2>3 DEF LinesOf
      <3> QED BY <3>1, <3>2, ModeLevel
    <2> QED BY <2>1, <2>2, <2>3 DEF Suits, Run
  <1> QED BY <1>1, <1>2

LEMMA PlanBSuits ==
  ASSUME NEW s, PlanB(s).how = "run"
  PROVE  PlanB(s) \in Plans /\ Suits("B", PlanB(s))
  <1> DEFINE chmode == Given(s.chmode, s.ch, s.mode)
             lines == [c \in Channels |->
                         IF c \notin Groups THEN INVALID_MODE
                         ELSE IF chmode[c] = INVALID_MODE THEN VOLTAGE_MODE ELSE chmode[c]]
  <1>1. PlanB(s) = Run(lines, ReadGroups(chmode))
    BY DEF PlanB, Usage
  <1>2. PlanB(s) \in Plans
    BY <1>1, GroupPlan
  <1>3. Level(lines[0]) # -1
    BY DEF Level, Channels, Groups, INVALID_MODE, VOLTAGE_MODE
  <1>4. ASSUME NEW m \in DOMAIN ReadGroups(chmode), NEW c \in LinesOf("B", m)
        PROVE  c \in Channels /\ Level(lines[c]) = ReadGroups(chmode)[m]
    <2>1. m \in {0, 3} /\ chmode[m \div 3] \in Modes
          /\ ReadGroups(chmode)[m] = chmode[m \div 3]
      BY GroupsRead
    <2>2. c \in Channels /\ c \in Groups /\ c = m \div 3
      BY <2>1, <1>4 DEF LinesOf, Channels, Groups
    <2>3. lines[c] = chmode[c]
      BY <2>1, <2>2, ModeLevel
    <2> QED BY <2>1, <2>2, <2>3, ModeLevel
  <1>5. 0 \in Channels
    BY DEF Channels
  <1> HIDE DEF lines
  <1> QED BY <1>1, <1>2, <1>3, <1>4, <1>5 DEF Suits, Run

LEMMA PlanSuits ==
  ASSUME NEW b \in Boards, NEW argv, Plan(b, argv).how = "run"
  PROVE  Plan(b, argv) \in Plans /\ Suits(b, Plan(b, argv))
  BY PlanASuits, PlanBSuits DEF Plan, Crash, Boards

LEMMA WordRange == ASSUME NEW n \in Int, n >= 0, n < Size PROVE n \in Words
  <1>1. Size \in Int
    BY DEF Size
  <1> QED BY <1>1 DEF Words

\* The word that is sent asks for the input, at a rate for which the tool's sleep
\* is long enough.
LEMMA SentWord ==
  ASSUME NEW m \in Muxes
  PROVE  /\ Sent(ConfigWord(m)) \in Words
         /\ MuxOf(Sent(ConfigWord(m))) = m
         /\ ConversionMs(Sent(ConfigWord(m))) <= WaitMs
  <1>1. Sent(ConfigWord(m)) = 33536 + 4096 * m + 1
    BY DEF Sent, ConfigWord, Muxes
  <1>2. m \in {0, 1, 2, 3, 4, 5, 6, 7}
    BY DEF Muxes
  <1>3. ((33536 + 4096 * m + 1) \div 32) % 8 = 0
    BY <1>2
  <1>4. ((33536 + 4096 * m + 1) \div 4096) % 8 = m
    BY <1>2
  <1>5. ConversionMs(Sent(ConfigWord(m))) = 125
    BY <1>1, <1>3 DEF ConversionMs, SamplesPerSecond
  <1>6. MuxOf(Sent(ConfigWord(m))) = m
    BY <1>1, <1>4 DEF MuxOf
  <1>7. Sent(ConfigWord(m)) \in Words
    BY <1>1, <1>2, WordRange DEF Size
  <1> QED BY <1>5, <1>6, <1>7 DEF WaitMs

LEMMA CodeWord == ASSUME NEW m \in Muxes PROVE Code(m) \in Words
  <1>1. Input[m] \in Int
    BY InputAssumption
  <1>2. Input[m] % Size \in Int /\ Input[m] % Size >= 0 /\ Input[m] % Size < Size
    BY <1>1 DEF Size
  <1> QED BY <1>2, WordRange DEF Code

-----------------------------------------------------------------------------
(***************************************************************************)
(* The parts steps have in common.                                         *)
(***************************************************************************)

LEMMA NotRunningTyped == NotRunning \in RunStates
  <1>1. NoPlan \in Plans
    BY RunIsPlan DEF NoPlan, Modes, VOLTAGE_MODE
  <1> QED BY <1>1 DEF NotRunning, RunStates, NoReading, Muxes

\* Of two tools that have their lines, one of them by itself, there is one.
LEMMA Exclusive ==
  ASSUME TypeOK, LinesInv, NEW p \in Procs, NEW q \in Procs,
         Running(p), Running(q), Missing(p) = {}, Missing(q) = {}, Excl(p)
  PROVE  q = p
  <1>1. CASE board = "B"
    <2>1. run[p].plan.lines[0] # -1 /\ run[q].plan.lines[0] # -1 /\ 0 \in Channels
      BY <1>1 DEF LinesInv, Channels
    <2>2. line[0].owner = p /\ line[0].owner = q
      BY <2>1 DEF Missing
    <2> QED BY <2>2
  <1>2. CASE run[p].alone
    BY <1>2 DEF LinesInv
  <1> QED BY <1>1, <1>2 DEF Excl

\* A tool that waits or reads has its lines.
LEMMA InUse ==
  ASSUME TypeOK, LinesInv, NEW p \in Procs, run[p].pc \in {"wait", "fetch"}
  PROVE  Running(p) /\ Missing(p) = {}
  BY DEF LinesInv, Running

\* A step of a tool that goes on with its plan, and touches no line.
LEMMA SamePlan ==
  ASSUME TypeOK, LinesInv, NEW p \in Procs, Running(p),
         UNCHANGED <<board, line>>,
         run' \in [Procs -> RunStates],
         \A q \in Procs : q # p => run'[q] = run[q],
         run'[p].plan = run[p].plan, run'[p].alone = run[p].alone,
         run'[p].todo \subseteq run[p].todo, run'[p].pc # "idle",
         run'[p].pc \in {"wait", "fetch"} =>
           Missing(p) = {} /\ run'[p].cur \in DOMAIN run[p].plan.reads
  PROVE  LinesInv'
  <1> SUFFICES ASSUME NEW q \in Procs
      PROVE  /\ \A c \in Channels : line'[c].owner = q =>
                  /\ run'[q].pc # "idle"
                  /\ line'[c].level = run'[q].plan.lines[c]
             /\ run'[q].pc # "idle" =>
                  /\ board' = "B" => run'[q].plan.lines[0] # -1
                  /\ run'[q].todo \subseteq DOMAIN run'[q].plan.reads
                  /\ \A m \in DOMAIN run'[q].plan.reads : \A c \in LinesOf(board', m) :
                       c \in Channels /\ run'[q].plan.lines[c] = run'[q].plan.reads[m]
             /\ run'[q].pc \in {"wait", "fetch"} =>
                  Missing(q)' = {} /\ run'[q].cur \in DOMAIN run'[q].plan.reads
             /\ run'[q].alone => \A o \in Procs : run'[o].pc # "idle" => o = q
      BY DEF LinesInv, Running
  <1>1. run'[q].plan = run[q].plan /\ Missing(q)' = Missing(q)
    BY DEF Missing
  <1>2. run'[q].alone = run[q].alone
    OBVIOUS
  <1>3. \A o \in Procs : run'[o].pc # "idle" <=> Running(o)
    BY DEF Running
  <1>4. CASE q = p
    BY <1>1, <1>2, <1>3, <1>4 DEF LinesInv, Running
  <1>5. CASE q # p
    BY <1>1, <1>2, <1>3, <1>5 DEF LinesInv, Running
  <1> QED BY <1>4, <1>5

\* A tool that ends, at whatever place, leaves the others as they were.
LEMMA Ends ==
  ASSUME IInv, NEW p \in Procs, Running(p),
         line' = Released(p), run' = [run EXCEPT ![p] = NotRunning],
         UNCHANGED <<board, dev>>
  PROVE  IInv'
  <1>0. TypeOK /\ LinesInv /\ ConversionInv /\ OwnReading
    BY DEF IInv
  <1>a. line \in [Channels -> [owner : Procs \cup {Nobody}, level : 0 .. 1]]
    BY <1>0 DEF TypeOK
  <1>1. line' \in [Channels -> [owner : Procs \cup {Nobody}, level : 0 .. 1]]
    BY <1>a DEF Released, FreeLine
  <1>2. TypeOK'
    BY <1>0, <1>1, NotRunningTyped DEF TypeOK
  <1>3. run'[p] = NotRunning /\ \A q \in Procs : q # p => run'[q] = run[q]
    BY <1>0 DEF TypeOK
  <1>4. \A c \in Channels : line'[c].owner # p
    BY <1>a, NobodyAssumption DEF Released, FreeLine
  <1>5. \A q \in Procs : q # p => \A c \in Channels :
          /\ line'[c].owner = q <=> line[c].owner = q
          /\ line'[c].owner = q => line'[c] = line[c]
    BY <1>a, NobodyAssumption DEF Released, FreeLine
  <1>6. \A q \in Procs : q # p => Missing(q)' = Missing(q)
    BY <1>3, <1>5 DEF Missing
  <1>7. LinesInv'
    <2> SUFFICES ASSUME NEW q \in Procs
        PROVE  /\ \A c \in Channels : line'[c].owner = q =>
                    /\ run'[q].pc # "idle"
                    /\ line'[c].level = run'[q].plan.lines[c]
               /\ run'[q].pc # "idle" =>
                    /\ board' = "B" => run'[q].plan.lines[0] # -1
                    /\ run'[q].todo \subseteq DOMAIN run'[q].plan.reads
                    /\ \A m \in DOMAIN run'[q].plan.reads : \A c \in LinesOf(board', m) :
                         c \in Channels /\ run'[q].plan.lines[c] = run'[q].plan.reads[m]
               /\ run'[q].pc \in {"wait", "fetch"} =>
                    Missing(q)' = {} /\ run'[q].cur \in DOMAIN run'[q].plan.reads
               /\ run'[q].alone => \A o \in Procs : run'[o].pc # "idle" => o = q
        BY DEF LinesInv, Running
    <2>1. CASE q = p
      BY <1>3, <1>4, <2>1 DEF NotRunning
    <2>2. CASE q # p
      <3>1. \A o \in Procs : run'[o].pc # "idle" => run[o].pc # "idle"
        BY <1>3 DEF NotRunning
      <3> QED BY <1>3, <1>5, <1>6, <2>2, <3>1, <1>0 DEF LinesInv, Running
    <2> QED BY <2>1, <2>2
  <1>8. ConversionInv'
    BY <1>0, <1>3 DEF ConversionInv, Excl, NotRunning
  <1>9. OwnReading'
    BY <1>0, <1>3 DEF OwnReading, NotRunning, NoReading
  <1> QED BY <1>2, <1>7, <1>8, <1>9 DEF IInv

-----------------------------------------------------------------------------
(***************************************************************************)
(* The steps.                                                              *)
(***************************************************************************)

LEMMA Parts == ASSUME IInv PROVE TypeOK /\ LinesInv /\ ConversionInv /\ OwnReading
  BY DEF IInv

LEMMA InitInv == Init => IInv
  <1> SUFFICES ASSUME Init PROVE IInv
    OBVIOUS
  <1>1. 34179 \in Words /\ 0 \in Words
    BY WordRange DEF Size
  <1>2. run \in [Procs -> RunStates]
    BY NotRunningTyped DEF Init
  <1>d. dev \in [word : Words, busy : BOOLEAN, by : Procs \cup {Nobody},
                 mux : Muxes, data : Words, ptr : {0, 1}]
    BY <1>1 DEF Init, Muxes
  <1>l. line \in [Channels -> [owner : Procs \cup {Nobody}, level : 0 .. 1]]
    BY DEF Init, FreeLine
  <1>3. TypeOK
    BY <1>2, <1>d, <1>l DEF Init, TypeOK
  <1>4. LinesInv
    BY NobodyAssumption DEF Init, LinesInv, NotRunning, FreeLine, Running
  <1>5. ConversionInv /\ OwnReading
    BY DEF Init, ConversionInv, OwnReading, NotRunning, NoReading
  <1> QED BY <1>3, <1>4, <1>5 DEF IInv

LEMMA StartInv ==
  ASSUME IInv, NEW p \in Procs, NEW argv, Start(p, argv)
  PROVE  IInv'
  <1> DEFINE plan == Plan(board, argv)
             r == [pc |-> "lines", plan |-> plan, todo |-> DOMAIN plan.reads, cur |-> 0,
                   got |-> NoReading, clean |-> TRUE,
                   alone |-> \A o \in Procs : ~ Running(o)]
  <1>0. TypeOK /\ LinesInv /\ ConversionInv /\ OwnReading
    BY Parts
  <1>1. plan \in Plans /\ Suits(board, plan)
    BY <1>0, PlanSuits DEF Start, TypeOK
  <1>2. DOMAIN plan.reads \in SUBSET Muxes
    BY <1>1 DEF Plans
  <1> HIDE DEF plan
  <1>3. r \in RunStates
    BY <1>1, <1>2 DEF RunStates, NoReading, Muxes
  <1>4. run' = [q \in Procs |-> IF q = p THEN r ELSE [run[q] EXCEPT !.alone = FALSE]]
    BY DEF Start, plan
  <1>5. ~ Running(p) /\ UNCHANGED <<board, line, dev>>
    BY DEF Start
  <1> HIDE DEF r
  <1>6. \A q \in Procs : [run[q] EXCEPT !.alone = FALSE] \in RunStates
    <2> SUFFICES ASSUME NEW q \in Procs
        PROVE  [run[q] EXCEPT !.alone = FALSE] \in RunStates
      OBVIOUS
    <2>1. run[q] \in RunStates
      BY <1>0 DEF TypeOK
    <2> QED BY <2>1 DEF RunStates
  <1>r. run' \in [Procs -> RunStates]
    BY <1>3, <1>4, <1>6
  <1>7. TypeOK'
    BY <1>0, <1>5, <1>r DEF TypeOK
  <1>8. \A q \in Procs : q # p =>
          /\ run'[q].pc = run[q].pc /\ run'[q].plan = run[q].plan
          /\ run'[q].todo = run[q].todo /\ run'[q].cur = run[q].cur
          /\ run'[q].got = run[q].got /\ ~ run'[q].alone
    BY <1>0, <1>4 DEF TypeOK, RunStates
  <1>9. run'[p] = r
    BY <1>4
  <1>10. \A q \in Procs : q # p => Missing(q)' = Missing(q)
    BY <1>5, <1>8 DEF Missing
  <1>11. LinesInv'
    <2> SUFFICES ASSUME NEW q \in Procs
        PROVE  /\ \A c \in Channels : line[c].owner = q =>
                    /\ run'[q].pc # "idle"
                    /\ line[c].level = run'[q].plan.lines[c]
               /\ run'[q].pc # "idle" =>
                    /\ board = "B" => run'[q].plan.lines[0] # -1
                    /\ run'[q].todo \subseteq DOMAIN run'[q].plan.reads
                    /\ \A m \in DOMAIN run'[q].plan.reads : \A c \in LinesOf(board, m) :
                         c \in Channels /\ run'[q].plan.lines[c] = run'[q].plan.reads[m]
               /\ run'[q].pc \in {"wait", "fetch"} =>
                    Missing(q)' = {} /\ run'[q].cur \in DOMAIN run'[q].plan.reads
               /\ run'[q].alone => \A o \in Procs : run'[o].pc # "idle" => o = q
      BY <1>5 DEF LinesInv, Running
    <2>1. CASE q = p
      <3>1. \A c \in Channels : line[c].owner # p
        BY <1>0, <1>5 DEF LinesInv
      <3>2. r.alone => \A o \in Procs : run'[o].pc # "idle" => o = p
        BY <1>8 DEF r, Running
      <3> QED BY <1>1, <1>9, <2>1, <3>1, <3>2 DEF r, Suits
    <2>2. CASE q # p
      BY <1>0, <1>8, <1>10, <2>2 DEF LinesInv, Running
    <2> QED BY <2>1, <2>2
  <1>12. ConversionInv'
    <2>1. \A q \in Procs : q # p /\ run'[q].clean /\ Excl(q)' =>
            run[q].clean /\ Excl(q)
      BY <1>0, <1>4, <1>5, <1>8 DEF Excl, TypeOK, RunStates
    <2> QED BY <1>0, <1>5, <1>8, <1>9, <2>1 DEF ConversionInv, r
  <1>13. OwnReading'
    BY <1>0, <1>8, <1>9 DEF OwnReading, r, NoReading
  <1> QED BY <1>7, <1>11, <1>12, <1>13 DEF IInv

LEMMA TakeLineInv ==
  ASSUME IInv, NEW p \in Procs, TakeLine(p)
  PROVE  IInv'
  <1>0. TypeOK /\ LinesInv /\ ConversionInv /\ OwnReading
    BY Parts
  <1>1. PICK c \in Missing(p) :
          /\ line[c].owner = Nobody
          /\ line' = [line EXCEPT ![c] = [owner |-> p, level |-> run[p].plan.lines[c]]]
    BY DEF TakeLine
  <1>2. run[p].pc = "lines" /\ UNCHANGED <<board, dev, run>>
    BY DEF TakeLine
  <1>3. c \in Channels /\ run[p].plan.lines[c] # -1
    BY <1>1 DEF Missing
  <1>4. run[p].plan.lines[c] \in 0 .. 1
    BY <1>0, <1>3 DEF TypeOK, RunStates, Plans
  <1>5. TypeOK'
    BY <1>0, <1>1, <1>2, <1>3, <1>4 DEF TypeOK
  <1>6. line'[c].owner = p /\ line'[c].level = run[p].plan.lines[c]
        /\ \A d \in Channels : d # c => line'[d] = line[d]
    BY <1>0, <1>1, <1>3 DEF TypeOK
  <1>7. \A q \in Procs : q # p => Missing(q)' = Missing(q)
    BY <1>1, <1>2, <1>6, NobodyAssumption DEF Missing
  <1>8. LinesInv'
    <2> SUFFICES ASSUME NEW q \in Procs
        PROVE  /\ \A d \in Channels : line'[d].owner = q =>
                    run[q].pc # "idle" /\ line'[d].level = run[q].plan.lines[d]
               /\ run[q].pc \in {"wait", "fetch"} => Missing(q)' = {}
      BY <1>0, <1>2 DEF LinesInv, Running
    <2>1. CASE q = p
      BY <1>0, <1>2, <1>6, <2>1 DEF LinesInv, Running
    <2>2. CASE q # p
      BY <1>0, <1>6, <1>7, <2>2 DEF LinesInv, Running
    <2> QED BY <2>1, <2>2
  <1>9. ConversionInv' /\ OwnReading'
    BY <1>0, <1>2 DEF ConversionInv, OwnReading, Excl
  <1> QED BY <1>5, <1>8, <1>9 DEF IInv

\* What a tool may count on when it begins a reading, and does not do twice.
LEMMA NextTyped ==
  ASSUME TypeOK, LinesInv, NEW p \in Procs, NEW m \in Muxes, IsNext(p, m)
  PROVE  /\ Running(p) /\ Missing(p) = {} /\ run[p].pc = "lines"
         /\ m \in run[p].todo /\ m \in DOMAIN run[p].plan.reads
  BY DEF IsNext, LinesInv, Running

LEMMA ConfigureInv ==
  ASSUME IInv, NEW p \in Procs, Configure(p)
  PROVE  IInv'
  <1>0. TypeOK /\ LinesInv /\ ConversionInv /\ OwnReading
    BY Parts
  <1>1. PICK m \in Muxes :
          /\ IsNext(p, m)
          /\ LET w == Sent(ConfigWord(m))
                 started == [dev EXCEPT !.word = w, !.ptr = 1, !.busy = TRUE,
                                        !.by = p, !.mux = MuxOf(w)]
             IN dev' \in {started} \cup
                  (IF dev.busy THEN {[dev EXCEPT !.word = w, !.ptr = 1]} ELSE {})
          /\ run' = [run EXCEPT ![p].pc = "wait", ![p].cur = m,
                                ![p].clean = @ /\ ~ Orphaned]
          /\ UNCHANGED <<board, line>>
    BY DEF Configure
  <1> DEFINE w == Sent(ConfigWord(m))
             started == [dev EXCEPT !.word = w, !.ptr = 1, !.busy = TRUE,
                                    !.by = p, !.mux = MuxOf(w)]
             running == [dev EXCEPT !.word = w, !.ptr = 1]
  <1>b. dev' \in {started} \cup (IF dev.busy THEN {running} ELSE {})
    BY <1>1
  <1>2. /\ Running(p) /\ Missing(p) = {} /\ run[p].pc = "lines"
        /\ m \in run[p].todo /\ m \in DOMAIN run[p].plan.reads
    BY <1>0, <1>1, NextTyped
  <1>3. w \in Words /\ MuxOf(w) = m
    BY SentWord
  <1> HIDE DEF w
  <1>d. dev \in [word : Words, busy : BOOLEAN, by : Procs \cup {Nobody},
                 mux : Muxes, data : Words, ptr : {0, 1}]
    BY <1>0 DEF TypeOK
  <1>4. dev' \in [word : Words, busy : BOOLEAN, by : Procs \cup {Nobody},
                  mux : Muxes, data : Words, ptr : {0, 1}]
    <2>1. started \in [word : Words, busy : BOOLEAN, by : Procs \cup {Nobody},
                          mux : Muxes, data : Words, ptr : {0, 1}]
      BY <1>d, <1>3
    <2>2. running \in [word : Words, busy : BOOLEAN, by : Procs \cup {Nobody},
                          mux : Muxes, data : Words, ptr : {0, 1}]
      BY <1>d, <1>3
    <2> QED BY <1>b, <2>1, <2>2
  <1>5. run' \in [Procs -> RunStates]
    <2> DEFINE clean == run[p].clean /\ ~ Orphaned
               r == [run[p] EXCEPT !.pc = "wait", !.cur = m, !.clean = clean]
    <2>1. run[p] \in RunStates /\ run \in [Procs -> RunStates]
      BY <1>0 DEF TypeOK
    <2>2. run' = [run EXCEPT ![p] = r]
      BY <1>1
    <2>3. clean \in BOOLEAN
      OBVIOUS
    <2> HIDE DEF clean
    <2>4. r \in RunStates
      BY <2>1, <2>3 DEF RunStates
    <2> HIDE DEF r
    <2> QED BY <2>1, <2>2, <2>4
  <1>6. \A q \in Procs : q # p => run'[q] = run[q]
    BY <1>0, <1>1 DEF TypeOK
  <1>7. /\ run'[p].pc = "wait" /\ run'[p].cur = m
        /\ run'[p].clean = (run[p].clean /\ ~ Orphaned)
        /\ run'[p].plan = run[p].plan /\ run'[p].alone = run[p].alone
        /\ run'[p].todo = run[p].todo /\ run'[p].got = run[p].got
    BY <1>0, <1>1 DEF TypeOK, RunStates
  <1>8. TypeOK'
    BY <1>0, <1>1, <1>4, <1>5 DEF TypeOK
  <1>9. LinesInv'
    BY <1>0, <1>1, <1>2, <1>5, <1>6, <1>7, SamePlan
  <1>10. \A q \in Procs : run[q].pc \in {"wait", "fetch"} => ~ Excl(p) /\ ~ Excl(q)
    <2> SUFFICES ASSUME NEW q \in Procs, run[q].pc \in {"wait", "fetch"}
        PROVE  ~ Excl(p) /\ ~ Excl(q)
      OBVIOUS
    <2>1. Running(q) /\ Missing(q) = {} /\ q # p
      BY <1>0, <1>2, InUse
    <2> QED BY <1>0, <1>2, <2>1, Exclusive
  <1>11. ASSUME NEW q \in Procs, q # p, Excl(q)'
         PROVE  run'[q].pc \notin {"wait", "fetch"}
    BY <1>1, <1>6, <1>10, <1>11 DEF Excl
  <1>12. ASSUME run'[p].clean, Excl(p)'
         PROVE  dev'.busy /\ dev'.by = p /\ dev'.mux = m /\ dev'.word = w
    <2>1. Excl(p) /\ ~ Orphaned
      BY <1>1, <1>7, <1>12 DEF Excl
    <2>2. ~ dev.busy
      BY <1>10, <2>1 DEF Orphaned
    <2>3. dev' = started
      BY <1>b, <2>2
    <2> QED BY <1>d, <1>3, <2>3
  <1>13. ConversionInv'
    BY <1>7, <1>11, <1>12 DEF ConversionInv, w
  <1>14. OwnReading'
    BY <1>0, <1>6, <1>7 DEF OwnReading
  <1> QED BY <1>8, <1>9, <1>13, <1>14 DEF IInv

LEMMA ConvertInv ==
  ASSUME IInv, Convert
  PROVE  IInv'
  <1>0. TypeOK /\ LinesInv /\ ConversionInv /\ OwnReading
    BY Parts
  <1>1. dev.busy /\ UNCHANGED <<board, line, run>>
        /\ dev' = [dev EXCEPT !.busy = FALSE, !.data = Code(dev.mux)]
    BY DEF Convert
  <1>2. Code(dev.mux) \in Words
    BY <1>0, CodeWord DEF TypeOK
  <1>3. TypeOK'
    BY <1>0, <1>1, <1>2 DEF TypeOK
  <1>4. LinesInv' /\ OwnReading'
    BY <1>0, <1>1 DEF LinesInv, OwnReading, Running, Missing
  <1>5. ~ dev'.busy /\ dev'.data = Code(dev.mux) /\ dev'.ptr = dev.ptr
    BY <1>0, <1>1 DEF TypeOK
  <1>6. ConversionInv'
    BY <1>0, <1>1, <1>5 DEF ConversionInv, Excl
  <1> QED BY <1>3, <1>4, <1>6 DEF IInv

\* Of two tools at the converter, none counts on it for itself.
LEMMA AtConverter ==
  ASSUME TypeOK, LinesInv, NEW p \in Procs, NEW q \in Procs, q # p, Excl(q),
         run[p].pc \in {"wait", "fetch"}
  PROVE  run[q].pc \notin {"wait", "fetch"}
  <1> SUFFICES ASSUME run[q].pc \in {"wait", "fetch"} PROVE FALSE
    OBVIOUS
  <1>1. Running(p) /\ Missing(p) = {} /\ Running(q) /\ Missing(q) = {}
    BY InUse
  <1> QED BY <1>1, Exclusive

\* The state of one tool is replaced.
LEMMA OneRun ==
  ASSUME TypeOK, NEW p \in Procs, NEW r \in RunStates, run' = [run EXCEPT ![p] = r]
  PROVE  /\ run' \in [Procs -> RunStates] /\ run'[p] = r
         /\ \A q \in Procs : q # p => run'[q] = run[q]
  BY DEF TypeOK

LEMMA SetPointerInv ==
  ASSUME IInv, NEW p \in Procs, SetPointer(p)
  PROVE  IInv'
  <1> DEFINE r == [run[p] EXCEPT !.pc = "fetch"]
  <1>0. TypeOK /\ LinesInv /\ ConversionInv /\ OwnReading
    BY Parts
  <1>1. /\ run[p].pc = "wait" /\ ~ (dev.busy /\ ConversionMs(dev.word) <= WaitMs)
        /\ dev' = [dev EXCEPT !.ptr = 0] /\ run' = [run EXCEPT ![p] = r]
        /\ UNCHANGED <<board, line>>
    BY DEF SetPointer
  <1>2. dev \in [word : Words, busy : BOOLEAN, by : Procs \cup {Nobody},
                 mux : Muxes, data : Words, ptr : {0, 1}]
    BY <1>0 DEF TypeOK
  <1>3. dev' \in [word : Words, busy : BOOLEAN, by : Procs \cup {Nobody},
                  mux : Muxes, data : Words, ptr : {0, 1}]
    BY <1>1, <1>2
  <1>4. run[p] \in RunStates
    BY <1>0 DEF TypeOK
  <1>5. r \in RunStates
    BY <1>4 DEF RunStates
  <1>6. /\ r.pc = "fetch" /\ r.cur = run[p].cur /\ r.clean = run[p].clean
        /\ r.plan = run[p].plan /\ r.alone = run[p].alone
        /\ r.todo = run[p].todo /\ r.got = run[p].got
    BY <1>4 DEF RunStates
  <1> HIDE DEF r
  <1>7. /\ run' \in [Procs -> RunStates] /\ run'[p] = r
        /\ \A q \in Procs : q # p => run'[q] = run[q]
    BY <1>0, <1>1, <1>5, OneRun
  <1>8. TypeOK'
    BY <1>0, <1>1, <1>3, <1>7 DEF TypeOK
  <1>9. Running(p) /\ Missing(p) = {} /\ run[p].cur \in DOMAIN run[p].plan.reads
    BY <1>0, <1>1, InUse DEF LinesInv
  <1>10. LinesInv'
    BY <1>0, <1>1, <1>6, <1>7, <1>9, SamePlan
  <1>11. ASSUME run[p].clean, Excl(p)
         PROVE  ~ dev.busy /\ dev.data = Code(run[p].cur)
    <2>1. dev.busy => dev.word = Sent(ConfigWord(run[p].cur))
      BY <1>0, <1>1, <1>11 DEF ConversionInv
    <2>2. run[p].cur \in Muxes
      BY <1>4 DEF RunStates
    <2>3. ~ dev.busy
      BY <1>1, <2>1, <2>2, SentWord
    <2> QED BY <1>0, <1>1, <1>11, <2>3 DEF ConversionInv
  <1>12. ~ dev.busy => ~ dev'.busy
    BY <1>1, <1>2
  <1>13. dev'.data = dev.data /\ dev'.ptr = 0
    BY <1>1, <1>2
  <1>14. ConversionInv'
    <2> SUFFICES ASSUME NEW q \in Procs, run'[q].clean, Excl(q)'
        PROVE  /\ run'[q].pc = "wait" =>
                    IF dev'.busy
                      THEN dev'.by = q /\ dev'.mux = run'[q].cur
                           /\ dev'.word = Sent(ConfigWord(run'[q].cur))
                      ELSE dev'.data = Code(run'[q].cur)
               /\ run'[q].pc = "fetch" =>
                    ~ dev'.busy /\ dev'.ptr = 0 /\ dev'.data = Code(run'[q].cur)
      BY DEF ConversionInv, Code
    <2>1. CASE q = p
      BY <1>1, <1>6, <1>7, <1>11, <1>12, <1>13, <2>1 DEF Excl
    <2>2. CASE q # p
      <3>1. Excl(q) /\ run'[q] = run[q]
        BY <1>1, <1>7, <2>2 DEF Excl
      <3> QED BY <1>0, <1>1, <2>2, <3>1, AtConverter
    <2> QED BY <2>1, <2>2
  <1>15. OwnReading'
    BY <1>0, <1>6, <1>7 DEF OwnReading, Code
  <1> QED BY <1>8, <1>10, <1>14, <1>15 DEF IInv

\* The end of a reading that, if it is sure, is right.
LEMMA FetchedInv ==
  ASSUME IInv, NEW p \in Procs, run[p].pc = "fetch",
         NEW g \in [mux : Muxes, code : Int, sure : BOOLEAN],
         g.sure => g.code = Code(g.mux),
         Fetched(p, g), UNCHANGED <<board, line, dev>>
  PROVE  IInv'
  <1> DEFINE r == [run[p] EXCEPT !.pc = "lines", !.todo = @ \ {run[p].cur}, !.got = g]
  <1>0. TypeOK /\ LinesInv /\ ConversionInv /\ OwnReading
    BY Parts
  <1>1. run' = [run EXCEPT ![p] = r]
    BY DEF Fetched
  <1>2. run[p] \in RunStates
    BY <1>0 DEF TypeOK
  <1>3. r \in RunStates
    BY <1>2 DEF RunStates
  <1>4. /\ r.pc = "lines" /\ r.plan = run[p].plan /\ r.alone = run[p].alone
        /\ r.todo \subseteq run[p].todo /\ r.got = g
    BY <1>2 DEF RunStates
  <1> HIDE DEF r
  <1>5. /\ run' \in [Procs -> RunStates] /\ run'[p] = r
        /\ \A q \in Procs : q # p => run'[q] = run[q]
    BY <1>0, <1>1, <1>3, OneRun
  <1>6. TypeOK'
    BY <1>0, <1>5 DEF TypeOK
  <1>7. LinesInv'
    BY <1>0, <1>4, <1>5, SamePlan DEF Running
  <1>8. ConversionInv'
    BY <1>0, <1>4, <1>5 DEF ConversionInv, Excl
  <1>9. OwnReading'
    BY <1>0, <1>4, <1>5 DEF OwnReading, Code
  <1> QED BY <1>6, <1>7, <1>8, <1>9 DEF IInv

\* A step of a tool that may count on nothing afterwards.
LEMMA UncleanInv ==
  ASSUME IInv, NEW p \in Procs, Running(p), NEW r \in RunStates,
         run' = [run EXCEPT ![p] = r], UNCHANGED <<board, line, dev>>,
         r.pc \in {"wait", "fetch"}, ~ r.clean, r.plan = run[p].plan,
         r.alone = run[p].alone, r.todo = run[p].todo, r.got = run[p].got,
         Missing(p) = {}, r.cur \in DOMAIN run[p].plan.reads
  PROVE  IInv'
  <1>0. TypeOK /\ LinesInv /\ ConversionInv /\ OwnReading
    BY Parts
  <1>1. /\ run' \in [Procs -> RunStates] /\ run'[p] = r
        /\ \A q \in Procs : q # p => run'[q] = run[q]
    BY <1>0, OneRun
  <1>2. TypeOK'
    BY <1>0, <1>1 DEF TypeOK
  <1>3. LinesInv'
    BY <1>0, <1>1, SamePlan
  <1>4. ConversionInv'
    BY <1>0, <1>1 DEF ConversionInv, Excl
  <1>5. OwnReading'
    BY <1>0, <1>1 DEF OwnReading, Code
  <1> QED BY <1>2, <1>3, <1>4, <1>5 DEF IInv

LEMMA ConfigureFailsInv ==
  ASSUME IInv, NEW p \in Procs, ConfigureFails(p)
  PROVE  IInv'
  <1>0. TypeOK /\ LinesInv
    BY Parts
  <1>1. PICK m \in Muxes :
          /\ IsNext(p, m)
          /\ run' = [run EXCEPT ![p].pc = "wait", ![p].cur = m, ![p].clean = FALSE]
          /\ UNCHANGED <<board, line, dev>>
    BY DEF ConfigureFails
  <1> DEFINE r == [run[p] EXCEPT !.pc = "wait", !.cur = m, !.clean = FALSE]
  <1>2. Running(p) /\ Missing(p) = {} /\ m \in DOMAIN run[p].plan.reads
    BY <1>0, <1>1, NextTyped
  <1>3. run[p] \in RunStates
    BY <1>0 DEF TypeOK
  <1>4. r \in RunStates
    BY <1>3 DEF RunStates
  <1>5. /\ r.pc = "wait" /\ r.cur = m /\ ~ r.clean /\ r.plan = run[p].plan
        /\ r.alone = run[p].alone /\ r.todo = run[p].todo /\ r.got = run[p].got
    BY <1>3 DEF RunStates
  <1>6. run' = [run EXCEPT ![p] = r]
    BY <1>1
  <1> HIDE DEF r
  <1> QED BY <1>1, <1>2, <1>4, <1>5, <1>6, UncleanInv

LEMMA SetPointerFailsInv ==
  ASSUME IInv, NEW p \in Procs, SetPointerFails(p)
  PROVE  IInv'
  <1> DEFINE r == [run[p] EXCEPT !.pc = "fetch", !.clean = FALSE]
  <1>0. TypeOK /\ LinesInv
    BY Parts
  <1>1. run[p].pc = "wait" /\ UNCHANGED <<board, line, dev>>
        /\ run' = [run EXCEPT ![p] = r]
    BY DEF SetPointerFails
  <1>2. Running(p) /\ Missing(p) = {} /\ run[p].cur \in DOMAIN run[p].plan.reads
    BY <1>0, <1>1, InUse DEF LinesInv
  <1>3. run[p] \in RunStates
    BY <1>0 DEF TypeOK
  <1>4. r \in RunStates
    BY <1>3 DEF RunStates
  <1>5. /\ r.pc = "fetch" /\ r.cur = run[p].cur /\ ~ r.clean /\ r.plan = run[p].plan
        /\ r.alone = run[p].alone /\ r.todo = run[p].todo /\ r.got = run[p].got
    BY <1>3 DEF RunStates
  <1> HIDE DEF r
  <1> QED BY <1>1, <1>2, <1>4, <1>5, UncleanInv

LEMMA WordsAreInt == Words \subseteq Int
  BY DEF Words

LEMMA FetchInv ==
  ASSUME IInv, NEW p \in Procs, Fetch(p)
  PROVE  IInv'
  <1> DEFINE code == IF dev.ptr = 0 THEN dev.data ELSE dev.word
  <1>0. TypeOK /\ LinesInv /\ ConversionInv
    BY Parts
  <1>1. run[p].pc = "fetch" /\ Fetched(p, Reading(p, code)) /\ UNCHANGED <<board, line, dev>>
    BY DEF Fetch
  <1>2. code \in Int
    BY <1>0, WordsAreInt DEF TypeOK
  <1>3. run[p].cur \in Muxes /\ run[p].clean \in BOOLEAN /\ run[p].alone \in BOOLEAN
    BY <1>0 DEF TypeOK, RunStates
  <1>4. run[p].clean /\ Excl(p) => code = Code(run[p].cur)
    BY <1>0, <1>1 DEF ConversionInv
  <1> HIDE DEF code
  <1>5. Reading(p, code) \in [mux : Muxes, code : Int, sure : BOOLEAN]
    BY <1>2, <1>3 DEF Reading
  <1>6. Reading(p, code).sure => Reading(p, code).code = Code(Reading(p, code).mux)
    BY <1>4 DEF Reading, Excl
  <1> QED BY <1>1, <1>5, <1>6, FetchedInv

LEMMA FetchFailsInv ==
  ASSUME IInv, NEW p \in Procs, FetchFails(p)
  PROVE  IInv'
  <1>0. TypeOK
    BY Parts
  <1>1. PICK g \in Garbage : Fetched(p, [Reading(p, g) EXCEPT !.sure = FALSE])
    BY DEF FetchFails
  <1>2. run[p].pc = "fetch" /\ UNCHANGED <<board, line, dev>>
    BY DEF FetchFails
  <1> DEFINE r == [Reading(p, g) EXCEPT !.sure = FALSE]
  <1>3. /\ g \in Int /\ run[p].cur \in Muxes
        /\ run[p].clean \in BOOLEAN /\ run[p].alone \in BOOLEAN
    BY <1>0, GarbageAssumption DEF TypeOK, RunStates
  <1>4. Reading(p, g) \in [mux : Muxes, code : Int, sure : BOOLEAN]
    BY <1>3 DEF Reading
  <1>5. r \in [mux : Muxes, code : Int, sure : BOOLEAN] /\ ~ r.sure
    BY <1>4
  <1> HIDE DEF r
  <1> QED BY <1>1, <1>2, <1>5, FetchedInv DEF r

LEMMA NextInv == IInv /\ [Next]_vars => IInv'
  <1> SUFFICES ASSUME IInv, [Next]_vars PROVE IInv'
    OBVIOUS
  <1>1. CASE UNCHANGED vars
    <2>1. UNCHANGED <<board, line, dev, run>>
      BY <1>1 DEF vars
    <2>2. TypeOK'
      BY <2>1, Parts DEF TypeOK
    <2>3. LinesInv'
      BY <2>1, Parts DEF LinesInv, Running, Missing
    <2>4. ConversionInv' /\ OwnReading'
      BY <2>1, Parts DEF ConversionInv, OwnReading, Excl
    <2> QED BY <2>2, <2>3, <2>4 DEF IInv
  <1>2. CASE Convert
    BY <1>2, ConvertInv
  <1>3. ASSUME NEW p \in Procs, NEW argv, Start(p, argv) PROVE IInv'
    BY <1>3, StartInv
  <1>4. ASSUME NEW p \in Procs, Work(p) PROVE IInv'
    <2>1. CASE FailLine(p)
      BY <2>1, Ends DEF FailLine, Running
    <2>2. CASE Finish(p)
      BY <2>2, Ends DEF Finish, Running
    <2> QED
      BY <1>4, <2>1, <2>2, TakeLineInv, ConfigureInv, SetPointerInv, FetchInv,
         ConfigureFailsInv, SetPointerFailsInv, FetchFailsInv DEF Work
  <1>5. ASSUME NEW p \in Procs, Kill(p) PROVE IInv'
    BY <1>5, Ends DEF Kill
  <1> QED BY <1>1, <1>2, <1>3, <1>4, <1>5 DEF Next

-----------------------------------------------------------------------------
(***************************************************************************)
(* The theorems.                                                           *)
(***************************************************************************)

\* The inductive invariant: the lines of the tools and the conversion of the
\* converter are those that rd_exadc and rd_exbadc count on.
THEOREM Invariant == Spec => []IInv
  BY InitInv, NextInv, PTL DEF Spec

\* The registers keep words of 16 bits and the lines their levels.
THEOREM TypeCorrect == Spec => []TypeOK
  <1>1. IInv => TypeOK
    BY DEF IInv
  <1> QED BY Invariant, <1>1, PTL

\* A reading that nothing disturbed is of the input that was asked for, for any
\* number of processes, killed at any place, and whatever their command lines.
THEOREM ReadingIsOwn == Spec => []OwnReading
  <1>1. IInv => OwnReading
    BY DEF IInv
  <1> QED BY Invariant, <1>1, PTL

\* Throughout a reading the lines of its input are at the level of the mode in
\* which the result is printed, and nobody else's.
THEOREM LinesHeld == Spec => []ModeLinesHeld
  <1>1. IInv => ModeLinesHeld
    <2> SUFFICES ASSUME IInv, NEW p \in Procs, run[p].pc \in {"wait", "fetch"},
                        NEW c \in LinesOf(board, run[p].cur)
        PROVE  line[c] = [owner |-> p, level |-> run[p].plan.reads[run[p].cur]]
      BY DEF ModeLinesHeld
    <2>0. TypeOK /\ LinesInv
      BY Parts
    <2>1. Running(p) /\ Missing(p) = {} /\ run[p].cur \in DOMAIN run[p].plan.reads
      BY <2>0, InUse DEF LinesInv
    <2>2. c \in Channels /\ run[p].plan.lines[c] = run[p].plan.reads[run[p].cur]
      BY <2>0, <2>1 DEF LinesInv
    <2>3. run[p].plan \in Plans
      BY <2>0 DEF TypeOK, RunStates
    <2>4. run[p].plan.reads[run[p].cur] \in Modes
      BY <2>1, <2>3 DEF Plans
    <2>5. line[c].owner = p
      BY <2>1, <2>2, <2>4, ModeLevel DEF Missing
    <2>6. line[c].level = run[p].plan.lines[c]
      BY <2>0, <2>2, <2>5 DEF LinesInv
    <2>7. line[c] \in [owner : Procs \cup {Nobody}, level : 0 .. 1]
      BY <2>0, <2>2 DEF TypeOK
    <2> QED BY <2>2, <2>5, <2>6, <2>7
  <1> QED BY Invariant, <1>1, PTL
=============================================================================
