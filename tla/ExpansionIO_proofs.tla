------------------------- MODULE ExpansionIO_proofs --------------------------
(***************************************************************************)
(* Proofs about ExpansionIO: a line that setdo or uartmode drove with      *)
(* nothing running beside it keeps its level, whatever runs later, for any *)
(* processes, command lines and contents of uartmode.toml.                 *)
(***************************************************************************)
EXTENDS ExpansionIO, Toml_proofs

Touching == {"write", "slept", "first", "second", "reading"}

Marks == [tool : Tools, level : Levels]

-----------------------------------------------------------------------------
(***************************************************************************)
(* Lines and their drivers.                                                *)
(***************************************************************************)

LEMMA PinsAreLines ==
  ASSUME NEW port \in Ports
  PROVE  /\ \A k \in 1 .. 2 : Pins(port)[k] \in Lines
         /\ Pins(port)[1] # Pins(port)[2]
  BY LinesAssumption DEF Ports, Pins, portGpios

LEMMA ModesAreLevels ==
  ASSUME NEW mode \in Modes, NEW k \in 1 .. 2
  PROVE  portMode[mode + 1][k] \in Levels
  BY DEF Modes, portMode, Levels

\* What a program that runs alone writes to "direction" gets there; what it
\* writes beside another is not told of.
LEMMA Driven ==
  ASSUME gpio \in [Lines -> GpioStates], told \in [Lines -> Marks], PinsAsTold,
         NEW p \in Procs, NEW l \in Lines, NEW level \in Levels, NEW tool \in Tools,
         NEW slept \in BOOLEAN, NEW got \in Directed(l, level, slept),
         NEW fresh \in BOOLEAN,
         gpio' = [gpio EXCEPT ![l].level = got, ![l].fresh = fresh],
         Tell(p, l, tool, level),
         run[p].alone => Exists(l) /\ (slept \/ ~ gpio[l].fresh)
  PROVE  /\ gpio' \in [Lines -> GpioStates] /\ told' \in [Lines -> Marks]
         /\ PinsAsTold'
         /\ \A m \in Lines : gpio'[m].by = gpio[m].by
         /\ \A m \in Lines : m # l => gpio'[m] = gpio[m] /\ told'[m] = told[m]
         /\ gpio'[l].fresh = fresh
         /\ told'[l] # Untold => run[p].alone
  <1>1. gpio[l] \in GpioStates /\ got \in Levels
    BY DEF Directed, GpioStates
  <1>2. gpio'[l] = [gpio[l] EXCEPT !.level = got, !.fresh = fresh]
    OBVIOUS
  <1>3. /\ gpio'[l] \in GpioStates /\ gpio'[l].by = gpio[l].by
        /\ gpio'[l].level = got /\ gpio'[l].fresh = fresh
    BY <1>1, <1>2 DEF GpioStates
  <1>4. \A m \in Lines : m # l => gpio'[m] = gpio[m]
    OBVIOUS
  <1>5. gpio' \in [Lines -> GpioStates]
    BY <1>3, <1>4
  <1>6. Untold \in Marks /\ [tool |-> tool, level |-> level] \in Marks
    BY DEF Untold, Marks, Tools, Levels
  <1>7. /\ told' \in [Lines -> Marks]
        /\ \A m \in Lines : m # l => told'[m] = told[m]
        /\ told'[l] = IF run[p].alone THEN [tool |-> tool, level |-> level] ELSE Untold
    BY <1>6 DEF Tell
  <1>8. run[p].alone => got = level
    BY DEF Directed
  <1>9. PinsAsTold'
    <2>1. told'[l] # Untold => gpio'[l].level = told'[l].level
      BY <1>3, <1>7, <1>8
    <2> QED BY <1>4, <1>7, <2>1 DEF PinsAsTold
  <1> QED BY <1>3, <1>4, <1>5, <1>7, <1>9

\* A line that was handed out anew has its level.
LEMMA ExportedLines ==
  ASSUME gpio \in [Lines -> GpioStates], NEW ls, gpio' = Exported(ls)
  PROVE  /\ gpio' \in [Lines -> GpioStates]
         /\ \A l \in Lines :
              /\ gpio'[l].level = gpio[l].level
              /\ gpio'[l].by = gpio[l].by \/ (gpio[l].by = "none" /\ gpio'[l].by = "sysfs")
              /\ gpio'[l].fresh => gpio[l].fresh \/ l \in ls
              /\ l \in ls => gpio'[l].by # "none"
  <1> SUFFICES ASSUME NEW l \in Lines
      PROVE  /\ gpio'[l] \in GpioStates
             /\ gpio'[l].level = gpio[l].level
             /\ gpio'[l].by = gpio[l].by \/ (gpio[l].by = "none" /\ gpio'[l].by = "sysfs")
             /\ gpio'[l].fresh => gpio[l].fresh \/ l \in ls
             /\ l \in ls => gpio'[l].by # "none"
    BY DEF Exported
  <1>1. gpio[l] \in GpioStates
    OBVIOUS
  <1>2. CASE l \in ls /\ gpio[l].by = "none"
    <2>1. gpio'[l] = [gpio[l] EXCEPT !.by = "sysfs", !.fresh = TRUE]
      BY <1>2 DEF Exported
    <2> QED BY <1>1, <1>2, <2>1 DEF GpioStates
  <1>3. CASE ~ (l \in ls /\ gpio[l].by = "none")
    <2>1. gpio'[l] = gpio[l]
      BY <1>3 DEF Exported
    <2> QED BY <1>1, <1>3, <2>1
  <1> QED BY <1>2, <1>3

-----------------------------------------------------------------------------
(***************************************************************************)
(* Programs.                                                               *)
(***************************************************************************)

Fields(r) == [pc |-> r.pc, alone |-> r.alone, todo |-> r.todo, copy |-> r.copy]

LEMMA AloneChanged ==
  ASSUME NEW r, r = Fields(r), NEW b
  PROVE  [r EXCEPT !.alone = b]
           = [pc |-> r.pc, alone |-> b, todo |-> r.todo, copy |-> r.copy]
  BY DEF Fields

\* Only the program of p goes on, and at most loses its solitude.
OnlyMoves(p) ==
  /\ \A q \in Procs : run'[q] = Fields(run'[q]) /\ run'[q].alone \in BOOLEAN
  /\ run' = [q \in Procs |-> Fields(run'[q])]
  /\ \A q \in Procs : q # p =>
       /\ run'[q].pc = run[q].pc /\ run'[q].todo = run[q].todo
       /\ run'[q].copy = run[q].copy
       /\ run'[q].alone => run[q].alone
  /\ \A q \in Procs : run'[q].alone /\ Running(q)' =>
       \A o \in Procs : Running(o)' => o = q

LEMMA OthersKeep ==
  ASSUME NEW p \in Procs, OnlyMoves(p), NEW q \in Procs, q # p, NEW l
  PROVE  (Wakes(q, l)' <=> Wakes(q, l)) /\ (Reads(q, l)' <=> Reads(q, l))
  BY DEF OnlyMoves, Wakes, Reads

\* A program that is started.
LEMMA Launched ==
  ASSUME Shaped, AloneHasLines, NEW p \in Procs, NEW r, r = Fields(r), r.alone = FALSE,
         r # NotRunning => r.pc # "idle", Launch(p, r)
  PROVE  /\ OnlyMoves(p) /\ run[p].pc = "idle"
         /\ r = NotRunning => run'[p] = run[p]
         /\ r # NotRunning =>
              run'[p].pc = r.pc /\ run'[p].todo = r.todo /\ run'[p].copy = r.copy
         /\ r # NotRunning => run'[p].alone = Quiet /\ \A q \in Procs : q # p => ~ run'[q].alone
  <1>0. /\ run[p].pc = "idle"
        /\ \A q \in Procs : run[q] = Fields(run[q]) /\ run[q].alone \in BOOLEAN
    BY DEF Shaped, Launch, Running, Fields
  <1>1. CASE r = NotRunning
    <2>1. run' = [q \in Procs |-> run[q]]
      BY <1>1 DEF Launch
    <2>2. \A q \in Procs : run'[q] = run[q]
      BY <2>1
    <2>3. OnlyMoves(p)
      BY <1>0, <2>1, <2>2 DEF OnlyMoves, AloneHasLines, Running
    <2> QED BY <1>0, <1>1, <2>2, <2>3
  <1>2. CASE r # NotRunning
    <2> DEFINE quiet == Quiet
               started == [pc |-> r.pc, alone |-> quiet, todo |-> r.todo, copy |-> r.copy]
               other(q) == [pc |-> run[q].pc, alone |-> FALSE, todo |-> run[q].todo,
                            copy |-> run[q].copy]
    <2>1. run' = [q \in Procs |-> IF q = p THEN [r EXCEPT !.alone = quiet]
                                          ELSE [run[q] EXCEPT !.alone = FALSE]]
      BY <1>2 DEF Launch
    <2>2. quiet \in BOOLEAN
      BY DEF Quiet
    <2>3. quiet => \A q \in Procs : run[q].pc = "idle"
      BY DEF Quiet, Running
    <2> HIDE DEF quiet
    <2>4. [r EXCEPT !.alone = quiet] = started
      BY DEF Fields
    <2>5. ASSUME NEW q \in Procs
          PROVE  [run[q] EXCEPT !.alone = FALSE] = other(q)
      <3>1. run[q] = Fields(run[q])
        BY <1>0
      <3> QED BY <3>1, AloneChanged
    <2> DEFINE after(q) == IF q = p THEN started ELSE other(q)
    <2>6. run' = [q \in Procs |-> after(q)]
      BY <2>1, <2>4, <2>5
    <2>7. \A q \in Procs : after(q) = Fields(after(q)) /\ after(q).alone \in BOOLEAN
      BY <2>2 DEF Fields
    <2>8. ASSUME NEW q \in Procs
          PROVE  /\ run'[q] = Fields(run'[q]) /\ run'[q].alone \in BOOLEAN
                 /\ q = p => run'[q].pc = r.pc /\ run'[q].todo = r.todo
                             /\ run'[q].copy = r.copy /\ run'[q].alone = quiet
                 /\ q # p => run'[q].pc = run[q].pc /\ run'[q].todo = run[q].todo
                             /\ run'[q].copy = run[q].copy /\ ~ run'[q].alone
      <3>1. run'[q] = after(q)
        BY <2>6
      <3>2. q = p => run'[q] = started
        BY <3>1
      <3>3. q # p => run'[q] = other(q)
        BY <3>1
      <3>4. run'[q] = Fields(run'[q]) /\ run'[q].alone \in BOOLEAN
        BY <2>7, <3>1
      <3> QED BY <3>2, <3>3, <3>4
    <2>9. run' = [q \in Procs |-> Fields(run'[q])]
      BY <2>6, <2>8
    <2>10. \A q \in Procs : run'[q].alone => \A o \in Procs : Running(o)' => o = q
      BY <2>3, <2>8 DEF Running
    <2>11. OnlyMoves(p)
      BY <2>8, <2>9, <2>10 DEF OnlyMoves
    <2> QED BY <1>0, <1>2, <2>8, <2>11 DEF quiet
  <1> QED BY <1>1, <1>2

\* A program that goes on or ends.
LEMMA GoneOn ==
  ASSUME Shaped, AloneHasLines, NEW p \in Procs, Running(p), NEW r,
         r = NotRunning \/ (r = Fields(r) /\ r.alone \in {FALSE, run[p].alone}),
         run' = [run EXCEPT ![p] = r]
  PROVE  OnlyMoves(p) /\ run'[p] = r
  <1>0. \A q \in Procs : run[q] = Fields(run[q]) /\ run[q].alone \in BOOLEAN
    BY DEF Shaped, Fields
  <1>1. run' = [q \in Procs |-> IF q = p THEN r ELSE run[q]]
    BY DEF Shaped
  <1>2. \A q \in Procs : run'[q] = IF q = p THEN r ELSE run[q]
    BY <1>1
  <1>3. NotRunning = Fields(NotRunning) /\ NotRunning.alone = FALSE
        /\ NotRunning.pc = "idle"
    BY DEF NotRunning, Fields
  <1>4. \A q \in Procs : run'[q] = Fields(run'[q]) /\ run'[q].alone \in BOOLEAN
    BY <1>0, <1>2, <1>3
  <1>5. run' = [q \in Procs |-> Fields(run'[q])]
    BY <1>1, <1>4
  <1>6. \A q \in Procs : Running(q)' => Running(q)
    BY <1>2 DEF Running
  <1>7. \A q \in Procs : run'[q].alone => run[q].alone
    BY <1>2, <1>3
  <1>8. \A q \in Procs : run'[q].alone /\ Running(q)' =>
          \A o \in Procs : Running(o)' => o = q
    BY <1>6, <1>7 DEF AloneHasLines
  <1> QED BY <1>2, <1>4, <1>5, <1>7, <1>8 DEF OnlyMoves

\* Only programs that write to lines or read them have a part in the invariant.
LEMMA Bystander ==
  ASSUME NEW p \in Procs, run[p].pc \notin Touching, NEW l
  PROVE  ~ Wakes(p, l) /\ ~ Reads(p, l)
  BY DEF Wakes, Reads, Touching

LEMMA BystanderNext ==
  ASSUME NEW p \in Procs, run'[p].pc \notin Touching, NEW l
  PROVE  ~ Wakes(p, l)' /\ ~ Reads(p, l)'
  BY DEF Wakes, Reads, Touching

\* What only one program's progress has to be looked at for: where the others
\* are does not change, and the lines of who runs alone are its own.
LEMMA OwnMove ==
  ASSUME LinesInv, NEW p \in Procs, OnlyMoves(p),
         \A l \in Lines : told'[l] # Untold => Exists(l)',
         \A l \in Lines : gpio'[l].by = "gpiod" =>
           Reads(p, l)' \/ (gpio[l].by = "gpiod" /\ ~ Reads(p, l)),
         \A l \in Lines : gpio'[l].fresh =>
           Wakes(p, l)' \/ (gpio[l].fresh /\ ~ Wakes(p, l)),
         \A l \in Lines : Reads(p, l)' =>
           gpio'[l].by = "gpiod" /\ (gpio[l].by # "gpiod" \/ Reads(p, l)),
         \A l \in Lines : gpio[l].by = "gpiod" /\ ~ Reads(p, l) => gpio'[l].by = "gpiod"
  PROVE  LinesAccounted'
  <1> SUFFICES ASSUME NEW l \in Lines
      PROVE  /\ gpio'[l].fresh => \E q \in Procs : Wakes(q, l)'
             /\ gpio'[l].by = "gpiod" => \E q \in Procs : Reads(q, l)'
             /\ \A q \in Procs : Reads(q, l)' =>
                  gpio'[l].by = "gpiod" /\ \A o \in Procs : Reads(o, l)' => o = q
    BY DEF LinesAccounted
  <1>1. /\ gpio[l].fresh => \E q \in Procs : Wakes(q, l)
        /\ gpio[l].by = "gpiod" => \E q \in Procs : Reads(q, l)
        /\ \A q \in Procs : Reads(q, l) =>
             gpio[l].by = "gpiod" /\ \A o \in Procs : Reads(o, l) => o = q
    BY DEF LinesInv, LinesAccounted
  <1>2. \A q \in Procs : q # p => (Wakes(q, l)' <=> Wakes(q, l))
                                  /\ (Reads(q, l)' <=> Reads(q, l))
    BY OthersKeep
  <1>3. gpio'[l].fresh => \E q \in Procs : Wakes(q, l)'
    BY <1>1, <1>2
  <1>4. gpio'[l].by = "gpiod" => \E q \in Procs : Reads(q, l)'
    BY <1>1, <1>2
  <1>5. ASSUME NEW q \in Procs, Reads(q, l)'
        PROVE  gpio'[l].by = "gpiod"
    BY <1>1, <1>2, <1>5
  <1>6. ASSUME NEW q \in Procs, Reads(q, l)', NEW o \in Procs, Reads(o, l)'
        PROVE  o = q
    BY <1>1, <1>2, <1>6
  <1> QED BY <1>3, <1>4, <1>5, <1>6

\* The others know their lines as before, and where they run alone p does not.
LEMMA OwnKnowledge ==
  ASSUME LinesInv, NEW p \in Procs, OnlyMoves(p),
         gpio' \in [Lines -> GpioStates], told' \in [Lines -> Marks],
         run'[p].pc \in {"write", "slept"} =>
           run'[p].todo[1] \in [line : Lines, level : Levels],
         run'[p].pc \in {"first", "second"} => run'[p].todo[1].port \in Ports,
         run'[p].pc = "reading" => run'[p].todo[1] \in Lines
  PROVE  Shaped' /\ KnowsItsLines'
  <1>1. Shaped'
    BY DEF OnlyMoves, Fields, Shaped, Marks
  <1>2. ASSUME NEW q \in Procs
        PROVE  /\ run'[q].pc \in {"write", "slept"} =>
                    run'[q].todo[1] \in [line : Lines, level : Levels]
               /\ run'[q].pc \in {"first", "second"} => run'[q].todo[1].port \in Ports
               /\ run'[q].pc = "reading" => run'[q].todo[1] \in Lines
    <2>1. CASE q = p
      BY <2>1
    <2>2. CASE q # p
      BY <2>2 DEF OnlyMoves, LinesInv, KnowsItsLines
    <2> QED BY <2>1, <2>2
  <1> QED BY <1>1, <1>2 DEF KnowsItsLines

\* A program that goes on without a line of its own.
LEMMA Untouched ==
  ASSUME LinesInv, NEW p \in Procs, OnlyMoves(p), UNCHANGED <<gpio, told>>,
         run[p].pc \notin Touching, run'[p].pc \notin Touching
  PROVE  LinesInv'
  <1>1. Shaped' /\ KnowsItsLines'
    BY OwnKnowledge DEF LinesInv, Shaped, Touching, Marks
  <1>2. LinesAccounted'
    <2>1. \A l : /\ ~ Wakes(p, l) /\ ~ Reads(p, l)
                 /\ ~ Wakes(p, l)' /\ ~ Reads(p, l)'
      BY Bystander, BystanderNext
    <2>2. \A l \in Lines : told'[l] # Untold => Exists(l)'
      BY DEF LinesInv, LinesAccounted, Exists
    <2> QED BY <2>1, <2>2, OwnMove
  <1>3. AloneHasLines'
    <2>1. \A q \in Procs : q = p => HasItsLines(q)'
      BY DEF HasItsLines, Touching
    <2>2. ASSUME NEW q \in Procs, q # p, run'[q].alone, Running(q)'
          PROVE  HasItsLines(q)'
      <3>1. run'[q].pc = run[q].pc /\ run'[q].todo = run[q].todo /\ run[q].alone
            /\ Running(q)
        BY <2>2 DEF OnlyMoves, Running
      <3>2. HasItsLines(q)
        BY <3>1 DEF LinesInv, AloneHasLines
      <3> QED BY <3>1, <3>2 DEF HasItsLines, Exists
    <2> QED BY <2>1, <2>2 DEF AloneHasLines, OnlyMoves
  <1>4. PinsAsTold'
    BY DEF LinesInv, PinsAsTold
  <1> QED BY <1>1, <1>2, <1>3, <1>4 DEF LinesInv

\* While a program touches lines, no other runs alone.
LEMMA OwnSolitude ==
  ASSUME LinesInv, NEW p \in Procs, OnlyMoves(p), Running(p) \/ Running(p)',
         run'[p].alone /\ Running(p)' => HasItsLines(p)'
  PROVE  AloneHasLines'
  <1>1. ASSUME NEW q \in Procs, q # p, run'[q].alone, Running(q)'
        PROVE  FALSE
    <2>1. run[q].alone /\ Running(q)
      BY <1>1 DEF OnlyMoves, Running
    <2>2. CASE Running(p)
      BY <1>1, <2>1, <2>2 DEF LinesInv, AloneHasLines
    <2>3. CASE Running(p)'
      BY <1>1, <2>3 DEF OnlyMoves
    <2> QED BY <2>2, <2>3
  <1>2. \A q \in Procs : run'[q].alone /\ Running(q)' =>
          \A o \in Procs : Running(o)' => o = q
    BY DEF OnlyMoves
  <1> QED BY <1>1, <1>2 DEF AloneHasLines

\* With nothing running the kernel has no line, and none is fresh.
LEMMA QuietLines ==
  ASSUME LinesInv, Quiet, NEW l \in Lines
  PROVE  gpio[l].by # "gpiod" /\ ~ gpio[l].fresh
  <1>1. \A q \in Procs : ~ Wakes(q, l) /\ ~ Reads(q, l)
    BY DEF Quiet, Running, Wakes, Reads
  <1> QED BY <1>1 DEF LinesInv, LinesAccounted

-----------------------------------------------------------------------------
(***************************************************************************)
(* setdo and getdi.                                                        *)
(***************************************************************************)

LEMMA SetdoPlanned ==
  ASSUME NEW argv, SetdoPlan(argv) # NotRunning
  PROVE  \E line \in Lines, level \in Levels :
           LET plan == SetdoPlan(argv)
           IN /\ plan.pc = IF Exists(line) THEN "write" ELSE "slept"
              /\ plan.todo = <<[line |-> line, level |-> level]>>
              /\ plan = Fields(plan) /\ plan.alone = FALSE
  <1> DEFINE line == DoLine[argv[1][1] - Code0 + 1]
             level == IF argv[2][1] > Code0 THEN "high" ELSE "low"
  <1>1. PinOk(argv[1])
    BY DEF SetdoPlan
  <1>2. argv[1][1] - Code0 \in 0 .. 3
    BY <1>1 DEF PinOk
  <1>3. line \in Lines
    <2> DEFINE n == argv[1][1] - Code0
    <2>1. n \in 0 .. 3
      BY <1>2
    <2>2. line = DoLine[n + 1]
      OBVIOUS
    <2> HIDE DEF n
    <2> QED BY <2>1, <2>2, LinesAssumption DEF DoLine
  <1>4. level \in Levels
    BY DEF Levels
  <1>5. SetdoPlan(argv)
          = [NotRunning EXCEPT !.pc = IF Exists(line) THEN "write" ELSE "slept",
                               !.todo = <<[line |-> line, level |-> level]>>]
    BY DEF SetdoPlan
  <1> HIDE DEF line, level
  <1>6. /\ SetdoPlan(argv).pc = IF Exists(line) THEN "write" ELSE "slept"
        /\ SetdoPlan(argv).todo = <<[line |-> line, level |-> level]>>
        /\ SetdoPlan(argv) = Fields(SetdoPlan(argv)) /\ SetdoPlan(argv).alone = FALSE
    BY <1>5 DEF NotRunning, Fields
  <1> QED BY <1>3, <1>4, <1>6

LEMMA Idle == NotRunning = Fields(NotRunning) /\ NotRunning.alone = FALSE
              /\ NotRunning.pc = "idle"
  BY DEF NotRunning, Fields

\* A command line that leads to nothing.
LEMMA NothingDone ==
  ASSUME LinesInv, NEW p \in Procs, Launch(p, NotRunning), UNCHANGED <<gpio, told>>
  PROVE  LinesInv'
  <1>1. OnlyMoves(p) /\ run[p].pc = "idle" /\ run'[p] = run[p]
    BY Launched, Idle DEF LinesInv
  <1> QED BY <1>1, Untouched DEF Touching

LEMMA SetdoKeeps ==
  ASSUME LinesInv, NEW p \in Procs, NEW argv, Setdo(p, argv)
  PROVE  LinesInv'
  <1> DEFINE plan == SetdoPlan(argv)
  <1>1. CASE plan = NotRunning
    BY <1>1, Idle, NothingDone DEF Setdo
  <1>2. CASE plan # NotRunning
    <2>1. PICK line \in Lines, level \in Levels :
            /\ plan.pc = IF Exists(line) THEN "write" ELSE "slept"
            /\ plan.todo = <<[line |-> line, level |-> level]>>
            /\ plan = Fields(plan) /\ plan.alone = FALSE
      BY <1>2, SetdoPlanned
    <2>2. /\ Launch(p, plan) /\ told' = told
          /\ gpio' = IF plan.pc = "slept" THEN Exported({plan.todo[1].line}) ELSE gpio
      BY DEF Setdo
    <2> HIDE DEF plan
    <2>3. /\ OnlyMoves(p) /\ run[p].pc = "idle" /\ run'[p].pc = plan.pc
          /\ run'[p].todo = plan.todo /\ (run'[p].alone => Quiet)
      BY <1>2, <2>1, <2>2, Launched DEF LinesInv
    <2>4. run'[p].todo[1] = [line |-> line, level |-> level]
      BY <2>1, <2>3
    <2>5. plan.todo[1].line = line
      BY <2>1
    <2>6. /\ \A l : ~ Wakes(p, l) /\ ~ Reads(p, l)
          /\ \A l : ~ Reads(p, l)'
      BY <2>1, <2>3 DEF Wakes, Reads
    <2>7. gpio \in [Lines -> GpioStates] /\ told \in [Lines -> Marks]
      BY DEF LinesInv, Shaped, Marks
    <2>8. CASE Exists(line)
      <3>1. gpio' = gpio /\ run'[p].pc = "write"
        BY <2>1, <2>2, <2>3, <2>8
      <3>2. Shaped' /\ KnowsItsLines'
        BY <2>2, <2>3, <2>4, <2>7, <3>1, OwnKnowledge
      <3>3. LinesAccounted'
        <4>1. \A l \in Lines : told'[l] # Untold => Exists(l)'
          BY <2>2, <3>1 DEF LinesInv, LinesAccounted, Exists
        <4> QED BY <2>3, <2>6, <3>1, <4>1, OwnMove
      <3>4. run'[p].alone => HasItsLines(p)'
        BY <2>3, <2>4, <2>8, <3>1, QuietLines DEF HasItsLines, Exists
      <3>5. AloneHasLines'
        BY <2>3, <3>1, <3>4, OwnSolitude DEF Running
      <3>6. PinsAsTold'
        BY <2>2, <3>1 DEF LinesInv, PinsAsTold
      <3> QED BY <3>2, <3>3, <3>5, <3>6 DEF LinesInv
    <2>9. CASE ~ Exists(line)
      <3>1. gpio' = Exported({line}) /\ run'[p].pc = "slept"
        BY <2>1, <2>2, <2>3, <2>5, <2>9
      <3>2. /\ gpio' \in [Lines -> GpioStates]
            /\ \A l \in Lines :
                 /\ gpio'[l].level = gpio[l].level
                 /\ gpio'[l].by = gpio[l].by
                    \/ (gpio[l].by = "none" /\ gpio'[l].by = "sysfs")
                 /\ gpio'[l].fresh => gpio[l].fresh \/ l \in {line}
                 /\ l \in {line} => gpio'[l].by # "none"
        BY <2>7, <3>1, ExportedLines
      <3>3. Shaped' /\ KnowsItsLines'
        <4>1. gpio' \in [Lines -> GpioStates] /\ told' \in [Lines -> Marks]
          BY <2>2, <2>7, <3>2
        <4>2. run'[p].todo[1] \in [line : Lines, level : Levels]
          BY <2>4
        <4> QED BY <2>3, <3>1, <4>1, <4>2, OwnKnowledge
      <3>4. Wakes(p, line)'
        BY <2>4, <3>1 DEF Wakes
      <3>5. LinesAccounted'
        <4>1. \A l \in Lines : told'[l] # Untold => Exists(l)'
          BY <2>2, <3>2 DEF LinesInv, LinesAccounted, Exists
        <4>2. \A l \in Lines : gpio'[l].fresh => Wakes(p, l)' \/ gpio[l].fresh
          BY <3>2, <3>4
        <4> QED BY <2>3, <2>6, <3>2, <4>1, <4>2, OwnMove
      <3>6. run'[p].alone => HasItsLines(p)'
        <4>1. ASSUME run'[p].alone PROVE gpio'[line].by = "sysfs"
          BY <2>3, <2>7, <3>2, <4>1, QuietLines DEF GpioStates
        <4> QED BY <2>4, <3>1, <4>1 DEF HasItsLines, Exists
      <3>7. AloneHasLines'
        BY <2>3, <3>1, <3>6, OwnSolitude DEF Running
      <3>8. PinsAsTold'
        BY <2>2, <3>2 DEF LinesInv, PinsAsTold
      <3> QED BY <3>3, <3>5, <3>7, <3>8 DEF LinesInv
    <2> QED BY <2>8, <2>9
  <1> QED BY <1>1, <1>2

LEMMA GetdiKeeps ==
  ASSUME LinesInv, NEW p \in Procs, NEW argv, Getdi(p, argv)
  PROVE  LinesInv'
  <1> DEFINE line == DiLine[argv[1][1] - Code0 + 1]
             got == (Len(argv) >= 1 /\ PinOk(argv[1])) /\ gpio[line].by = "none"
             r == [NotRunning EXCEPT !.pc = "reading", !.todo = <<line>>]
  <1>0. /\ Launch(p, IF got THEN r ELSE NotRunning) /\ told' = told
        /\ gpio' = IF got THEN [gpio EXCEPT ![line].by = "gpiod", ![line].level = "in"]
                          ELSE gpio
    BY DEF Getdi
  <1>1. CASE ~ got
    BY <1>0, <1>1, NothingDone
  <1>2. CASE got
    <2>1. line \in Lines
      <3> DEFINE n == argv[1][1] - Code0
      <3>1. n \in 0 .. 3
        BY <1>2 DEF PinOk
      <3>2. line = DiLine[n + 1]
        OBVIOUS
      <3> HIDE DEF n
      <3> QED BY <3>1, <3>2, LinesAssumption DEF DiLine
    <2>2. gpio[line].by = "none"
      BY <1>2
    <2>3. Launch(p, r) /\ gpio' = [gpio EXCEPT ![line].by = "gpiod", ![line].level = "in"]
      BY <1>0, <1>2
    <2> HIDE DEF line, got
    <2>4. r = Fields(r) /\ r.alone = FALSE /\ r.pc = "reading" /\ r.todo = <<line>>
      <3>1. r = [NotRunning EXCEPT !.pc = "reading", !.todo = <<line>>]
        OBVIOUS
      <3> HIDE DEF r
      <3> QED BY <3>1 DEF NotRunning, Fields
    <2> HIDE DEF r
    <2>5. /\ OnlyMoves(p) /\ run[p].pc = "idle" /\ run'[p].pc = "reading"
          /\ run'[p].todo = <<line>>
      BY <2>3, <2>4, Launched, Idle DEF LinesInv
    <2>6. /\ \A l : ~ Wakes(p, l) /\ ~ Reads(p, l)
          /\ \A l : Reads(p, l)' <=> l = line
      BY <2>5 DEF Wakes, Reads
    <2>7. gpio \in [Lines -> GpioStates] /\ told \in [Lines -> Marks]
      BY DEF LinesInv, Shaped, Marks
    <2>8. gpio'[line] = [gpio[line] EXCEPT !.by = "gpiod", !.level = "in"]
      BY <2>1, <2>3, <2>7
    <2>9. /\ gpio'[line] \in GpioStates /\ gpio'[line].by = "gpiod"
          /\ gpio'[line].fresh = gpio[line].fresh
      <3>1. gpio[line] \in GpioStates /\ "in" \in Levels
        BY <2>1, <2>7 DEF Levels
      <3> QED BY <2>8, <3>1 DEF GpioStates
    <2>10. \A l \in Lines : l # line => gpio'[l] = gpio[l]
      BY <2>3, <2>7
    <2>11. Shaped' /\ KnowsItsLines'
      <3>1. gpio' \in [Lines -> GpioStates] /\ told' \in [Lines -> Marks]
        BY <1>0, <2>3, <2>7, <2>9, <2>10
      <3>2. run'[p].todo[1] \in Lines
        BY <2>1, <2>5
      <3> QED BY <2>5, <3>1, <3>2, OwnKnowledge
    <2>12. told[line] = Untold
      BY <2>1, <2>2 DEF LinesInv, LinesAccounted, Exists
    <2>13. LinesAccounted'
      <3>1. \A l \in Lines : told'[l] # Untold => Exists(l)'
        BY <1>0, <2>10, <2>12 DEF LinesInv, LinesAccounted, Exists
      <3>2. \A l \in Lines : gpio'[l].by = "gpiod" =>
              Reads(p, l)' \/ (gpio[l].by = "gpiod" /\ ~ Reads(p, l))
        BY <2>6, <2>10
      <3>3. \A l \in Lines : gpio'[l].fresh =>
              Wakes(p, l)' \/ (gpio[l].fresh /\ ~ Wakes(p, l))
        BY <2>6, <2>9, <2>10
      <3>4. \A l \in Lines : Reads(p, l)' =>
              gpio'[l].by = "gpiod" /\ (gpio[l].by # "gpiod" \/ Reads(p, l))
        BY <2>2, <2>6, <2>9
      <3>5. \A l \in Lines : gpio[l].by = "gpiod" /\ ~ Reads(p, l) =>
              gpio'[l].by = "gpiod"
        BY <2>9, <2>10
      <3> QED BY <2>5, <3>1, <3>2, <3>3, <3>4, <3>5, OwnMove
    <2>14. AloneHasLines'
      BY <2>5, OwnSolitude DEF HasItsLines, Running
    <2>15. PinsAsTold'
      BY <1>0, <2>10, <2>12 DEF LinesInv, PinsAsTold
    <2> QED BY <2>11, <2>13, <2>14, <2>15 DEF LinesInv
  <1> QED BY <1>1, <1>2

LEMMA GetdiReleaseKeeps ==
  ASSUME LinesInv, NEW p \in Procs, GetdiRelease(p)
  PROVE  LinesInv'
  <1> DEFINE line == run[p].todo[1]
  <1>1. /\ run[p].pc = "reading" /\ line \in Lines /\ told' = told
        /\ gpio' = [gpio EXCEPT ![line].by = "none"]
        /\ run' = [run EXCEPT ![p] = NotRunning]
    BY DEF GetdiRelease, LinesInv, KnowsItsLines
  <1>2. OnlyMoves(p) /\ run'[p] = NotRunning /\ run'[p].pc = "idle" /\ Running(p)
    BY <1>1, GoneOn, Idle DEF LinesInv, Running
  <1>3. /\ \A l : ~ Wakes(p, l) /\ ~ Reads(p, l)'
        /\ \A l : Reads(p, l) <=> l = line
    BY <1>1, <1>2 DEF Wakes, Reads
  <1>4. gpio[line].by = "gpiod" /\ told[line] = Untold
    BY <1>1, <1>3 DEF LinesInv, LinesAccounted, Exists
  <1> HIDE DEF line
  <1>5. gpio \in [Lines -> GpioStates] /\ told \in [Lines -> Marks]
    BY DEF LinesInv, Shaped, Marks
  <1>6. gpio'[line] = [gpio[line] EXCEPT !.by = "none"]
    BY <1>1, <1>5
  <1>7. /\ gpio'[line] \in GpioStates /\ gpio'[line].by = "none"
        /\ gpio'[line].fresh = gpio[line].fresh
    BY <1>1, <1>5, <1>6 DEF GpioStates
  <1>8. \A l \in Lines : l # line => gpio'[l] = gpio[l]
    BY <1>1, <1>5
  <1>9. Shaped' /\ KnowsItsLines'
    <2>1. gpio' \in [Lines -> GpioStates] /\ told' \in [Lines -> Marks]
      BY <1>1, <1>5, <1>7, <1>8
    <2> QED BY <1>2, <2>1, OwnKnowledge
  <1>10. LinesAccounted'
    <2>1. \A l \in Lines : told'[l] # Untold => Exists(l)'
      BY <1>1, <1>4, <1>8 DEF LinesInv, LinesAccounted, Exists
    <2>2. \A l \in Lines : gpio'[l].by = "gpiod" => gpio[l].by = "gpiod" /\ ~ Reads(p, l)
      BY <1>3, <1>7, <1>8
    <2>3. \A l \in Lines : gpio'[l].fresh => gpio[l].fresh
      BY <1>7, <1>8
    <2>4. \A l \in Lines : gpio[l].by = "gpiod" /\ ~ Reads(p, l) => gpio'[l].by = "gpiod"
      BY <1>3, <1>8
    <2> QED BY <1>2, <1>3, <2>1, <2>2, <2>3, <2>4, OwnMove
  <1>11. AloneHasLines'
    BY <1>2, OwnSolitude DEF Running
  <1>12. PinsAsTold'
    BY <1>1, <1>4, <1>8 DEF LinesInv, PinsAsTold
  <1> QED BY <1>9, <1>10, <1>11, <1>12 DEF LinesInv

\* What is left to say when a program has driven a line, or passed it over.
LEMMA AfterDrive ==
  ASSUME LinesInv, NEW p \in Procs, OnlyMoves(p), Running(p), NEW line \in Lines,
         run[p].pc # "reading", run'[p].pc # "reading",
         gpio' \in [Lines -> GpioStates], told' \in [Lines -> Marks],
         \A m \in Lines : gpio'[m].by = gpio[m].by,
         \A m \in Lines : m # line => gpio'[m] = gpio[m] /\ told'[m] = told[m],
         told'[line] # Untold => Exists(line),
         \A m \in Lines : gpio'[m].fresh =>
           Wakes(p, m)' \/ (gpio[m].fresh /\ ~ Wakes(p, m))
  PROVE  LinesAccounted'
  <1>1. \A m \in Lines : told'[m] # Untold => Exists(m)'
    BY DEF LinesInv, LinesAccounted, Exists
  <1>2. \A m : ~ Reads(p, m) /\ ~ Reads(p, m)'
    BY DEF Reads
  <1> QED BY <1>1, <1>2, OwnMove

LEMMA SetdoWriteKeeps ==
  ASSUME LinesInv, NEW p \in Procs, SetdoWrite(p)
  PROVE  LinesInv'
  <1> DEFINE line == run[p].todo[1].line
             level == run[p].todo[1].level
             slept == run[p].pc = "slept"
             fresh == gpio[line].fresh /\ ~ slept
  <1>1. run[p].pc \in {"write", "slept"} /\ line \in Lines /\ level \in Levels
    BY DEF SetdoWrite, LinesInv, KnowsItsLines
  <1>2. gpio \in [Lines -> GpioStates] /\ told \in [Lines -> Marks] /\ PinsAsTold
    BY DEF LinesInv, Shaped, Marks
  <1>3. PICK got \in Directed(line, level, slept) :
          gpio' = [gpio EXCEPT ![line].level = got, ![line].fresh = @ /\ ~ slept]
    BY DEF SetdoWrite
  <1>4. Tell(p, line, "setdo", level) /\ run' = [run EXCEPT ![p] = NotRunning]
    BY DEF SetdoWrite
  <1>5. OnlyMoves(p) /\ run'[p].pc = "idle" /\ Running(p)
    BY <1>1, <1>4, GoneOn, Idle DEF LinesInv, Running
  <1>6. run[p].alone => Exists(line) /\ (slept \/ ~ gpio[line].fresh)
    BY <1>1, <1>5 DEF LinesInv, AloneHasLines, HasItsLines
  <1>7. \A l : (Wakes(p, l) <=> slept /\ l = line) /\ ~ Wakes(p, l)'
    BY <1>1, <1>5 DEF Wakes
  <1>8. slept \in BOOLEAN /\ fresh \in BOOLEAN
    OBVIOUS
  <1>9. gpio' = [gpio EXCEPT ![line].level = got, ![line].fresh = fresh]
    BY <1>1, <1>2, <1>3 DEF GpioStates
  <1>10. fresh => gpio[line].fresh /\ ~ slept
    OBVIOUS
  <1> HIDE DEF line, level, slept, fresh
  <1>11. /\ gpio' \in [Lines -> GpioStates] /\ told' \in [Lines -> Marks]
         /\ PinsAsTold'
         /\ \A m \in Lines : gpio'[m].by = gpio[m].by
         /\ \A m \in Lines : m # line => gpio'[m] = gpio[m] /\ told'[m] = told[m]
         /\ gpio'[line].fresh = fresh
         /\ told'[line] # Untold => run[p].alone
    BY <1>1, <1>2, <1>4, <1>6, <1>8, <1>9, Driven DEF Tools
  <1>12. Shaped' /\ KnowsItsLines'
    BY <1>5, <1>11, OwnKnowledge
  <1>13. LinesAccounted'
    <2>1. \A m \in Lines : gpio'[m].fresh => gpio[m].fresh /\ ~ Wakes(p, m)
      BY <1>7, <1>10, <1>11
    <2> QED BY <1>1, <1>5, <1>6, <1>11, <2>1, AfterDrive
  <1>14. AloneHasLines'
    BY <1>5, OwnSolitude DEF Running
  <1> QED BY <1>11, <1>12, <1>13, <1>14 DEF LinesInv

-----------------------------------------------------------------------------
(***************************************************************************)
(* uartmode.                                                               *)
(***************************************************************************)

\* What main goes on to touches no line before setUartMode.
LEMMA Planned ==
  ASSUME NEW argv, NEW root, NEW r, r = Plan(argv, root)
  PROVE  /\ r = Fields(r) /\ r.alone = FALSE
         /\ r = NotRunning \/ r.pc \in {"hung", "sed", "export"}
  <1>1. \/ r = NotRunning
        \/ r = [NotRunning EXCEPT !.pc = "hung"]
        \/ \E todo : r = [NotRunning EXCEPT !.pc = "sed", !.todo = todo]
        \/ \E todo : r = [NotRunning EXCEPT !.pc = "export", !.todo = todo]
    BY DEF Plan
  <1>2. CASE r = NotRunning
    BY <1>2, Idle
  <1>3. CASE r = [NotRunning EXCEPT !.pc = "hung"]
    BY <1>3 DEF NotRunning, Fields
  <1>4. CASE \E todo : r = [NotRunning EXCEPT !.pc = "sed", !.todo = todo]
    BY <1>4 DEF NotRunning, Fields
  <1>5. CASE \E todo : r = [NotRunning EXCEPT !.pc = "export", !.todo = todo]
    BY <1>5 DEF NotRunning, Fields
  <1> QED BY <1>1, <1>2, <1>3, <1>4, <1>5

LEMMA UartmodeKeeps ==
  ASSUME LinesInv, NEW p \in Procs, NEW argv, NEW root, Launch(p, Plan(argv, root)),
         UNCHANGED <<gpio, told>>
  PROVE  LinesInv'
  <1> DEFINE r == Plan(argv, root)
  <1>1. /\ r = Fields(r) /\ r.alone = FALSE
        /\ r = NotRunning \/ r.pc \in {"hung", "sed", "export"}
    BY Planned
  <1>2. Launch(p, r)
    OBVIOUS
  <1> HIDE DEF r
  <1>3. CASE r = NotRunning
    BY <1>2, <1>3, NothingDone
  <1>4. CASE r # NotRunning
    <2>1. OnlyMoves(p) /\ run[p].pc = "idle" /\ run'[p].pc = r.pc
      BY <1>1, <1>2, <1>4, Launched DEF LinesInv
    <2> QED BY <1>1, <1>4, <2>1, Untouched DEF Touching
  <1> QED BY <1>3, <1>4

LEMMA PassesOver ==
  ASSUME NEW s, s = Fields(s), NEW todo, NEW r, r = [s EXCEPT !.todo = todo]
  PROVE  r = Fields(r) /\ r.alone = s.alone /\ r.pc = s.pc
  BY DEF Fields

LEMMA SedReadKeeps ==
  ASSUME LinesInv, NEW p \in Procs, SedRead(p)
  PROVE  LinesInv'
  <1> DEFINE r == [run[p] EXCEPT !.pc = "rename", !.copy = file]
  <1>1. /\ run[p].pc = "sed" /\ run' = [run EXCEPT ![p] = r] /\ UNCHANGED <<gpio, told>>
    BY DEF SedRead, LinesInv, Shaped
  <1>2. run[p] = Fields(run[p])
    BY DEF LinesInv, Shaped, Fields
  <1>3. r = Fields(r) /\ r.alone = run[p].alone /\ r.pc = "rename"
    <2> DEFINE s == run[p]
               pc == "rename"
               copy == file
    <2>1. r = [s EXCEPT !.pc = pc, !.copy = copy] /\ s = Fields(s)
      BY <1>2
    <2> HIDE DEF r, s, pc, copy
    <2>2. r = Fields(r) /\ r.alone = s.alone /\ r.pc = pc
      BY <2>1 DEF Fields
    <2> QED BY <2>2 DEF s, pc
  <1> HIDE DEF r
  <1>4. OnlyMoves(p) /\ run'[p].pc = "rename"
    BY <1>1, <1>3, GoneOn DEF LinesInv, Running
  <1> QED BY <1>1, <1>4, Untouched DEF Touching

LEMMA SedRenameKeeps ==
  ASSUME LinesInv, NEW p \in Procs, SedRename(p)
  PROVE  LinesInv'
  <1> DEFINE r == [run[p] EXCEPT !.pc = "export", !.copy = <<>>]
  <1>1. /\ run[p].pc = "rename" /\ run' = [run EXCEPT ![p] = r] /\ UNCHANGED <<gpio, told>>
    BY DEF SedRename, LinesInv, Shaped
  <1>2. run[p] = Fields(run[p])
    BY DEF LinesInv, Shaped, Fields
  <1>3. r = Fields(r) /\ r.alone = run[p].alone /\ r.pc = "export"
    <2> DEFINE s == run[p]
               pc == "export"
               copy == <<>>
    <2>1. r = [s EXCEPT !.pc = pc, !.copy = copy] /\ s = Fields(s)
      BY <1>2
    <2> HIDE DEF r, s, pc, copy
    <2>2. r = Fields(r) /\ r.alone = s.alone /\ r.pc = pc
      BY <2>1 DEF Fields
    <2> QED BY <2>2 DEF s, pc
  <1> HIDE DEF r
  <1>4. OnlyMoves(p) /\ run'[p].pc = "export"
    BY <1>1, <1>3, GoneOn DEF LinesInv, Running
  <1> QED BY <1>1, <1>4, Untouched DEF Touching

LEMMA FailureEdited ==
  ASSUME NEW s, s = Fields(s), NEW r, r = [s EXCEPT !.pc = "export", !.alone = FALSE, !.copy = <<>>]
  PROVE  /\ r = Fields(r) /\ r.pc = "export" /\ r.alone = FALSE
         /\ r.todo = s.todo /\ r.copy = <<>>
  BY DEF Fields

LEMMA SedFailsKeeps ==
  ASSUME LinesInv, NEW p \in Procs, SedFails(p)
  PROVE  LinesInv'
  <1> DEFINE r == [run[p] EXCEPT !.pc = "export", !.alone = FALSE, !.copy = <<>>]
  <1>1. /\ run[p].pc \in {"sed", "rename"} /\ run' = [run EXCEPT ![p] = r]
        /\ UNCHANGED <<gpio, told>>
    BY DEF SedFails, LinesInv, Shaped
  <1>2. r = Fields(r) /\ r.alone = FALSE /\ r.pc = "export"
    <2>1. run[p] = Fields(run[p])
      BY DEF LinesInv, Shaped, Fields
    <2>2. r = [run[p] EXCEPT !.pc = "export", !.alone = FALSE, !.copy = <<>>]
      OBVIOUS
    <2> HIDE DEF r
    <2> QED BY <2>1, <2>2, FailureEdited
  <1> HIDE DEF r
  <1>3. OnlyMoves(p) /\ run'[p].pc = "export"
    BY <1>1, <1>2, GoneOn DEF LinesInv, Running
  <1> QED BY <1>1, <1>3, Untouched DEF Touching

LEMMA ExitKeeps ==
  ASSUME LinesInv, NEW p \in Procs, Exit(p)
  PROVE  LinesInv'
  <1>1. /\ run[p].pc = "export" /\ run' = [run EXCEPT ![p] = NotRunning]
        /\ UNCHANGED <<gpio, told>>
    BY DEF Exit
  <1>2. OnlyMoves(p) /\ run'[p].pc = "idle"
    BY <1>1, GoneOn, Idle DEF LinesInv, Running
  <1> QED BY <1>1, <1>2, Untouched DEF Touching

LEMMA ExportKeeps ==
  ASSUME LinesInv, NEW p \in Procs, Export(p)
  PROVE  LinesInv'
  <1> DEFINE port == run[p].todo[1].port
  <1>0. run[p].pc = "export" /\ told' = told /\ run[p] = Fields(run[p])
    BY DEF Export, LinesInv, Shaped, Fields
  <1>1. CASE port \notin Ports
    <2> DEFINE r == [run[p] EXCEPT !.todo = Tail(run[p].todo)]
    <2>1. run' = [run EXCEPT ![p] = r] /\ UNCHANGED <<gpio, told>>
      BY <1>1 DEF Export, LinesInv, Shaped
    <2>2. r = Fields(r) /\ r.alone = run[p].alone /\ r.pc = "export"
      BY <1>0, PassesOver
    <2> HIDE DEF r
    <2>3. OnlyMoves(p) /\ run'[p].pc = "export"
      BY <1>0, <2>1, <2>2, GoneOn DEF LinesInv, Running
    <2> QED BY <1>0, <2>1, <2>3, Untouched DEF Touching
  <1>2. CASE port \in Ports
    <2> DEFINE r == [run[p] EXCEPT !.pc = "first"]
               ls == {Pins(port)[1], Pins(port)[2]}
    <2>1. run' = [run EXCEPT ![p] = r] /\ gpio' = Exported(ls)
      BY <1>2 DEF Export, LinesInv, Shaped
    <2>2. r = Fields(r) /\ r.alone = run[p].alone /\ r.pc = "first" /\ r.todo = run[p].todo
      BY <1>0 DEF Fields
    <2> HIDE DEF r
    <2>3. OnlyMoves(p) /\ run'[p].pc = "first" /\ run'[p].todo = run[p].todo
          /\ run'[p].alone = run[p].alone /\ Running(p)
      BY <1>0, <2>1, <2>2, GoneOn DEF LinesInv, Running
    <2>4. gpio \in [Lines -> GpioStates] /\ told \in [Lines -> Marks]
      BY DEF LinesInv, Shaped, Marks
    <2>5. /\ gpio' \in [Lines -> GpioStates]
          /\ \A l \in Lines :
               /\ gpio'[l].level = gpio[l].level
               /\ gpio'[l].by = gpio[l].by
                  \/ (gpio[l].by = "none" /\ gpio'[l].by = "sysfs")
               /\ gpio'[l].fresh => gpio[l].fresh \/ l \in ls
               /\ l \in ls => gpio'[l].by # "none"
      BY <2>1, <2>4, ExportedLines
    <2>6. run'[p].todo[1].port = port
      BY <2>3
    <2>7. \A l : l \in ls => Wakes(p, l)'
      BY <2>3 DEF Wakes
    <2>8. \A l : ~ Wakes(p, l) /\ ~ Reads(p, l) /\ ~ Reads(p, l)'
      BY <1>0, <2>3 DEF Wakes, Reads
    <2>9. \A k \in 1 .. 2 : Pins(port)[k] \in Lines /\ Pins(port)[k] \in ls
      BY <1>2, PinsAreLines
    <2> HIDE DEF port, ls
    <2>10. Shaped' /\ KnowsItsLines'
      BY <1>0, <1>2, <2>3, <2>4, <2>5, <2>6, OwnKnowledge
    <2>11. LinesAccounted'
      <3>1. \A l \in Lines : told'[l] # Untold => Exists(l)'
        BY <1>0, <2>5 DEF LinesInv, LinesAccounted, Exists
      <3>2. \A l \in Lines : gpio'[l].fresh => Wakes(p, l)' \/ gpio[l].fresh
        BY <2>5, <2>7
      <3> QED BY <2>3, <2>5, <2>8, <3>1, <3>2, OwnMove
    <2>12. run'[p].alone => HasItsLines(p)'
      <3>1. ASSUME run'[p].alone, NEW k \in 1 .. 2
            PROVE  gpio'[Pins(port)[k]].by = "sysfs"
        <4>1. \A q \in Procs : Running(q) => q = p
          BY <2>3, <3>1 DEF LinesInv, AloneHasLines
        <4>2. \A q \in Procs : \A l : ~ Reads(q, l)
          BY <2>8, <4>1 DEF Reads, Running
        <4>3. gpio[Pins(port)[k]].by # "gpiod"
          BY <2>9, <4>2 DEF LinesInv, LinesAccounted
        <4> QED BY <2>4, <2>5, <2>9, <4>3 DEF GpioStates
      <3> QED BY <2>3, <2>6, <3>1 DEF HasItsLines, Exists
    <2>13. AloneHasLines'
      BY <2>3, <2>12, OwnSolitude
    <2>14. PinsAsTold'
      BY <1>0, <2>5 DEF LinesInv, PinsAsTold
    <2> QED BY <2>10, <2>11, <2>13, <2>14 DEF LinesInv
  <1> QED BY <1>1, <1>2

\* What uartmode, which has slept, writes to a line.
LEMMA SleptAndDriven ==
  ASSUME LinesInv, NEW p \in Procs, NEW line \in Lines, NEW level \in Levels,
         run[p].alone => Exists(line),
         NEW got \in Directed(line, level, TRUE),
         gpio' = [gpio EXCEPT ![line].level = got, ![line].fresh = FALSE],
         Tell(p, line, "uartmode", level)
  PROVE  /\ gpio' \in [Lines -> GpioStates] /\ told' \in [Lines -> Marks]
         /\ PinsAsTold'
         /\ \A m \in Lines : gpio'[m].by = gpio[m].by
         /\ \A m \in Lines : m # line => gpio'[m] = gpio[m] /\ told'[m] = told[m]
         /\ ~ gpio'[line].fresh
         /\ told'[line] # Untold => run[p].alone
  <1> DEFINE slept == TRUE
             fresh == FALSE
             tool == "uartmode"
  <1>1. /\ slept \in BOOLEAN /\ fresh \in BOOLEAN /\ slept /\ ~ fresh
        /\ got \in Directed(line, level, slept)
        /\ gpio' = [gpio EXCEPT ![line].level = got, ![line].fresh = fresh]
        /\ tool \in Tools /\ Tell(p, line, tool, level)
        /\ gpio \in [Lines -> GpioStates] /\ told \in [Lines -> Marks] /\ PinsAsTold
    BY DEF Tools, LinesInv, Shaped, Marks
  <1> HIDE DEF slept, fresh, tool
  <1> QED BY <1>1, Driven

PinOf(p, k) == Pins(run[p].todo[1].port)[k]

\* setUartMode's write to a mode pin, or its passing the pin over.
LEMMA DriveLine ==
  ASSUME LinesInv, NEW p \in Procs, NEW k \in 1 .. 2, run[p].pc \in {"first", "second"},
         Drive(p, k)
  PROVE  /\ PinOf(p, k) \in Lines
         /\ gpio' \in [Lines -> GpioStates] /\ told' \in [Lines -> Marks]
         /\ PinsAsTold'
         /\ \A m \in Lines : gpio'[m].by = gpio[m].by
         /\ \A m \in Lines : m # PinOf(p, k) => gpio'[m] = gpio[m] /\ told'[m] = told[m]
         /\ ~ gpio'[PinOf(p, k)].fresh
         /\ told'[PinOf(p, k)] # Untold => Exists(PinOf(p, k))
  <1> DEFINE line == PinOf(p, k)
             mode == run[p].todo[1].mode
  <1>1. line \in Lines
    BY PinsAreLines DEF PinOf, LinesInv, KnowsItsLines
  <1>2. gpio \in [Lines -> GpioStates] /\ told \in [Lines -> Marks] /\ PinsAsTold
    BY DEF LinesInv, Shaped, Marks
  <1>3. run[p].alone => Exists(line)
    BY DEF LinesInv, AloneHasLines, HasItsLines, Running, PinOf
  <1>4. CASE mode \in Modes
    <2> DEFINE level == portMode[mode + 1][k]
    <2>1. level \in Levels
      BY <1>4, ModesAreLevels
    <2>2. PICK got \in Directed(line, level, TRUE) :
            gpio' = [gpio EXCEPT ![line].level = got, ![line].fresh = FALSE]
      BY <1>4 DEF Drive, PinOf
    <2>3. Tell(p, line, "uartmode", level)
      BY <1>4 DEF Drive, PinOf
    <2> HIDE DEF level
    <2>4. /\ gpio' \in [Lines -> GpioStates] /\ told' \in [Lines -> Marks]
          /\ PinsAsTold'
          /\ \A m \in Lines : gpio'[m].by = gpio[m].by
          /\ \A m \in Lines : m # line => gpio'[m] = gpio[m] /\ told'[m] = told[m]
          /\ ~ gpio'[line].fresh
          /\ told'[line] # Untold => run[p].alone
      BY <1>1, <1>3, <2>1, <2>2, <2>3, SleptAndDriven
    <2> QED BY <1>1, <1>3, <2>4
  <1>5. CASE mode \notin Modes
    <2>1. gpio' = [gpio EXCEPT ![line].fresh = FALSE] /\ told' = told
      BY <1>5 DEF Drive, PinOf
    <2>2. gpio'[line] = [gpio[line] EXCEPT !.fresh = FALSE]
      BY <1>1, <1>2, <2>1
    <2>3. /\ gpio'[line] \in GpioStates /\ ~ gpio'[line].fresh
          /\ gpio'[line].by = gpio[line].by /\ gpio'[line].level = gpio[line].level
      <3>1. gpio[line] \in GpioStates
        BY <1>1, <1>2
      <3> DEFINE fresh == FALSE
      <3>2. fresh \in BOOLEAN /\ gpio'[line] = [gpio[line] EXCEPT !.fresh = fresh]
        BY <2>2
      <3>3. ~ fresh
        OBVIOUS
      <3> HIDE DEF fresh
      <3> QED BY <3>1, <3>2, <3>3 DEF GpioStates
    <2>4. \A m \in Lines : m # line => gpio'[m] = gpio[m]
      BY <1>2, <2>1
    <2>5. gpio' \in [Lines -> GpioStates]
      BY <1>2, <2>1, <2>3, <2>4
    <2>6. told[line] # Untold => Exists(line)
      BY <1>1 DEF LinesInv, LinesAccounted
    <2>7. PinsAsTold'
      BY <1>2, <2>1, <2>3, <2>4 DEF PinsAsTold
    <2> QED BY <1>1, <1>2, <2>1, <2>3, <2>4, <2>5, <2>6, <2>7
  <1> QED BY <1>4, <1>5

LEMMA DriveFirstKeeps ==
  ASSUME LinesInv, NEW p \in Procs, DriveFirst(p)
  PROVE  LinesInv'
  <1> DEFINE port == run[p].todo[1].port
             line == Pins(port)[1]
             r == [run[p] EXCEPT !.pc = "second"]
  <1>1. /\ run[p].pc = "first" /\ Drive(p, 1) /\ run' = [run EXCEPT ![p] = r]
        /\ port \in Ports /\ run[p] = Fields(run[p])
    BY DEF DriveFirst, LinesInv, Shaped, Fields, KnowsItsLines
  <1>2. r = Fields(r) /\ r.alone = run[p].alone /\ r.pc = "second" /\ r.todo = run[p].todo
    BY <1>1 DEF Fields
  <1> HIDE DEF r
  <1>3. OnlyMoves(p) /\ run'[p].pc = "second" /\ run'[p].todo = run[p].todo
        /\ run'[p].alone = run[p].alone /\ Running(p)
    BY <1>1, <1>2, GoneOn DEF LinesInv, Running
  <1>4. run'[p].todo[1].port = port
    BY <1>3
  <1>5. \A m : Wakes(p, m) /\ m # line => Wakes(p, m)'
    BY <1>1, <1>3 DEF Wakes
  <1>6. \A k \in 1 .. 2 : Pins(port)[k] \in Lines
    BY <1>1, PinsAreLines
  <1>7. /\ line \in Lines
        /\ gpio' \in [Lines -> GpioStates] /\ told' \in [Lines -> Marks]
        /\ PinsAsTold'
        /\ \A m \in Lines : gpio'[m].by = gpio[m].by
        /\ \A m \in Lines : m # line => gpio'[m] = gpio[m] /\ told'[m] = told[m]
        /\ ~ gpio'[line].fresh
        /\ told'[line] # Untold => Exists(line)
    <2>1. line = PinOf(p, 1)
      BY DEF PinOf
    <2>2. /\ PinOf(p, 1) \in Lines
          /\ gpio' \in [Lines -> GpioStates] /\ told' \in [Lines -> Marks]
          /\ PinsAsTold'
          /\ \A m \in Lines : gpio'[m].by = gpio[m].by
          /\ \A m \in Lines : m # PinOf(p, 1) => gpio'[m] = gpio[m] /\ told'[m] = told[m]
          /\ ~ gpio'[PinOf(p, 1)].fresh
          /\ told'[PinOf(p, 1)] # Untold => Exists(PinOf(p, 1))
      BY <1>1, DriveLine
    <2> HIDE DEF line
    <2> QED BY <2>1, <2>2
  <1>8. run'[p].alone => HasItsLines(p)'
    <2>1. run[p].alone => \A k \in 1 .. 2 : Exists(Pins(port)[k])
      BY <1>1, <1>3 DEF LinesInv, AloneHasLines, HasItsLines
    <2>2. run'[p].alone => \A k \in 1 .. 2 : gpio'[Pins(port)[k]].by = "sysfs"
      BY <1>3, <1>6, <1>7, <2>1 DEF Exists
    <2> QED BY <1>3, <1>4, <2>2 DEF HasItsLines, Exists
  <1> HIDE DEF port, line
  <1>9. Shaped' /\ KnowsItsLines'
    BY <1>1, <1>3, <1>4, <1>7, OwnKnowledge
  <1>10. LinesAccounted'
    <2>1. \A m \in Lines : gpio'[m].fresh =>
            Wakes(p, m)' \/ (gpio[m].fresh /\ ~ Wakes(p, m))
      BY <1>5, <1>7
    <2> QED BY <1>1, <1>3, <1>7, <2>1, AfterDrive
  <1>11. AloneHasLines'
    BY <1>3, <1>8, OwnSolitude
  <1> QED BY <1>7, <1>9, <1>10, <1>11 DEF LinesInv

LEMMA DriveSecondKeeps ==
  ASSUME LinesInv, NEW p \in Procs, DriveSecond(p)
  PROVE  LinesInv'
  <1> DEFINE line == Pins(run[p].todo[1].port)[2]
             r == [run[p] EXCEPT !.pc = "export", !.todo = Tail(run[p].todo)]
  <1>1. /\ run[p].pc = "second" /\ Drive(p, 2) /\ run' = [run EXCEPT ![p] = r]
        /\ run[p] = Fields(run[p])
    BY DEF DriveSecond, LinesInv, Shaped, Fields
  <1>2. r = Fields(r) /\ r.alone = run[p].alone /\ r.pc = "export"
    <2> DEFINE s == run[p]
               pc == "export"
               todo == Tail(run[p].todo)
    <2>1. r = [s EXCEPT !.pc = pc, !.todo = todo] /\ s = Fields(s)
      BY <1>1
    <2> HIDE DEF r, s, pc, todo
    <2>2. r = Fields(r) /\ r.alone = s.alone /\ r.pc = pc
      BY <2>1 DEF Fields
    <2> QED BY <2>2 DEF s, pc
  <1> HIDE DEF r
  <1>3. OnlyMoves(p) /\ run'[p].pc = "export" /\ Running(p)
    BY <1>1, <1>2, GoneOn DEF LinesInv, Running
  <1>4. \A m : Wakes(p, m) => m = line
    BY <1>1 DEF Wakes
  <1>5. /\ line \in Lines
        /\ gpio' \in [Lines -> GpioStates] /\ told' \in [Lines -> Marks]
        /\ PinsAsTold'
        /\ \A m \in Lines : gpio'[m].by = gpio[m].by
        /\ \A m \in Lines : m # line => gpio'[m] = gpio[m] /\ told'[m] = told[m]
        /\ ~ gpio'[line].fresh
        /\ told'[line] # Untold => Exists(line)
    <2>1. line = PinOf(p, 2)
      BY DEF PinOf
    <2>2. /\ PinOf(p, 2) \in Lines
          /\ gpio' \in [Lines -> GpioStates] /\ told' \in [Lines -> Marks]
          /\ PinsAsTold'
          /\ \A m \in Lines : gpio'[m].by = gpio[m].by
          /\ \A m \in Lines : m # PinOf(p, 2) => gpio'[m] = gpio[m] /\ told'[m] = told[m]
          /\ ~ gpio'[PinOf(p, 2)].fresh
          /\ told'[PinOf(p, 2)] # Untold => Exists(PinOf(p, 2))
      BY <1>1, DriveLine
    <2> HIDE DEF line
    <2> QED BY <2>1, <2>2
  <1> HIDE DEF line
  <1>6. Shaped' /\ KnowsItsLines'
    BY <1>3, <1>5, OwnKnowledge
  <1>7. LinesAccounted'
    <2>1. \A m \in Lines : gpio'[m].fresh => gpio[m].fresh /\ ~ Wakes(p, m)
      BY <1>4, <1>5
    <2> QED BY <1>1, <1>3, <1>5, <2>1, AfterDrive
  <1>8. AloneHasLines'
    BY <1>3, OwnSolitude DEF HasItsLines
  <1> QED BY <1>5, <1>6, <1>7, <1>8 DEF LinesInv

-----------------------------------------------------------------------------
LEMMA InitInv == Init => LinesInv
  <1> SUFFICES ASSUME Init PROVE LinesInv
    OBVIOUS
  <1>1. /\ gpio = [l \in Lines |-> [by |-> "none", fresh |-> FALSE, level |-> "in"]]
        /\ run = [p \in Procs |-> NotRunning] /\ told = [l \in Lines |-> Untold]
    BY DEF Init, GpioInit
  <1>2. \A p \in Procs : run[p].pc = "idle" /\ run[p].alone = FALSE
    BY <1>1, Idle
  <1>3. Shaped
    BY <1>1 DEF Shaped, GpioStates, Levels, Tools, Untold, NotRunning
  <1>4. KnowsItsLines /\ AloneHasLines
    BY <1>2 DEF KnowsItsLines, AloneHasLines
  <1>5. LinesAccounted
    BY <1>1, <1>2 DEF LinesAccounted, Reads
  <1>6. PinsAsTold
    BY <1>1 DEF PinsAsTold
  <1> QED BY <1>3, <1>4, <1>5, <1>6 DEF LinesInv

\* A power cut leaves lines and programs as they were at first.
LEMMA PowerCutKeeps == PowerLost => LinesInv'
  <1> SUFFICES ASSUME PowerLost PROVE LinesInv'
    OBVIOUS
  <1>1. /\ gpio' = [l \in Lines |-> [by |-> "none", fresh |-> FALSE, level |-> "in"]]
        /\ run' = [p \in Procs |-> NotRunning] /\ told' = [l \in Lines |-> Untold]
    BY DEF PowerLost
  <1>2. \A p \in Procs : run'[p].pc = "idle" /\ run'[p].alone = FALSE
    BY <1>1, Idle
  <1>3. Shaped'
    BY <1>1 DEF Shaped, GpioStates, Levels, Tools, Untold, NotRunning
  <1>4. KnowsItsLines' /\ AloneHasLines'
    BY <1>2 DEF KnowsItsLines, AloneHasLines
  <1>5. LinesAccounted'
    BY <1>1, <1>2 DEF LinesAccounted, Reads
  <1>6. PinsAsTold'
    BY <1>1 DEF PinsAsTold
  <1> QED BY <1>3, <1>4, <1>5, <1>6 DEF LinesInv

LEMMA NothingMoves ==
  ASSUME LinesInv, UNCHANGED gpioVars
  PROVE  LinesInv'
  <1>1. UNCHANGED <<gpio, run, told>>
    BY DEF gpioVars
  <1>2. Shaped' /\ KnowsItsLines'
    BY <1>1 DEF LinesInv, Shaped, KnowsItsLines
  <1>3. \A p \in Procs : HasItsLines(p) => HasItsLines(p)'
    BY <1>1 DEF HasItsLines, Exists
  <1>4. AloneHasLines'
    BY <1>1, <1>3 DEF LinesInv, AloneHasLines, Running
  <1>5. \A p \in Procs :
          \A l : (Wakes(p, l)' <=> Wakes(p, l)) /\ (Reads(p, l)' <=> Reads(p, l))
    BY <1>1 DEF Wakes, Reads
  <1>6. LinesAccounted'
    BY <1>1, <1>5 DEF LinesInv, LinesAccounted, Exists
  <1>7. PinsAsTold'
    BY <1>1 DEF LinesInv, PinsAsTold
  <1> QED BY <1>2, <1>4, <1>6, <1>7 DEF LinesInv

LEMMA NextInv == LinesInv /\ [Next]_vars => LinesInv'
  <1> SUFFICES ASSUME LinesInv, [Next]_vars PROVE LinesInv'
    OBVIOUS
  <1>1. ASSUME NEW p \in Procs, Command(p)
        PROVE  LinesInv'
    BY <1>1, UartmodeKeeps, SetdoKeeps, GetdiKeeps DEF Command, Uartmode
  <1>2. ASSUME NEW p \in Procs, Work(p)
        PROVE  LinesInv'
    BY <1>2, SedReadKeeps, SedRenameKeeps, SedFailsKeeps, ExportKeeps, DriveFirstKeeps,
       DriveSecondKeeps, ExitKeeps, SetdoWriteKeeps, GetdiReleaseKeeps
       DEF Work, UartStep
  <1>3. ASSUME NEW p \in Procs, Service(p)
        PROVE  LinesInv'
    BY <1>3, UartmodeKeeps DEF Service, BootService
  <1>4. CASE Flush
    BY <1>4, NothingMoves DEF Flush, gpioVars
  <1>5. CASE PowerCut
    BY <1>5, PowerCutKeeps DEF PowerCut
  <1>6. CASE UNCHANGED vars
    BY <1>6, NothingMoves DEF vars, gpioVars
  <1> QED BY <1>1, <1>2, <1>3, <1>4, <1>5, <1>6 DEF Next

\* The inductive invariant: a line is fresh while its exporter sleeps and the
\* kernel's while one getdi reads it, and a program that runs alone has the
\* lines it is about to drive.
THEOREM LinesInvariant == Spec => []LinesInv
  BY InitInv, NextInv, PTL DEF Spec

\* A line that setdo or uartmode drove with nothing running beside it keeps its
\* level, whichever of the three tools runs after it, and in what number.
THEOREM LevelsKept == Spec => []PinsAsTold
  <1>1. LinesInv => PinsAsTold
    BY DEF LinesInv
  <1> QED BY LinesInvariant, <1>1, PTL

-----------------------------------------------------------------------------
(***************************************************************************)
(* The texts of uartmode.toml and the command lines of uartmode.           *)
(***************************************************************************)

LEMMA PortKeys ==
  /\ \A i \in 0 .. 5 : PortKey[i + 1] \in Words /\ PortKey[i + 1] # "portnums"
  /\ \A i, j \in 0 .. 5 : PortKey[i + 1] = PortKey[j + 1] => i = j
  <1>1. \A i \in 0 .. 5 : PortKey[i + 1] \in Words
    BY FilesAssumption DEF MAX_PORTS
  <1>2. \A i \in 0 .. 5 : PortKey[i + 1] # "portnums"
    BY DEF PortKey
  <1>3. \A i, j \in 0 .. 5 : PortKey[i + 1] = PortKey[j + 1] => i = j
    BY DEF PortKey
  <1> QED BY <1>1, <1>2, <1>3

LEMMA IntegerRead ==
  ASSUME NEW s \in ParseStates, NEW sec, NEW key, HasInteger(s, sec, key)
  PROVE  GetInteger(s, sec, key) \in Int
  <1>1. PICK D \in SUBSET Names : s.keys \in [D -> Tokens]
    BY DEF ParseStates, KeyMaps
  <1>2. s.keys[<<sec, key>>] \in Tokens
    BY <1>1 DEF HasInteger
  <1> QED BY <1>2, TokenTyped DEF GetInteger

Confs == [how : {"run", "hang", "abort"}, portnums : Int, mode : [0 .. 5 -> Int]]

LEMMA ConfTyped ==
  ASSUME NEW text \in Texts
  PROVE  /\ loadconf(text) \in Confs
         /\ loadconf(text).how # "run" => loadconf(text).portnums = 0
  <1> DEFINE t == Parse(text)
             n == GetInteger(t, <<"UART">>, "portnums")
             read == {i \in 0 .. MAX_PORTS - 1 : i < n}
             whole == /\ HasTable(t, <<"UART">>) /\ HasInteger(t, <<"UART">>, "portnums")
                      /\ HasTable(t, <<"MODE">>)
                      /\ \A i \in read : HasInteger(t, <<"MODE">>, PortKey[i + 1])
             got == [i \in 0 .. MAX_PORTS - 1 |->
                      IF i \in read THEN GetInteger(t, <<"MODE">>, PortKey[i + 1]) ELSE 0]
  <1>1. t \in ParseStates
    BY TextTyped
  <1>2. 0 .. MAX_PORTS - 1 = 0 .. 5
    BY DEF MAX_PORTS
  <1>3. NoConf \in Confs /\ NoConf.portnums = 0 /\ NoConf.how = "run"
    BY <1>2 DEF NoConf, Confs
  <1>4. whole => n \in Int
    BY <1>1, IntegerRead
  <1>5. whole => got \in [0 .. 5 -> Int]
    BY <1>1, <1>2, IntegerRead
  <1>6. loadconf(text) =
          CASE t.at = "null" -> NoConf
            [] t.at = "hang" -> [NoConf EXCEPT !.how = "hang"]
            [] t.at = "abort" \/ (t.at \in {"parse", "keys"} /\ ~ whole) ->
                 [NoConf EXCEPT !.how = "abort"]
            [] OTHER -> [how |-> "run", portnums |-> n, mode |-> got]
    BY DEF loadconf, Taken
  <1> HIDE DEF t, n, whole, got
  <1>7. t.at \in {"parse", "keys", "null", "hang", "abort"}
    BY TextTyped DEF t
  <1>8. \/ loadconf(text) \in
              {NoConf, [NoConf EXCEPT !.how = "hang"], [NoConf EXCEPT !.how = "abort"]}
        \/ whole /\ loadconf(text) = [how |-> "run", portnums |-> n, mode |-> got]
    BY <1>6, <1>7
  <1>9. ASSUME NEW how \in {"run", "hang", "abort"}
        PROVE  [NoConf EXCEPT !.how = how] \in Confs /\ [NoConf EXCEPT !.how = how].portnums = 0
    BY <1>3 DEF Confs
  <1>10. CASE whole /\ loadconf(text) = [how |-> "run", portnums |-> n, mode |-> got]
    <2>1. loadconf(text) \in Confs
      BY <1>4, <1>5, <1>10 DEF Confs
    <2>2. loadconf(text).how = "run"
      BY <1>10
    <2> QED BY <2>1, <2>2
  <1>11. CASE loadconf(text) \in
              {NoConf, [NoConf EXCEPT !.how = "hang"], [NoConf EXCEPT !.how = "abort"]}
    BY <1>3, <1>9, <1>11
  <1> QED BY <1>8, <1>10, <1>11

Opts == [opt : {"i", "h", "p?", "m?", "p", "m"}, num : Int]

Asks == [do : {"help", "init", "get", "set"}, port : Int, mode : Int]

NoOption == [do |-> "help", port |-> Default, mode |-> Default]

LEMMA ScansRun ==
  ASSUME NEW argv, Len(argv) \in Nat
  PROVE  /\ Scans(argv)[0] = NoOption
         /\ \A n \in 1 .. Len(argv) : Scans(argv)[n] = Scan(Scans(argv)[n - 1], argv[n])
  <1> DEFINE Then(f, n) == IF n = 0 THEN NoOption ELSE Scan(f[n - 1], argv[n])
             Has(m) == \E f : f = [n \in 0 .. m |-> Then(f, n)]
             Runs == {m \in Nat : Has(m)}
  <1>1. 0 \in Runs
    <2>1. [n \in 0 .. 0 |-> NoOption] = [n \in 0 .. 0 |-> Then([j \in 0 .. 0 |-> NoOption], n)]
      OBVIOUS
    <2> QED BY <2>1
  <1>2. ASSUME NEW m \in Runs PROVE m + 1 \in Runs
    <2>1. PICK f : f = [n \in 0 .. m |-> Then(f, n)]
      OBVIOUS
    <2> DEFINE g == [n \in 0 .. m + 1 |-> Then(f, n)]
    <2>2. \A n \in 0 .. m : g[n] = f[n]
      BY <2>1
    <2>3. \A n \in 0 .. m + 1 : n # 0 => g[n - 1] = f[n - 1]
      <3> HIDE DEF g
      <3> QED BY <2>2
    <2>4. \A n \in 0 .. m + 1 : Then(g, n) = Then(f, n)
      <3> HIDE DEF g
      <3> QED BY <2>3
    <2>5. g = [n \in 0 .. m + 1 |-> Then(g, n)]
      <3> HIDE DEF Then
      <3> QED BY <2>4
    <2>6. Has(m + 1)
      <3> HIDE DEF g, Then
      <3> QED BY <2>5
    <2> HIDE DEF Has
    <2> QED BY <2>6
  <1>3. Len(argv) \in Runs
    <2> HIDE DEF Has
    <2>1. Runs \in SUBSET Nat
      OBVIOUS
    <2>2. \A m \in Runs : m < Len(argv) => m + 1 \in Runs
      BY <1>2
    <2> HIDE DEF Runs
    <2>3. \A m \in 0 .. Len(argv) : m \in Runs
      BY <1>1, <2>1, <2>2, UpTo
    <2> QED BY <2>3
  <1>4. Scans(argv) = [n \in 0 .. Len(argv) |-> Then(Scans(argv), n)]
    BY <1>3 DEF Scans, NoOption
  <1> QED BY <1>4

LEMMA ScanTyped ==
  ASSUME NEW o \in Asks, NEW a \in Opts
  PROVE  Scan(o, a) \in Asks
  <1>1. a.opt \in {"i", "h", "p?", "m?", "p", "m"} /\ a.num \in Int
    BY DEF Opts
  <1>2. Default \in Int
    BY DEF Default
  <1>3. \A do \in {"help", "init", "get", "set"}, n \in Int :
          /\ [o EXCEPT !.do = do] \in Asks /\ [o EXCEPT !.port = n] \in Asks
          /\ [o EXCEPT !.mode = n] \in Asks /\ [o EXCEPT !.port = n, !.do = do] \in Asks
          /\ [o EXCEPT !.mode = n, !.do = do] \in Asks
    BY DEF Asks
  <1>4. \/ Scan(o, a) = [o EXCEPT !.do = "init"]
        \/ Scan(o, a) = [o EXCEPT !.do = "help"]
        \/ Scan(o, a) = [o EXCEPT !.port = Default]
        \/ Scan(o, a) = [o EXCEPT !.mode = Default]
        \/ Scan(o, a) = [o EXCEPT !.port = a.num, !.do = "set"]
        \/ Scan(o, a) = [o EXCEPT !.port = a.num, !.do = "get"]
        \/ Scan(o, a) = [o EXCEPT !.mode = a.num, !.do = "set"]
    <2> HIDE DEF Asks
    <2> QED BY <1>1 DEF Scan
  <1> QED BY <1>1, <1>2, <1>3, <1>4

LEMMA ScansTyped ==
  ASSUME NEW argv \in Seq(Opts)
  PROVE  Scans(argv)[Len(argv)] \in Asks
  <1> DEFINE Well == {n \in Nat : n <= Len(argv) => Scans(argv)[n] \in Asks}
  <1>1. 0 \in Well
    <2>1. NoOption \in Asks
      BY DEF NoOption, Asks, Default
    <2> QED BY <2>1, ScansRun
  <1>2. ASSUME NEW n \in Well, n < Len(argv) PROVE n + 1 \in Well
    <2>1. n + 1 \in 1 .. Len(argv) /\ argv[n + 1] \in Opts
      BY <1>2
    <2>2. Scans(argv)[n + 1] = Scan(Scans(argv)[n], argv[n + 1])
      BY <2>1, ScansRun
    <2> QED BY <1>2, <2>1, <2>2, ScanTyped
  <1>3. Well \in SUBSET Nat
    OBVIOUS
  <1>4. \A n \in 0 .. Len(argv) : n \in Well
    <2> HIDE DEF Well
    <2> QED BY <1>1, <1>2, <1>3, UpTo
  <1> QED BY <1>4

\* What is asked for is known, and a set is of a port the file has.
LEMMA OptionsTyped ==
  ASSUME NEW argv \in Seq(Opts), NEW conf, NEW root
  PROVE  /\ Options(argv, conf, root) \in Asks
         /\ Options(argv, conf, root).do = "set" =>
              /\ Options(argv, conf, root).port <= conf.portnums - 1
              /\ Options(argv, conf, root).port < MAX_PORTS
  <1> DEFINE o == Scans(argv)[Len(argv)]
             portOk == o.port <= conf.portnums - 1 /\ o.port < MAX_PORTS
             setOk == /\ o.port # Default /\ o.mode # Default
                      /\ portOk /\ o.mode <= 2 /\ root
  <1>1. o \in Asks
    BY ScansTyped
  <1>2. Options(argv, conf, root) =
          IF (o.do = "set" /\ ~ setOk) \/ (o.do = "get" /\ ~ portOk)
            THEN [o EXCEPT !.do = "help"] ELSE o
    BY DEF Options
  <1>3. setOk => portOk
    OBVIOUS
  <1>4. portOk => o.port <= conf.portnums - 1 /\ o.port < MAX_PORTS
    OBVIOUS
  <1> HIDE DEF o, portOk, setOk
  <1>5. [o EXCEPT !.do = "help"] \in Asks /\ [o EXCEPT !.do = "help"].do = "help"
    BY <1>1 DEF Asks
  <1> QED BY <1>1, <1>2, <1>3, <1>4, <1>5

LEMMA ServiceOptions ==
  ASSUME NEW conf
  PROVE  Options(<<[opt |-> "i", num |-> 0]>>, conf, TRUE).do = "init"
  <1> DEFINE a == [opt |-> "i", num |-> 0]
             argv == <<a>>
             o == Scans(argv)[Len(argv)]
  <1>1. Len(argv) = 1 /\ argv[1] = a
    OBVIOUS
  <1>2. Scans(argv)[0] = NoOption /\ Scans(argv)[1] = Scan(Scans(argv)[1 - 1], argv[1])
    <2>1. Len(argv) \in Nat /\ 1 \in 1 .. Len(argv)
      BY <1>1
    <2> HIDE DEF argv
    <2> QED BY <2>1, ScansRun
  <1>3. o = Scan(NoOption, a)
    <2>1. 1 - 1 = 0
      OBVIOUS
    <2> HIDE DEF argv, a
    <2> QED BY <1>1, <1>2, <2>1
  <1>4. Scan(NoOption, a) = [NoOption EXCEPT !.do = "init"]
    BY DEF Scan
  <1>5. o.do = "init"
    <2> HIDE DEF o
    <2> QED BY <1>3, <1>4 DEF NoOption
  <1> HIDE DEF o
  <1>6. Options(argv, conf, TRUE) = o
    <2> HIDE DEF argv
    <2> QED BY <1>5 DEF Options, o
  <1> QED BY <1>5, <1>6

-----------------------------------------------------------------------------
(***************************************************************************)
(* sed.                                                                    *)
(***************************************************************************)

\* What sed makes of a line that has the key of the port.
LEMMA SedHit ==
  ASSUME NEW line \in Seq(Tokens), NEW port \in 0 .. 5, NEW mode,
         \E i \in DOMAIN line : line[i] = Word(PortKey[port + 1])
  PROVE  \E first \in DOMAIN line :
           /\ line[first] = Word(PortKey[port + 1])
           /\ \A i \in DOMAIN line : line[i] = Word(PortKey[port + 1]) => first <= i
           /\ SedLine(line, port, mode) =
                SubSeq(line, 1, first - 1)
                  \o <<Word(PortKey[port + 1]), Sym("="), Num(mode)>>
  <1> DEFINE at == {i \in DOMAIN line :
                     port \in 0 .. MAX_PORTS - 1 /\ line[i] = Word(PortKey[port + 1])}
             first == CHOOSE i \in at : \A j \in at : i <= j
  <1>1. port \in 0 .. MAX_PORTS - 1
    BY DEF MAX_PORTS
  <1>2. at \in SUBSET Nat /\ at # {}
    BY <1>1
  <1>3. \E i \in at : \A j \in at : i <= j
    <2> HIDE DEF at
    <2> QED BY <1>2, LeastOf
  <1>4. first \in at /\ \A j \in at : first <= j
    <2> HIDE DEF at
    <2> QED BY <1>3
  <1>5. SedLine(line, port, mode) =
          SubSeq(line, 1, first - 1)
            \o <<Word(PortKey[port + 1]), Sym("="), Num(mode)>>
    BY <1>2 DEF SedLine
  <1> HIDE DEF first
  <1> QED BY <1>1, <1>4, <1>5

LEMMA SedMiss ==
  ASSUME NEW line, NEW port, NEW mode,
         port \in 0 .. 5 => \A i \in DOMAIN line : line[i] # Word(PortKey[port + 1])
  PROVE  SedLine(line, port, mode) = line
  BY DEF SedLine, MAX_PORTS

LEMMA SedLineTyped ==
  ASSUME NEW line \in Seq(Tokens), NEW port, NEW mode \in Int
  PROVE  SedLine(line, port, mode) \in Seq(Tokens)
  <1>1. CASE port \in 0 .. 5 /\ \E i \in DOMAIN line : line[i] = Word(PortKey[port + 1])
    <2>1. PICK first \in DOMAIN line :
            SedLine(line, port, mode) =
              SubSeq(line, 1, first - 1)
                \o <<Word(PortKey[port + 1]), Sym("="), Num(mode)>>
      BY <1>1, SedHit
    <2>2. Word(PortKey[port + 1]) \in Tokens
      BY <1>1, PortKeys DEF Word, Tok, Tokens
    <2>3. Sym("=") \in Tokens /\ Num(mode) \in Tokens
      BY DEF Sym, Num, Tok, Tokens, Symbols
    <2>4. <<Word(PortKey[port + 1]), Sym("="), Num(mode)>> \in Seq(Tokens)
      BY <2>2, <2>3
    <2>5. SubSeq(line, 1, first - 1) \in Seq(Tokens)
      OBVIOUS
    <2> QED BY <2>1, <2>4, <2>5
  <1>2. CASE ~ (port \in 0 .. 5 /\ \E i \in DOMAIN line : line[i] = Word(PortKey[port + 1]))
    BY <1>2, SedMiss
  <1> QED BY <1>1, <1>2

LEMMA SedTyped ==
  ASSUME NEW text \in Texts, NEW port, NEW mode \in Int
  PROVE  /\ Sed(text, port, mode) \in Texts
         /\ DOMAIN Sed(text, port, mode) = DOMAIN text
         /\ Len(Sed(text, port, mode)) = Len(text)
         /\ \A i \in DOMAIN text : Sed(text, port, mode)[i] = SedLine(text[i], port, mode)
  <1> DEFINE S == Seq(Tokens)
  <1>1. text \in Seq(S)
    BY DEF Texts
  <1>2. \A i \in DOMAIN text : SedLine(text[i], port, mode) \in S
    BY <1>1, SedLineTyped
  <1> HIDE DEF S
  <1>3. DOMAIN text = 1 .. Len(text) /\ Len(text) \in Nat
    BY <1>1
  <1>4. Sed(text, port, mode) \in Seq(S) /\ Len(Sed(text, port, mode)) = Len(text)
    BY <1>2, <1>3 DEF Sed
  <1> QED BY <1>3, <1>4 DEF Sed, S, Texts

-----------------------------------------------------------------------------
(***************************************************************************)
(* The moves of a program that runs.                                       *)
(***************************************************************************)

LEMMA PcEdited ==
  ASSUME NEW s, s = Fields(s), NEW pc
  PROVE  [s EXCEPT !.pc = pc]
           = [pc |-> pc, alone |-> s.alone, todo |-> s.todo, copy |-> s.copy]
  BY DEF Fields

LEMMA TodoEdited ==
  ASSUME NEW s, s = Fields(s), NEW todo
  PROVE  [s EXCEPT !.todo = todo]
           = [pc |-> s.pc, alone |-> s.alone, todo |-> todo, copy |-> s.copy]
  BY DEF Fields

LEMMA TodoAndPcEdited ==
  ASSUME NEW s, s = Fields(s), NEW pc, NEW todo,
         NEW r, r = [s EXCEPT !.pc = pc, !.todo = todo]
  PROVE  r = [pc |-> pc, alone |-> s.alone, todo |-> todo, copy |-> s.copy]
  <1>1. r = Fields(r) /\ r.pc = pc /\ r.alone = s.alone /\ r.todo = todo /\ r.copy = s.copy
    BY DEF Fields
  <1> QED BY <1>1 DEF Fields

LEMMA CopyAndPcEdited ==
  ASSUME NEW s, s = Fields(s), NEW pc, NEW copy,
         NEW r, r = [s EXCEPT !.pc = pc, !.copy = copy]
  PROVE  r = [pc |-> pc, alone |-> s.alone, todo |-> s.todo, copy |-> copy]
  <1>1. r = Fields(r) /\ r.pc = pc /\ r.alone = s.alone /\ r.todo = s.todo /\ r.copy = copy
    BY DEF Fields
  <1> QED BY <1>1 DEF Fields

\* p goes on to pc with todo and copy, and nobody else moves.
Goes(p, pc, todo, copy) ==
  /\ OnlyMoves(p)
  /\ run'[p] = [pc |-> pc, alone |-> run[p].alone, todo |-> todo, copy |-> copy]

LEMMA WhereTo ==
  ASSUME NEW p, NEW pc, NEW todo, NEW copy, Goes(p, pc, todo, copy)
  PROVE  /\ OnlyMoves(p) /\ run'[p].pc = pc /\ run'[p].todo = todo /\ run'[p].copy = copy
         /\ run'[p].alone = run[p].alone
  BY DEF Goes

LEMMA WentOn ==
  ASSUME LinesInv, NEW p \in Procs, Running(p), NEW pc, NEW todo, NEW copy, NEW r,
         run' = [run EXCEPT ![p] = r],
         r = [pc |-> pc, alone |-> run[p].alone, todo |-> todo, copy |-> copy]
  PROVE  Goes(p, pc, todo, copy)
  <1>1. r = Fields(r) /\ r.alone = run[p].alone
    BY DEF Fields
  <1> QED BY <1>1, GoneOn DEF LinesInv, Goes

LEMMA Ended ==
  ASSUME LinesInv, NEW p \in Procs, Running(p), run' = [run EXCEPT ![p] = NotRunning]
  PROVE  OnlyMoves(p) /\ run'[p] = NotRunning
  BY GoneOn DEF LinesInv

\* p goes on without a new file, and is not alone any longer.
GivesUp(p) ==
  /\ OnlyMoves(p)
  /\ run'[p] = [pc |-> "export", alone |-> FALSE, todo |-> run[p].todo, copy |-> <<>>]

LEMMA GaveUp ==
  ASSUME LinesInv, NEW p \in Procs, SedFails(p)
  PROVE  run[p].pc \in {"sed", "rename"} /\ GivesUp(p)
  <1> DEFINE s == run[p]
             r == [s EXCEPT !.pc = "export", !.alone = FALSE, !.copy = <<>>]
  <1>1. run' = [run EXCEPT ![p] = r] /\ s.pc \in {"sed", "rename"}
    BY DEF SedFails, LinesInv, Shaped
  <1>2. r = Fields(r) /\ r.alone = FALSE /\ r.pc = "export" /\ r.todo = s.todo /\ r.copy = <<>>
    <2>1. s = Fields(s)
      BY DEF LinesInv, Shaped, Fields
    <2>2. r = [s EXCEPT !.pc = "export", !.alone = FALSE, !.copy = <<>>]
      OBVIOUS
    <2> HIDE DEF r, s
    <2> QED BY <2>1, <2>2, FailureEdited
  <1> HIDE DEF r
  <1>3. OnlyMoves(p) /\ run'[p] = r
    BY <1>1, <1>2, GoneOn DEF LinesInv, Running
  <1> QED BY <1>1, <1>2, <1>3 DEF GivesUp, Fields

LEMMA UartMoves ==
  ASSUME LinesInv, NEW p \in Procs
  PROVE  /\ SedRead(p) => run[p].pc = "sed" /\ Goes(p, "rename", run[p].todo, file)
         /\ SedRename(p) => run[p].pc = "rename" /\ Goes(p, "export", run[p].todo, <<>>)
         /\ SedFails(p) => run[p].pc \in {"sed", "rename"} /\ GivesUp(p)
         /\ Export(p) => /\ run[p].pc = "export" /\ run[p].todo # <<>>
                         /\ run[p].todo[1].port \in Ports =>
                              Goes(p, "first", run[p].todo, run[p].copy)
                         /\ run[p].todo[1].port \notin Ports =>
                              Goes(p, "export", Tail(run[p].todo), run[p].copy)
         /\ DriveFirst(p) => run[p].pc = "first" /\ Goes(p, "second", run[p].todo, run[p].copy)
         /\ DriveSecond(p) =>
              run[p].pc = "second" /\ Goes(p, "export", Tail(run[p].todo), run[p].copy)
         /\ Exit(p) => run[p].pc = "export" /\ OnlyMoves(p) /\ run'[p] = NotRunning
  <1> DEFINE s == run[p]
  <1>0. s = Fields(s)
    BY DEF LinesInv, Shaped, Fields
  <1>1. run \in [Procs -> {run[q] : q \in Procs}]
    BY DEF LinesInv, Shaped
  <1>2. ASSUME SedRead(p)
        PROVE  s.pc = "sed" /\ Goes(p, "rename", s.todo, file)
    <2> DEFINE r == [s EXCEPT !.pc = "rename", !.copy = file]
    <2>1. run' = [run EXCEPT ![p] = r] /\ s.pc = "sed"
      BY <1>1, <1>2 DEF SedRead
    <2>2. r = [pc |-> "rename", alone |-> s.alone, todo |-> s.todo, copy |-> file]
      <3>1. r = [s EXCEPT !.pc = "rename", !.copy = file]
        OBVIOUS
      <3> HIDE DEF r, s
      <3> QED BY <1>0, <3>1, CopyAndPcEdited
    <2> HIDE DEF r
    <2> QED BY <2>1, <2>2, WentOn DEF Running
  <1>3. ASSUME SedRename(p)
        PROVE  s.pc = "rename" /\ Goes(p, "export", s.todo, <<>>)
    <2> DEFINE r == [s EXCEPT !.pc = "export", !.copy = <<>>]
    <2>1. run' = [run EXCEPT ![p] = r] /\ s.pc = "rename"
      BY <1>1, <1>3 DEF SedRename
    <2>2. r = [pc |-> "export", alone |-> s.alone, todo |-> s.todo, copy |-> <<>>]
      <3>1. r = [s EXCEPT !.pc = "export", !.copy = <<>>]
        OBVIOUS
      <3> HIDE DEF r, s
      <3> QED BY <1>0, <3>1, CopyAndPcEdited
    <2> HIDE DEF r
    <2> QED BY <2>1, <2>2, WentOn DEF Running
  <1>4. ASSUME Export(p)
        PROVE  /\ s.pc = "export" /\ s.todo # <<>>
               /\ s.todo[1].port \in Ports => Goes(p, "first", s.todo, s.copy)
               /\ s.todo[1].port \notin Ports => Goes(p, "export", Tail(s.todo), s.copy)
    <2>0. s.pc = "export" /\ s.todo # <<>>
      BY <1>4 DEF Export
    <2>1. CASE s.todo[1].port \in Ports
      <3> DEFINE r == [s EXCEPT !.pc = "first"]
      <3>1. run' = [run EXCEPT ![p] = r]
        BY <1>1, <1>4, <2>1 DEF Export
      <3>2. r = [pc |-> "first", alone |-> s.alone, todo |-> s.todo, copy |-> s.copy]
        BY <1>0, PcEdited, TodoEdited
      <3> HIDE DEF r
      <3> QED BY <2>0, <2>1, <3>1, <3>2, WentOn DEF Running
    <2>2. CASE s.todo[1].port \notin Ports
      <3> DEFINE r == [s EXCEPT !.todo = Tail(s.todo)]
      <3>1. run' = [run EXCEPT ![p] = r]
        BY <1>1, <1>4, <2>2 DEF Export
      <3>2. r = [pc |-> s.pc, alone |-> s.alone, todo |-> Tail(s.todo), copy |-> s.copy]
        BY <1>0, PcEdited, TodoEdited
      <3> HIDE DEF r
      <3> QED BY <2>0, <2>2, <3>1, <3>2, WentOn DEF Running
    <2> QED BY <2>0, <2>1, <2>2
  <1>5. ASSUME DriveFirst(p)
        PROVE  s.pc = "first" /\ Goes(p, "second", s.todo, s.copy)
    <2> DEFINE r == [s EXCEPT !.pc = "second"]
    <2>1. run' = [run EXCEPT ![p] = r] /\ s.pc = "first"
      BY <1>1, <1>5 DEF DriveFirst
    <2>2. r = [pc |-> "second", alone |-> s.alone, todo |-> s.todo, copy |-> s.copy]
      BY <1>0, PcEdited
    <2> HIDE DEF r
    <2> QED BY <2>1, <2>2, WentOn DEF Running
  <1>6. ASSUME DriveSecond(p)
        PROVE  s.pc = "second" /\ Goes(p, "export", Tail(s.todo), s.copy)
    <2> DEFINE r == [s EXCEPT !.pc = "export", !.todo = Tail(s.todo)]
    <2>1. run' = [run EXCEPT ![p] = r] /\ s.pc = "second"
      BY <1>1, <1>6 DEF DriveSecond
    <2>2. r = [pc |-> "export", alone |-> s.alone, todo |-> Tail(s.todo), copy |-> s.copy]
      <3>1. r = [s EXCEPT !.pc = "export", !.todo = Tail(s.todo)]
        OBVIOUS
      <3> HIDE DEF r, s
      <3> QED BY <1>0, <3>1, TodoAndPcEdited
    <2> HIDE DEF r
    <2> QED BY <2>1, <2>2, WentOn DEF Running
  <1>7. ASSUME Exit(p)
        PROVE  s.pc = "export" /\ OnlyMoves(p) /\ run'[p] = NotRunning
    BY <1>7, Ended DEF Exit, Running
  <1> QED BY <1>2, <1>3, <1>4, <1>5, <1>6, <1>7, GaveUp

-----------------------------------------------------------------------------
(***************************************************************************)
(* Types.                                                                  *)
(***************************************************************************)

Pcs == {"idle", "hung", "sed", "rename", "export", "first", "second", "write",
        "slept", "reading"}

PortModes == [port : Int, mode : Int]

\* A program has the work that its place asks for.
WorkTyped(r) ==
  /\ r.pc \in Pcs
  /\ r.todo \in TodoOf(r.pc)
  /\ r.pc \in {"sed", "rename", "first", "second", "write", "slept", "reading"} =>
       Len(r.todo) >= 1
  /\ r.pc = "rename" => r.copy \in Texts

LEMMA TodoTypes ==
  /\ \A pc \in {"sed", "rename", "export", "first", "second"} : TodoOf(pc) = Seq(PortModes)
  /\ \A pc \in {"write", "slept"} : TodoOf(pc) = Seq([line : Lines, level : Levels])
  /\ TodoOf("reading") = Seq(Lines)
  /\ \A pc \in {"idle", "hung"} : TodoOf(pc) = {<<>>}
  BY DEF TodoOf, PortModes

LEMMA IdleTyped == WorkTyped(NotRunning)
  BY TodoTypes DEF WorkTyped, NotRunning, Pcs

\* What main goes on to: nothing, the endless loop of the parser, the update of
\* a port the file has, or the ports of the file.
LEMMA Plans ==
  ASSUME FilesTyped, NEW argv \in Seq(Opts), NEW root
  PROVE  LET r == Plan(argv, root)
             conf == loadconf(file)
         IN \/ r = NotRunning
            \/ r = [pc |-> "hung", alone |-> FALSE, todo |-> <<>>, copy |-> <<>>]
            \/ \E port, mode \in Int :
                 /\ r = [pc |-> "sed", alone |-> FALSE, copy |-> <<>>,
                          todo |-> <<[port |-> port, mode |-> mode]>>]
                 /\ conf.how = "run" /\ port < conf.portnums /\ port < MAX_PORTS
            \/ /\ r = [pc |-> "export", alone |-> FALSE, copy |-> <<>>,
                        todo |-> [i \in 1 .. WithPins(conf.portnums) |->
                                    [port |-> i - 1, mode |-> conf.mode[i - 1]]]]
               /\ conf.how = "run"
  <1> DEFINE r == Plan(argv, root)
             conf == loadconf(file)
             o == Options(argv, conf, root)
             set == <<[port |-> o.port, mode |-> o.mode]>>
             init == [i \in 1 .. WithPins(conf.portnums) |->
                        [port |-> i - 1, mode |-> conf.mode[i - 1]]]
  <1>1. /\ o \in Asks
        /\ o.do = "set" => o.port <= conf.portnums - 1 /\ o.port < MAX_PORTS
    BY OptionsTyped
  <1>2. conf \in Confs
    BY ConfTyped DEF FilesTyped
  <1>3. \/ r = NotRunning
        \/ r = [NotRunning EXCEPT !.pc = "hung"]
        \/ conf.how = "run" /\ o.do = "set" /\ r = [NotRunning EXCEPT !.pc = "sed", !.todo = set]
        \/ conf.how = "run" /\ r = [NotRunning EXCEPT !.pc = "export", !.todo = init]
    BY DEF Plan
  <1> HIDE DEF r, o, init
  <1>4. CASE r = [NotRunning EXCEPT !.pc = "hung"]
    <2>1. r = [pc |-> "hung", alone |-> FALSE, todo |-> <<>>, copy |-> <<>>]
      BY <1>4 DEF NotRunning
    <2> QED BY <2>1 DEF r
  <1>5. CASE conf.how = "run" /\ o.do = "set" /\ r = [NotRunning EXCEPT !.pc = "sed", !.todo = set]
    <2>1. o.port \in Int /\ o.mode \in Int
      BY <1>1 DEF Asks
    <2>2. conf.portnums \in Int
      BY <1>2 DEF Confs
    <2>3. o.port < conf.portnums /\ o.port < MAX_PORTS
      BY <1>1, <1>5, <2>1, <2>2
    <2> HIDE DEF conf
    <2>4. r = [pc |-> "sed", alone |-> FALSE, copy |-> <<>>,
               todo |-> <<[port |-> o.port, mode |-> o.mode]>>]
      BY <1>5 DEF NotRunning
    <2> QED BY <1>5, <2>1, <2>3, <2>4 DEF r, conf
  <1>6. CASE conf.how = "run" /\ r = [NotRunning EXCEPT !.pc = "export", !.todo = init]
    <2>1. r = [pc |-> "export", alone |-> FALSE, copy |-> <<>>, todo |-> init]
      BY <1>6 DEF NotRunning
    <2> QED BY <1>6, <2>1 DEF r, init
  <1> QED BY <1>3, <1>4, <1>5, <1>6 DEF r

\* The ports of the file, as a list.
LEMMA PortsListed ==
  ASSUME NEW conf \in Confs
  PROVE  LET todo == [i \in 1 .. WithPins(conf.portnums) |->
                        [port |-> i - 1, mode |-> conf.mode[i - 1]]]
         IN /\ todo \in Seq(PortModes)
            /\ \A i \in DOMAIN todo : todo[i].port \in Ports
                                      /\ todo[i].mode = conf.mode[todo[i].port]
            /\ \A port \in Ports : port < conf.portnums =>
                 \E i \in DOMAIN todo : todo[i].port = port
  <1> DEFINE n == WithPins(conf.portnums)
             todo == [i \in 1 .. n |-> [port |-> i - 1, mode |-> conf.mode[i - 1]]]
  <1>1. conf.portnums \in Int /\ conf.mode \in [0 .. 5 -> Int]
    BY DEF Confs
  <1>2. /\ n \in Int /\ n <= 2
        /\ \A port \in Ports : port < conf.portnums => port + 1 <= n
    BY <1>1 DEF WithPins, Ports
  <1> HIDE DEF n
  <1>3. \A i \in 1 .. n : i - 1 \in Ports /\ i - 1 \in 0 .. 5
    BY <1>2 DEF Ports
  <1>4. \A i \in 1 .. n : [port |-> i - 1, mode |-> conf.mode[i - 1]] \in PortModes
    BY <1>1, <1>3 DEF PortModes, Ports
  <1>5. todo \in Seq(PortModes)
    <2>1. CASE n >= 0
      BY <1>2, <1>4, <2>1
    <2>2. CASE n < 0
      <3>1. 1 .. n = 1 .. 0
        BY <1>2, <2>2
      <3>2. todo \in [1 .. 0 -> PortModes]
        BY <1>4, <3>1
      <3> HIDE DEF todo
      <3> QED BY <3>2
    <2> QED BY <1>2, <2>1, <2>2
  <1>6. \A i \in DOMAIN todo : todo[i].port \in Ports /\ todo[i].mode = conf.mode[todo[i].port]
    BY <1>3
  <1>7. ASSUME NEW port \in Ports, port < conf.portnums
        PROVE  \E i \in DOMAIN todo : todo[i].port = port
    <2>1. port + 1 \in 1 .. n /\ (port + 1) - 1 = port
      BY <1>2, <1>7 DEF Ports
    <2> QED BY <2>1
  <1> QED BY <1>5, <1>6, <1>7 DEF n

LEMMA PlanTyped ==
  ASSUME FilesTyped, NEW argv \in Seq(Opts), NEW root
  PROVE  WorkTyped(Plan(argv, root))
  <1> DEFINE r == Plan(argv, root)
             conf == loadconf(file)
             init == [i \in 1 .. WithPins(conf.portnums) |->
                        [port |-> i - 1, mode |-> conf.mode[i - 1]]]
  <1>1. \/ r = NotRunning
        \/ r = [pc |-> "hung", alone |-> FALSE, todo |-> <<>>, copy |-> <<>>]
        \/ \E port, mode \in Int :
              r = [pc |-> "sed", alone |-> FALSE, copy |-> <<>>,
                   todo |-> <<[port |-> port, mode |-> mode]>>]
        \/ r = [pc |-> "export", alone |-> FALSE, copy |-> <<>>, todo |-> init]
    BY Plans
  <1>2. init \in Seq(PortModes)
    BY ConfTyped, PortsListed DEF FilesTyped
  <1> HIDE DEF r, init
  <1>3. CASE r = NotRunning
    BY <1>3, IdleTyped DEF r
  <1>4. CASE r = [pc |-> "hung", alone |-> FALSE, todo |-> <<>>, copy |-> <<>>]
    <2>1. WorkTyped(r)
      BY <1>4, TodoTypes DEF WorkTyped, Pcs
    <2> QED BY <2>1 DEF r
  <1>5. CASE \E port, mode \in Int :
               r = [pc |-> "sed", alone |-> FALSE, copy |-> <<>>,
                    todo |-> <<[port |-> port, mode |-> mode]>>]
    <2>1. PICK port, mode \in Int :
            r = [pc |-> "sed", alone |-> FALSE, copy |-> <<>>,
                 todo |-> <<[port |-> port, mode |-> mode]>>]
      BY <1>5
    <2>2. r.todo \in Seq(PortModes) /\ Len(r.todo) = 1 /\ r.pc = "sed"
      BY <2>1 DEF PortModes
    <2>3. WorkTyped(r)
      BY <2>2, TodoTypes DEF WorkTyped, Pcs
    <2> QED BY <2>3 DEF r
  <1>6. CASE r = [pc |-> "export", alone |-> FALSE, copy |-> <<>>, todo |-> init]
    <2>1. WorkTyped(r)
      BY <1>2, <1>6, TodoTypes DEF WorkTyped, Pcs
    <2> QED BY <2>1 DEF r
  <1> QED BY <1>1, <1>3, <1>4, <1>5, <1>6

WorkAllTyped == \A p \in Procs : WorkTyped(run[p])

LEMMA TypeOKParts ==
  TypeOK <=> /\ gpio \in [Lines -> GpioStates]
             /\ told \in [Lines -> [tool : Tools, level : Levels]]
             /\ boot \in {"service", "up"}
             /\ undisturbed \in BOOLEAN
             /\ left \in [runs : Nat, cuts : Nat]
             /\ \A p \in Procs :
                  /\ run[p].pc \in Pcs
                  /\ run[p].todo \in TodoOf(run[p].pc)
                  /\ run[p].pc \in {"sed", "rename", "first", "second", "write",
                                    "slept", "reading"} => Len(run[p].todo) >= 1
  BY DEF TypeOK, Pcs

\* All programs stay as they were but that of p, which has its work.
LEMMA OneTyped ==
  ASSUME LinesInv, WorkAllTyped, NEW p \in Procs, OnlyMoves(p),
         WorkTyped(run'[p]) \/ run'[p] = run[p]
  PROVE  WorkAllTyped'
  <1> SUFFICES ASSUME NEW q \in Procs PROVE WorkTyped(run'[q])
    BY DEF WorkAllTyped
  <1>1. CASE q = p
    BY <1>1 DEF WorkAllTyped
  <1>2. CASE q # p
    BY <1>2 DEF OnlyMoves, WorkAllTyped, WorkTyped
  <1> QED BY <1>1, <1>2

LEMMA LaunchTyped ==
  ASSUME LinesInv, WorkAllTyped, NEW p \in Procs, NEW r, WorkTyped(r), r = Fields(r),
         r.alone = FALSE, r # NotRunning => r.pc # "idle", Launch(p, r)
  PROVE  WorkAllTyped'
  <1>1. /\ OnlyMoves(p)
        /\ r = NotRunning => run'[p] = run[p]
        /\ r # NotRunning =>
             run'[p].pc = r.pc /\ run'[p].todo = r.todo /\ run'[p].copy = r.copy
    BY Launched DEF LinesInv
  <1>2. WorkTyped(run'[p]) \/ run'[p] = run[p]
    BY <1>1 DEF WorkTyped
  <1> QED BY <1>1, <1>2, OneTyped

LEMMA UartmodeTyped ==
  ASSUME LinesInv, FilesTyped, WorkAllTyped, NEW p \in Procs, NEW argv \in Seq(Opts),
         NEW root, Launch(p, Plan(argv, root))
  PROVE  WorkAllTyped'
  <1> DEFINE r == Plan(argv, root)
  <1>1. /\ r = Fields(r) /\ r.alone = FALSE
        /\ r = NotRunning \/ r.pc \in {"hung", "sed", "export"}
    BY Planned
  <1>2. WorkTyped(r) /\ Launch(p, r)
    BY PlanTyped
  <1> HIDE DEF r
  <1> QED BY <1>1, <1>2, LaunchTyped

LEMMA SetdoTyped ==
  ASSUME LinesInv, WorkAllTyped, NEW p \in Procs, NEW argv, Setdo(p, argv)
  PROVE  WorkAllTyped'
  <1> DEFINE r == SetdoPlan(argv)
  <1>0. Launch(p, r)
    BY DEF Setdo
  <1>1. CASE r = NotRunning
    BY <1>0, <1>1, Idle, IdleTyped, LaunchTyped
  <1>2. CASE r # NotRunning
    <2>1. PICK line \in Lines, level \in Levels :
            /\ r.pc = IF Exists(line) THEN "write" ELSE "slept"
            /\ r.todo = <<[line |-> line, level |-> level]>>
            /\ r = Fields(r) /\ r.alone = FALSE
      BY <1>2, SetdoPlanned
    <2> HIDE DEF r
    <2>2. r.pc \in {"write", "slept"}
      BY <2>1
    <2>3. r.todo \in Seq([line : Lines, level : Levels]) /\ Len(r.todo) = 1
      BY <2>1
    <2>4. WorkTyped(r)
      BY <2>2, <2>3, TodoTypes DEF WorkTyped, Pcs
    <2> QED BY <1>0, <2>1, <2>2, <2>4, LaunchTyped
  <1> QED BY <1>1, <1>2

LEMMA GetdiTyped ==
  ASSUME LinesInv, WorkAllTyped, NEW p \in Procs, NEW argv, Getdi(p, argv)
  PROVE  WorkAllTyped'
  <1> DEFINE line == DiLine[argv[1][1] - Code0 + 1]
             got == (Len(argv) >= 1 /\ PinOk(argv[1])) /\ gpio[line].by = "none"
             r == [NotRunning EXCEPT !.pc = "reading", !.todo = <<line>>]
  <1>0. Launch(p, IF got THEN r ELSE NotRunning)
    BY DEF Getdi
  <1>1. CASE ~ got
    BY <1>0, <1>1, Idle, IdleTyped, LaunchTyped
  <1>2. CASE got
    <2>1. line \in Lines
      <3> DEFINE n == argv[1][1] - Code0
      <3>1. n \in 0 .. 3
        BY <1>2 DEF PinOk
      <3>2. line = DiLine[n + 1]
        OBVIOUS
      <3> HIDE DEF n
      <3> QED BY <3>1, <3>2, LinesAssumption DEF DiLine
    <2>2. Launch(p, r)
      BY <1>0, <1>2
    <2> HIDE DEF line, got
    <2>3. r = Fields(r) /\ r.alone = FALSE /\ r.pc = "reading" /\ r.todo = <<line>>
      <3>1. r = [NotRunning EXCEPT !.pc = "reading", !.todo = <<line>>]
        OBVIOUS
      <3> HIDE DEF r
      <3> QED BY <3>1 DEF NotRunning, Fields
    <2> HIDE DEF r
    <2>4. r.todo \in Seq(Lines) /\ Len(r.todo) = 1
      BY <2>1, <2>3
    <2>5. TodoOf(r.pc) = Seq(Lines) /\ r.pc = "reading"
      BY <2>3, TodoTypes
    <2>6. WorkTyped(r)
      BY <2>4, <2>5 DEF WorkTyped, Pcs
    <2> QED BY <2>2, <2>3, <2>6, LaunchTyped
  <1> QED BY <1>1, <1>2

\* The file stays a text, whatever sed puts into it.
LEMMA UartStepTyped ==
  ASSUME LinesInv, FilesTyped, WorkAllTyped, NEW p \in Procs, UartStep(p)
  PROVE  WorkAllTyped' /\ FilesTyped'
  <1> DEFINE s == run[p]
  <1>1. WorkTyped(s)
    BY DEF WorkAllTyped
  <1>2. s.pc \in {"sed", "rename", "export", "first", "second"} => s.todo \in Seq(PortModes)
    BY <1>1, TodoTypes DEF WorkTyped
  <1>3. disk' = disk /\ (~ SedRename(p) => file' = file)
    BY DEF UartStep, SedRead, SedRename, SedFails, Export, DriveFirst, DriveSecond, Exit,
           uartVars
  <1>4. ASSUME NEW pc, NEW todo, NEW copy, Goes(p, pc, todo, copy),
               pc \in {"rename", "export", "first", "second"}, todo \in Seq(PortModes),
               pc # "export" => Len(todo) >= 1, pc = "rename" => copy \in Texts
        PROVE  WorkAllTyped'
    <2>1. OnlyMoves(p) /\ run'[p].pc = pc /\ run'[p].todo = todo /\ run'[p].copy = copy
      BY <1>4 DEF Goes
    <2>2. WorkTyped(run'[p])
      BY <1>4, <2>1, TodoTypes DEF WorkTyped, Pcs
    <2> QED BY <2>1, <2>2, OneTyped
  <1>5. ASSUME WorkAllTyped', file' \in Texts PROVE FilesTyped'
    BY <1>3, <1>5 DEF FilesTyped, WorkAllTyped, WorkTyped
  <1>6. CASE SedRead(p)
    <2>1. s.pc = "sed" /\ Goes(p, "rename", s.todo, file)
      BY <1>6, UartMoves
    <2>2. s.todo \in Seq(PortModes) /\ Len(s.todo) >= 1
      BY <1>1, <1>2, <2>1 DEF WorkTyped
    <2>3. file' = file /\ file \in Texts
      BY <1>6 DEF SedRead, FilesTyped
    <2> QED BY <1>4, <1>5, <2>1, <2>2, <2>3
  <1>7. CASE SedRename(p)
    <2>1. s.pc = "rename" /\ Goes(p, "export", s.todo, <<>>)
      BY <1>7, UartMoves
    <2>2. s.todo \in Seq(PortModes) /\ Len(s.todo) >= 1 /\ s.copy \in Texts
      BY <1>1, <1>2, <2>1 DEF WorkTyped
    <2>3. s.todo[1] \in PortModes
      BY <2>2
    <2>4. file' = Sed(s.copy, s.todo[1].port, s.todo[1].mode)
      BY <1>7 DEF SedRename
    <2>5. file' \in Texts
      <3>1. s.todo[1].mode \in Int
        BY <2>3 DEF PortModes
      <3> QED BY <2>2, <2>4, <3>1, SedTyped
    <2> QED BY <1>4, <1>5, <2>1, <2>2, <2>5
  <1>8. CASE Export(p)
    <2>1. /\ s.pc = "export" /\ s.todo # <<>>
          /\ s.todo[1].port \in Ports => Goes(p, "first", s.todo, s.copy)
          /\ s.todo[1].port \notin Ports => Goes(p, "export", Tail(s.todo), s.copy)
      BY <1>8, UartMoves
    <2>2. s.todo \in Seq(PortModes) /\ Len(s.todo) >= 1 /\ Tail(s.todo) \in Seq(PortModes)
      BY <1>2, <2>1
    <2>3. file' = file /\ file \in Texts
      BY <1>8 DEF Export, FilesTyped
    <2> QED BY <1>4, <1>5, <2>1, <2>2, <2>3
  <1>9. CASE DriveFirst(p)
    <2>1. s.pc = "first" /\ Goes(p, "second", s.todo, s.copy)
      BY <1>9, UartMoves
    <2>2. s.todo \in Seq(PortModes) /\ Len(s.todo) >= 1
      BY <1>1, <1>2, <2>1 DEF WorkTyped
    <2>3. file' = file /\ file \in Texts
      BY <1>9 DEF DriveFirst, FilesTyped, uartVars
    <2> QED BY <1>4, <1>5, <2>1, <2>2, <2>3
  <1>10. CASE DriveSecond(p)
    <2>1. s.pc = "second" /\ Goes(p, "export", Tail(s.todo), s.copy)
      BY <1>10, UartMoves
    <2>2. s.todo \in Seq(PortModes) /\ Len(s.todo) >= 1
      BY <1>1, <1>2, <2>1 DEF WorkTyped
    <2>3. Tail(s.todo) \in Seq(PortModes)
      BY <2>2
    <2>4. file' = file /\ file \in Texts
      BY <1>10 DEF DriveSecond, FilesTyped, uartVars
    <2> QED BY <1>4, <1>5, <2>1, <2>3, <2>4
  <1>11. CASE Exit(p)
    <2>1. OnlyMoves(p) /\ run'[p] = NotRunning
      BY <1>11, UartMoves
    <2>2. file' = file /\ file \in Texts
      BY <1>11 DEF Exit, FilesTyped
    <2> QED BY <1>5, <2>1, <2>2, IdleTyped, OneTyped
  <1>12. CASE SedFails(p)
    <2>1. s.pc \in {"sed", "rename"} /\ GivesUp(p)
      BY <1>12, UartMoves
    <2>2. s.todo \in Seq(PortModes)
      BY <1>2, <2>1
    <2>3. WorkTyped(run'[p])
      BY <2>1, <2>2, TodoTypes DEF GivesUp, WorkTyped, Pcs
    <2>4. file' = file /\ file \in Texts
      BY <1>12 DEF SedFails, FilesTyped
    <2> QED BY <1>5, <2>1, <2>3, <2>4, OneTyped DEF GivesUp
  <1> QED BY <1>6, <1>7, <1>8, <1>9, <1>10, <1>11, <1>12 DEF UartStep

LEMMA InitTyped == Init => FilesTyped /\ TypeOK
  <1> SUFFICES ASSUME Init PROVE FilesTyped /\ TypeOK
    OBVIOUS
  <1>1. LinesInv
    BY InitInv
  <1>2. \A p \in Procs : run[p] = NotRunning
    BY DEF Init, GpioInit
  <1>3. WorkAllTyped
    BY <1>2, IdleTyped DEF WorkAllTyped
  <1>4. FilesTyped
    BY <1>2, FilesAssumption DEF FilesTyped, Init, UartInit, NotRunning
  <1>5. left \in [runs : Nat, cuts : Nat]
    <2>1. [runs |-> MaxRuns, cuts |-> MaxCuts] \in [runs : Nat, cuts : Nat]
      BY CommandsAssumption
    <2> QED BY <2>1 DEF Init
  <1> QED BY <1>1, <1>3, <1>4, <1>5, TypeOKParts
      DEF Init, UartInit, LinesInv, Shaped, WorkAllTyped, WorkTyped

LEMMA NextTyped ==
  ASSUME LinesInv, FilesTyped, TypeOK, [Next]_vars
  PROVE  FilesTyped' /\ TypeOK'
  <1>0. LinesInv'
    BY NextInv
  <1>1. WorkAllTyped
    BY TypeOKParts DEF FilesTyped, WorkAllTyped, WorkTyped
  <1>2. left \in [runs : Nat, cuts : Nat] /\ boot \in {"service", "up"}
        /\ undisturbed \in BOOLEAN
    BY TypeOKParts
  <1>3. ASSUME WorkAllTyped', FilesTyped', left' \in [runs : Nat, cuts : Nat],
               boot' \in {"service", "up"}, undisturbed' \in BOOLEAN
        PROVE  FilesTyped' /\ TypeOK'
    <2>1. TypeOK' <=>
             /\ gpio' \in [Lines -> GpioStates]
             /\ told' \in [Lines -> [tool : Tools, level : Levels]]
             /\ boot' \in {"service", "up"}
             /\ undisturbed' \in BOOLEAN
             /\ left' \in [runs : Nat, cuts : Nat]
             /\ \A p \in Procs :
                  /\ run'[p].pc \in Pcs
                  /\ run'[p].todo \in TodoOf(run'[p].pc)
                  /\ run'[p].pc \in {"sed", "rename", "first", "second", "write",
                                     "slept", "reading"} => Len(run'[p].todo) >= 1
      BY DEF TypeOK, Pcs
    <2> QED BY <1>0, <1>3, <2>1 DEF LinesInv, Shaped, WorkAllTyped, WorkTyped
  <1>4. ASSUME WorkAllTyped', file' = file, disk' \in {disk, file}
        PROVE  FilesTyped'
    BY <1>4 DEF FilesTyped, WorkAllTyped, WorkTyped
  <1>5. ASSUME NEW p \in Procs, Command(p)
        PROVE  FilesTyped' /\ TypeOK'
    <2>1. file' = file /\ disk' = disk /\ boot' = boot /\ undisturbed' = FALSE
      BY <1>5 DEF Command, Uartmode, uartVars
    <2>2. left' \in [runs : Nat, cuts : Nat]
      <3>1. left.runs > 0 /\ left' = [left EXCEPT !.runs = left.runs - 1]
        BY <1>5 DEF Command
      <3> QED BY <1>2, <3>1
    <2>3. WorkAllTyped'
      <3>1. ASSUME NEW argv \in UartArgs, NEW root \in BOOLEAN, Uartmode(p, argv, root)
            PROVE  WorkAllTyped'
        <4>1. argv \in Seq(Opts)
          BY CommandsAssumption DEF Opts
        <4> QED BY <1>1, <3>1, <4>1, UartmodeTyped DEF Uartmode
      <3> QED BY <1>1, <1>5, <3>1, SetdoTyped, GetdiTyped DEF Command
    <2> QED BY <1>2, <1>3, <1>4, <2>1, <2>2, <2>3
  <1>6. ASSUME NEW p \in Procs, Work(p)
        PROVE  FilesTyped' /\ TypeOK'
    <2>1. left' = left /\ undisturbed' = undisturbed /\ boot' = boot
      BY <1>6 DEF Work, UartStep, SedRead, SedRename, SedFails, Export, DriveFirst,
                  DriveSecond, Exit, uartVars
    <2>2. CASE UartStep(p)
      BY <1>1, <1>2, <1>3, <2>1, <2>2, UartStepTyped
    <2>3. CASE (SetdoWrite(p) \/ GetdiRelease(p)) /\ UNCHANGED uartVars
      <3>1. OnlyMoves(p) /\ run'[p] = NotRunning
        BY <2>3, Ended DEF SetdoWrite, GetdiRelease, Running
      <3>2. WorkAllTyped'
        BY <1>1, <3>1, IdleTyped, OneTyped
      <3> QED BY <1>2, <1>3, <1>4, <2>1, <2>3, <3>2 DEF uartVars
    <2> QED BY <1>6, <2>2, <2>3 DEF Work
  <1>7. ASSUME NEW p \in Procs, Service(p)
        PROVE  FilesTyped' /\ TypeOK'
    <2> DEFINE argv == <<[opt |-> "i", num |-> 0]>>
    <2>1. argv \in Seq(Opts)
      <3>1. [opt |-> "i", num |-> 0] \in Opts
        BY DEF Opts
      <3> QED BY <3>1
    <2>2. Launch(p, Plan(argv, TRUE)) /\ boot' = "up" /\ UNCHANGED <<file, disk, left, undisturbed>>
      BY <1>7 DEF Service, BootService
    <2> HIDE DEF argv
    <2>3. WorkAllTyped'
      BY <1>1, <2>1, <2>2, UartmodeTyped
    <2> QED BY <1>2, <1>3, <1>4, <2>2, <2>3
  <1>8. ASSUME run' = run, file' = file, disk' \in {disk, file},
               UNCHANGED <<left, undisturbed, boot>>
        PROVE  FilesTyped' /\ TypeOK'
    <2>1. WorkAllTyped'
      BY <1>1, <1>8 DEF WorkAllTyped, WorkTyped
    <2> QED BY <1>2, <1>3, <1>4, <1>8, <2>1
  <1>9. CASE Flush /\ UNCHANGED <<left, undisturbed>>
    BY <1>8, <1>9 DEF Flush
  <1>10. CASE /\ left.cuts > 0 /\ PowerCut
              /\ left' = [left EXCEPT !.cuts = @ - 1] /\ undisturbed' = TRUE
    <2>1. \A p \in Procs : run'[p] = NotRunning
      BY <1>10 DEF PowerCut, PowerLost
    <2>2. WorkAllTyped'
      BY <2>1, IdleTyped DEF WorkAllTyped
    <2>3. file' = disk /\ disk' = disk /\ boot' = "service"
      BY <1>10 DEF PowerCut
    <2>4. FilesTyped'
      BY <2>1, <2>3 DEF FilesTyped, NotRunning
    <2>5. left' \in [runs : Nat, cuts : Nat]
      BY <1>2, <1>10
    <2> QED BY <1>3, <1>10, <2>2, <2>3, <2>4, <2>5
  <1>11. CASE UNCHANGED vars
    BY <1>8, <1>11 DEF vars
  <1> QED BY <1>5, <1>6, <1>7, <1>9, <1>10, <1>11 DEF Next

\* Every variable has its values, and each process the work that its place in
\* its program needs; what becomes of uartmode.toml is text.
THEOREM TypesCorrect == Spec => [](TypeOK /\ FilesTyped)
  <1>1. Init => LinesInv /\ FilesTyped /\ TypeOK
    BY InitInv, InitTyped
  <1>2. LinesInv /\ FilesTyped /\ TypeOK /\ [Next]_vars
          => (LinesInv /\ FilesTyped /\ TypeOK)'
    BY NextInv, NextTyped
  <1> QED BY <1>1, <1>2, PTL DEF Spec

\* Whatever uartmode.toml is left with by hand, by sed or by a power cut: where it
\* is legal, the parser makes of it what it says.
THEOREM LegalAlwaysLoad == Spec => []LegalFilesLoad
  <1>1. FilesTyped => LegalFilesLoad
    BY LegalTextsLoad DEF FilesTyped, LegalFilesLoad
  <1> QED BY <1>1, TypesCorrect, PTL

-----------------------------------------------------------------------------
(***************************************************************************)
(* Driving the pins.                                                       *)
(***************************************************************************)

LEMMA PinsApart ==
  ASSUME NEW port \in Ports, NEW other \in Ports, other # port,
         NEW k \in 1 .. 2, NEW j \in 1 .. 2
  PROVE  Pins(other)[j] # Pins(port)[k]
  BY DEF Ports, Pins, portGpios

Mark(mode, k) == [tool |-> "uartmode", level |-> portMode[mode + 1][k]]

LEMMA DriveTold ==
  ASSUME LinesInv, NEW p \in Procs, NEW k \in 1 .. 2, run[p].pc \in {"first", "second"},
         Drive(p, k)
  PROVE  LET mode == run[p].todo[1].mode
         IN /\ mode \in Modes =>
                 told'[PinOf(p, k)] = IF run[p].alone THEN Mark(mode, k) ELSE Untold
            /\ mode \notin Modes =>
                 told' = told /\ \A m \in Lines : gpio'[m].level = gpio[m].level
  <1> DEFINE line == PinOf(p, k)
             mode == run[p].todo[1].mode
  <1>1. line \in Lines
    BY PinsAreLines DEF PinOf, LinesInv, KnowsItsLines
  <1>2. gpio \in [Lines -> GpioStates] /\ told \in [Lines -> Marks]
    BY DEF LinesInv, Shaped, Marks
  <1>3. CASE mode \in Modes
    <2>1. Tell(p, line, "uartmode", portMode[mode + 1][k])
      BY <1>3 DEF Drive, PinOf
    <2> HIDE DEF line
    <2>2. told'[line] = IF run[p].alone THEN Mark(mode, k) ELSE Untold
      BY <1>1, <1>2, <2>1 DEF Tell, Mark
    <2> QED BY <1>3, <2>2 DEF line
  <1>4. CASE mode \notin Modes
    <2>1. gpio' = [gpio EXCEPT ![line].fresh = FALSE] /\ told' = told
      BY <1>4 DEF Drive, PinOf
    <2> HIDE DEF line
    <2>2. ASSUME NEW m \in Lines PROVE gpio'[m].level = gpio[m].level
      <3>1. gpio[m] \in GpioStates
        BY <1>2
      <3>2. m = line => gpio'[m] = [gpio[m] EXCEPT !.fresh = FALSE]
        BY <1>2, <2>1
      <3>3. m # line => gpio'[m] = gpio[m]
        BY <1>2, <2>1
      <3>4. [gpio[m] EXCEPT !.fresh = FALSE].level = gpio[m].level
        BY <3>1 DEF GpioStates
      <3> QED BY <3>2, <3>3, <3>4
    <2> QED BY <1>4, <2>1, <2>2
  <1> QED BY <1>3, <1>4

LEMMA TailOf ==
  ASSUME NEW todo \in Seq(PortModes), todo # <<>>
  PROVE  /\ \A i \in DOMAIN Tail(todo) : i + 1 \in DOMAIN todo /\ Tail(todo)[i] = todo[i + 1]
         /\ \A i \in DOMAIN todo : i # 1 =>
              i - 1 \in DOMAIN Tail(todo) /\ Tail(todo)[i - 1] = todo[i]
  OBVIOUS

\* The programs at setUartMode that went on are p at most.
PendingAt(p, port) ==
  Driving(p) /\ \E i \in DOMAIN run[p].todo :
    run[p].todo[i].port = port /\ run[p].todo[i].mode \in Modes

LEMMA PendingStays ==
  ASSUME NEW p \in Procs, OnlyMoves(p), NEW port, Pending(port),
         PendingAt(p, port) => PendingAt(p, port)'
  PROVE  Pending(port)'
  <1>1. PICK q \in Procs : PendingAt(q, port)
    BY DEF Pending, PendingAt
  <1>2. CASE q = p
    BY <1>1, <1>2 DEF Pending, PendingAt
  <1>3. CASE q # p
    <2>1. run'[q].pc = run[q].pc /\ run'[q].todo = run[q].todo
      BY <1>3 DEF OnlyMoves
    <2> QED BY <1>1, <2>1 DEF Pending, PendingAt, Driving
  <1> QED BY <1>2, <1>3

\* The pins of port, and who is to drive them, are left as they were.
PinsLeft(port) ==
  /\ Pending(port) => Pending(port)'
  /\ \A k \in 1 .. 2 : /\ told'[Pins(port)[k]] = told[Pins(port)[k]]
                       /\ gpio'[Pins(port)[k]].level = gpio[Pins(port)[k]].level

\* p has just driven the pins of port, and nothing ran beside it.
PinsDriven(p, port) ==
  /\ run[p].alone
  /\ FollowsFile(p) =>
       /\ ModeOf(file, port) \in Modes
       /\ \A k \in 1 .. 2 : told'[Pins(port)[k]] = Mark(ModeOf(file, port), k)

LEMMA ExportDrives ==
  ASSUME LinesInv, WorkAllTyped, NEW p \in Procs, Export(p)
  PROVE  /\ FollowsFile(p) => FollowsFile(p)'
         /\ \A port \in Ports : PinsLeft(port)
  <1> DEFINE s == run[p]
  <1>1. /\ s.pc = "export" /\ s.todo # <<>>
        /\ s.todo[1].port \in Ports => Goes(p, "first", s.todo, s.copy)
        /\ s.todo[1].port \notin Ports => Goes(p, "export", Tail(s.todo), s.copy)
    BY UartMoves
  <1>2. s.todo \in Seq(PortModes)
    BY <1>1, TodoTypes DEF WorkAllTyped, WorkTyped
  <1>3. told' = told /\ file' = file
    BY DEF Export
  <1>4. ASSUME NEW port \in Ports, NEW k \in 1 .. 2
        PROVE  gpio'[Pins(port)[k]].level = gpio[Pins(port)[k]].level
    <2>1. gpio \in [Lines -> GpioStates]
      BY DEF LinesInv, Shaped
    <2>2. gpio' = gpio \/ \E ls : gpio' = Exported(ls)
      BY DEF Export
    <2> QED BY <2>1, <2>2, PinsAreLines, ExportedLines
  <1>5. CASE s.todo[1].port \in Ports
    <2>1. OnlyMoves(p) /\ run'[p].pc = "first" /\ run'[p].todo = s.todo
      BY <1>1, <1>5, WhereTo
    <2>2. \A port : PendingAt(p, port) => PendingAt(p, port)'
      BY <1>1, <2>1 DEF PendingAt, Driving
    <2>3. \A port : Pending(port) => Pending(port)'
      BY <2>1, <2>2, PendingStays
    <2>4. FollowsFile(p) => FollowsFile(p)'
      BY <1>3, <2>1 DEF FollowsFile
    <2> QED BY <1>3, <1>4, <2>3, <2>4 DEF PinsLeft
  <1>6. CASE s.todo[1].port \notin Ports
    <2>1. OnlyMoves(p) /\ run'[p].pc = "export" /\ run'[p].todo = Tail(s.todo)
      BY <1>1, <1>6, WhereTo
    <2>2. ASSUME NEW port \in Ports, PendingAt(p, port) PROVE PendingAt(p, port)'
      <3>1. PICK i \in DOMAIN s.todo : s.todo[i].port = port /\ s.todo[i].mode \in Modes
        BY <2>2 DEF PendingAt
      <3>2. i - 1 \in DOMAIN Tail(s.todo) /\ Tail(s.todo)[i - 1] = s.todo[i]
        BY <1>1, <1>2, <1>6, <2>2, <3>1, TailOf
      <3> QED BY <2>1, <3>1, <3>2 DEF PendingAt, Driving
    <2>3. \A port \in Ports : Pending(port) => Pending(port)'
      BY <2>1, <2>2, PendingStays
    <2>4. FollowsFile(p) => FollowsFile(p)'
      <3>1. \A i \in DOMAIN Tail(s.todo) :
              i + 1 \in DOMAIN s.todo /\ Tail(s.todo)[i] = s.todo[i + 1]
        BY <1>1, <1>2, TailOf
      <3> QED BY <1>3, <2>1, <3>1 DEF FollowsFile
    <2> QED BY <1>3, <1>4, <2>3, <2>4 DEF PinsLeft
  <1> QED BY <1>5, <1>6

LEMMA FirstDrives ==
  ASSUME LinesInv, WorkAllTyped, NEW p \in Procs, DriveFirst(p)
  PROVE  /\ run[p].alone /\ FollowsFile(p) => FollowsFile(p)'
         /\ \A port \in Ports : PinsLeft(port) \/ Pending(port)'
  <1> DEFINE s == run[p]
             at == s.todo[1].port
             mode == s.todo[1].mode
  <1>1. s.pc = "first" /\ Goes(p, "second", s.todo, s.copy)
    BY UartMoves
  <1>2. OnlyMoves(p) /\ run'[p].pc = "second" /\ run'[p].todo = s.todo
    BY <1>1, WhereTo
  <1>3. s.todo \in Seq(PortModes) /\ 1 \in DOMAIN s.todo /\ at \in Ports
    <2>1. s.todo \in Seq(PortModes) /\ Len(s.todo) >= 1
      BY <1>1, TodoTypes DEF WorkAllTyped, WorkTyped
    <2> QED BY <1>1, <2>1 DEF LinesInv, KnowsItsLines
  <1>4. Drive(p, 1) /\ file' = file
    BY DEF DriveFirst, uartVars
  <1>5. /\ \A m \in Lines : m # PinOf(p, 1) => gpio'[m] = gpio[m] /\ told'[m] = told[m]
        /\ mode \in Modes =>
             told'[PinOf(p, 1)] = IF s.alone THEN Mark(mode, 1) ELSE Untold
        /\ mode \notin Modes =>
             told' = told /\ \A m \in Lines : gpio'[m].level = gpio[m].level
    BY <1>1, <1>4, DriveLine, DriveTold
  <1>6. \A port : PendingAt(p, port) => PendingAt(p, port)'
    BY <1>1, <1>2 DEF PendingAt, Driving
  <1>7. \A port : Pending(port) => Pending(port)'
    BY <1>2, <1>6, PendingStays
  <1>8. ASSUME NEW port \in Ports PROVE PinsLeft(port) \/ Pending(port)'
    <2>1. CASE port = at /\ mode \in Modes
      <3>1. PendingAt(p, port)'
        BY <1>2, <1>3, <2>1 DEF PendingAt, Driving
      <3> QED BY <3>1 DEF Pending, PendingAt
    <2>2. CASE mode \notin Modes
      BY <1>5, <1>7, <2>2, PinsAreLines DEF PinsLeft
    <2>3. CASE port # at
      <3>1. \A k \in 1 .. 2 : Pins(port)[k] \in Lines /\ Pins(port)[k] # PinOf(p, 1)
        BY <1>3, <2>3, PinsAreLines, PinsApart DEF PinOf
      <3> QED BY <1>5, <1>7, <3>1 DEF PinsLeft
    <2> QED BY <2>1, <2>2, <2>3
  <1>9. ASSUME s.alone, FollowsFile(p) PROVE FollowsFile(p)'
    <2>1. run'[p].pc = "second" /\ mode \in Modes => told'[Pins(at)[1]] = Mark(mode, 1)
      BY <1>5, <1>9 DEF PinOf
    <2> QED BY <1>2, <1>4, <1>9, <2>1 DEF FollowsFile, Mark
  <1> QED BY <1>8, <1>9

LEMMA SecondDrives ==
  ASSUME LinesInv, WorkAllTyped, NEW p \in Procs, DriveSecond(p)
  PROVE  /\ FollowsFile(p) => FollowsFile(p)'
         /\ \A port \in Ports :
              \/ PinsLeft(port)
              \/ ~ run[p].alone /\ told'[Pins(port)[2]] = Untold
              \/ PinsDriven(p, port)
  <1> DEFINE s == run[p]
             at == s.todo[1].port
             mode == s.todo[1].mode
  <1>1. s.pc = "second" /\ Goes(p, "export", Tail(s.todo), s.copy)
    BY UartMoves
  <1>2. OnlyMoves(p) /\ run'[p].pc = "export" /\ run'[p].todo = Tail(s.todo)
    BY <1>1, WhereTo
  <1>3. s.todo \in Seq(PortModes) /\ 1 \in DOMAIN s.todo /\ at \in Ports /\ s.todo # <<>>
    <2>1. s.todo \in Seq(PortModes) /\ Len(s.todo) >= 1
      BY <1>1, TodoTypes DEF WorkAllTyped, WorkTyped
    <2> QED BY <1>1, <2>1 DEF LinesInv, KnowsItsLines
  <1>4. Drive(p, 2) /\ file' = file
    BY DEF DriveSecond, uartVars
  <1>5. /\ \A m \in Lines : m # PinOf(p, 2) => gpio'[m] = gpio[m] /\ told'[m] = told[m]
        /\ mode \in Modes =>
             told'[PinOf(p, 2)] = IF s.alone THEN Mark(mode, 2) ELSE Untold
        /\ mode \notin Modes =>
             told' = told /\ \A m \in Lines : gpio'[m].level = gpio[m].level
    BY <1>1, <1>4, DriveLine, DriveTold
  <1>6. ASSUME NEW port \in Ports, PendingAt(p, port), port # at \/ mode \notin Modes
        PROVE  PendingAt(p, port)'
    <2>1. PICK i \in DOMAIN s.todo : s.todo[i].port = port /\ s.todo[i].mode \in Modes
      BY <1>6 DEF PendingAt
    <2>2. i - 1 \in DOMAIN Tail(s.todo) /\ Tail(s.todo)[i - 1] = s.todo[i]
      BY <1>3, <1>6, <2>1, TailOf
    <2> QED BY <1>2, <2>1, <2>2 DEF PendingAt, Driving
  <1>7. \A port \in Ports : (port # at \/ mode \notin Modes) /\ Pending(port) => Pending(port)'
    BY <1>2, <1>6, PendingStays
  <1>8. ASSUME NEW port \in Ports
        PROVE  \/ PinsLeft(port)
               \/ ~ s.alone /\ told'[Pins(port)[2]] = Untold
               \/ PinsDriven(p, port)
    <2>1. CASE port = at /\ mode \in Modes /\ ~ s.alone
      BY <1>5, <2>1 DEF PinOf
    <2>2. CASE port = at /\ mode \in Modes /\ s.alone
      <3>1. ASSUME FollowsFile(p)
            PROVE  /\ ModeOf(file, port) \in Modes
                   /\ \A k \in 1 .. 2 : told'[Pins(port)[k]] = Mark(ModeOf(file, port), k)
        <4>1. mode = ModeOf(file, port) /\ told[Pins(port)[1]] = Mark(mode, 1)
          BY <1>1, <1>3, <2>2, <3>1 DEF FollowsFile, Mark
        <4>2. told'[Pins(port)[1]] = told[Pins(port)[1]]
          BY <1>3, <1>5, <2>2, PinsAreLines DEF PinOf
        <4>3. told'[Pins(port)[2]] = Mark(mode, 2)
          BY <1>5, <2>2 DEF PinOf
        <4> QED BY <2>2, <4>1, <4>2, <4>3
      <3> QED BY <2>2, <3>1 DEF PinsDriven
    <2>3. CASE mode \notin Modes
      BY <1>5, <1>7, <2>3, PinsAreLines DEF PinsLeft
    <2>4. CASE port # at
      <3>1. \A k \in 1 .. 2 : Pins(port)[k] \in Lines /\ Pins(port)[k] # PinOf(p, 2)
        BY <1>3, <2>4, PinsAreLines, PinsApart DEF PinOf
      <3> QED BY <1>5, <1>7, <2>4, <3>1 DEF PinsLeft
    <2> QED BY <2>1, <2>2, <2>3, <2>4
  <1>9. FollowsFile(p) => FollowsFile(p)'
    <2>1. \A i \in DOMAIN Tail(s.todo) :
            i + 1 \in DOMAIN s.todo /\ Tail(s.todo)[i] = s.todo[i + 1]
      BY <1>3, TailOf
    <2> QED BY <1>2, <1>4, <2>1 DEF FollowsFile
  <1> QED BY <1>8, <1>9

LEMMA ExitDrives ==
  ASSUME LinesInv, NEW p \in Procs, Exit(p)
  PROVE  \A port \in Ports : PinsLeft(port)
  <1>1. run[p].pc = "export" /\ run[p].todo = <<>> /\ UNCHANGED <<gpio, told>> /\ OnlyMoves(p)
    BY UartMoves DEF Exit
  <1>2. \A port : ~ PendingAt(p, port)
    BY <1>1 DEF PendingAt
  <1>3. \A port : Pending(port) => Pending(port)'
    BY <1>1, <1>2, PendingStays
  <1> QED BY <1>1, <1>3 DEF PinsLeft

-----------------------------------------------------------------------------
(***************************************************************************)
(* The boot.                                                               *)
(***************************************************************************)

PortsOf(conf) ==
  [i \in 1 .. WithPins(conf.portnums) |-> [port |-> i - 1, mode |-> conf.mode[i - 1]]]

LEMMA ServicePlan ==
  ASSUME FilesTyped
  PROVE  LET r == Plan(<<[opt |-> "i", num |-> 0]>>, TRUE)
             conf == loadconf(file)
         IN /\ conf.how = "run" => r = [pc |-> "export", alone |-> FALSE,
                                       todo |-> PortsOf(conf), copy |-> <<>>]
            /\ conf.how # "run" =>
                 \/ r = NotRunning
                 \/ r = [pc |-> "hung", alone |-> FALSE, todo |-> <<>>, copy |-> <<>>]
  <1> DEFINE argv == <<[opt |-> "i", num |-> 0]>>
             r == Plan(argv, TRUE)
             conf == loadconf(file)
             todo == PortsOf(conf)
  <1>1. Options(argv, conf, TRUE).do = "init"
    BY ServiceOptions
  <1>2. conf.how \in {"run", "hang", "abort"}
    BY ConfTyped DEF FilesTyped, Confs
  <1> HIDE DEF argv
  <1>3. /\ conf.how = "run" => r = [NotRunning EXCEPT !.pc = "export", !.todo = todo]
        /\ conf.how # "run" => r \in {NotRunning, [NotRunning EXCEPT !.pc = "hung"]}
    BY <1>1, <1>2 DEF Plan, PortsOf
  <1> HIDE DEF r, todo, conf
  <1>5. ASSUME r = [NotRunning EXCEPT !.pc = "export", !.todo = todo]
        PROVE  r = [pc |-> "export", alone |-> FALSE, todo |-> todo, copy |-> <<>>]
    BY <1>5 DEF NotRunning
  <1>6. ASSUME r = [NotRunning EXCEPT !.pc = "hung"]
        PROVE  r = [pc |-> "hung", alone |-> FALSE, todo |-> <<>>, copy |-> <<>>]
    BY <1>6 DEF NotRunning
  <1>7. /\ conf.how = "run" => r = [pc |-> "export", alone |-> FALSE,
                                    todo |-> todo, copy |-> <<>>]
        /\ conf.how # "run" =>
             \/ r = NotRunning
             \/ r = [pc |-> "hung", alone |-> FALSE, todo |-> <<>>, copy |-> <<>>]
    BY <1>3, <1>5, <1>6
  <1> QED BY <1>7 DEF r, conf, todo, argv

LEMMA InitBoot == Init => BootInv
  BY DEF Init, GpioInit, UartInit, BootInv, Quiet, Running, NotRunning

\* The service starts to drive the pins of every port that has a mode.
LEMMA ServiceBoots ==
  ASSUME LinesInv, FilesTyped, BootInv, NEW p \in Procs, Service(p)
  PROVE  BootInv'
  <1> DEFINE r == Plan(<<[opt |-> "i", num |-> 0]>>, TRUE)
             conf == loadconf(file)
             todo == PortsOf(conf)
  <1>1. /\ boot = "service" /\ boot' = "up" /\ Launch(p, r)
        /\ UNCHANGED <<gpio, told, file, undisturbed>>
    BY DEF Service, BootService
  <1>2. /\ conf.how = "run" => r = [pc |-> "export", alone |-> FALSE,
                                   todo |-> todo, copy |-> <<>>]
        /\ conf.how # "run" =>
             \/ r = NotRunning
             \/ r = [pc |-> "hung", alone |-> FALSE, todo |-> <<>>, copy |-> <<>>]
    BY ServicePlan
  <1>3. conf \in Confs /\ (conf.how # "run" => conf.portnums = 0)
    BY ConfTyped DEF FilesTyped
  <1>4. /\ \A i \in DOMAIN todo : todo[i].port \in Ports
                                 /\ todo[i].mode = conf.mode[todo[i].port]
        /\ \A port \in Ports : port < conf.portnums =>
             \E i \in DOMAIN todo : todo[i].port = port
    BY <1>3, PortsListed DEF PortsOf
  <1>5. SUFFICES ASSUME undisturbed
        PROVE  /\ \A q \in Procs : Running(q)' =>
                    /\ run'[q].alone
                    /\ run'[q].pc = "hung" \/ (Driving(q)' /\ FollowsFile(q)')
               /\ \A port \in Ports : HasMode(file, port) => Restored(port)' \/ Pending(port)'
    BY <1>1 DEF BootInv, HasMode
  <1>6. Quiet
    BY <1>1, <1>5 DEF BootInv
  <1>7. /\ r = Fields(r) /\ r.alone = FALSE
        /\ r = NotRunning \/ r.pc \in {"hung", "sed", "export"}
    BY Planned
  <1>8. \A port \in Ports : HasMode(file, port) <=>
          port < conf.portnums /\ conf.mode[port] \in Modes
    BY DEF HasMode, ModeOf
  <1>9. \A port : ModeOf(file, port) = conf.mode[port]
    BY DEF ModeOf
  <1> HIDE DEF r, todo, conf
  <1>10. /\ OnlyMoves(p) /\ run[p].pc = "idle"
         /\ r = NotRunning => run'[p] = run[p]
         /\ r # NotRunning => run'[p].pc = r.pc /\ run'[p].todo = r.todo
                              /\ run'[p].alone = Quiet
    <2>1. r # NotRunning => r.pc # "idle"
      BY <1>7
    <2> QED BY <1>1, <1>7, <2>1, Launched DEF LinesInv
  <1>11. \A q \in Procs : q # p => ~ Running(q)'
    BY <1>6, <1>10 DEF OnlyMoves, Quiet, Running
  <1>12. CASE conf.how = "run"
    <2>1. r.pc = "export" /\ r.todo = todo /\ r # NotRunning
      BY <1>2, <1>12 DEF NotRunning
    <2>2. run'[p].pc = "export" /\ run'[p].todo = todo /\ run'[p].alone
      BY <1>6, <1>10, <2>1
    <2>3. Driving(p)' /\ FollowsFile(p)'
      BY <1>1, <1>4, <1>9, <2>2 DEF Driving, FollowsFile, ModeOf
    <2>4. ASSUME NEW port \in Ports, HasMode(file, port) PROVE Pending(port)'
      <3>1. port < conf.portnums /\ conf.mode[port] \in Modes
        BY <1>8, <2>4
      <3>2. PICK i \in DOMAIN todo : todo[i].port = port
        BY <1>4, <3>1
      <3>3. todo[i].mode \in Modes
        BY <1>4, <3>1, <3>2
      <3> QED BY <2>2, <3>2, <3>3 DEF Pending, Driving
    <2> QED BY <1>11, <2>2, <2>3, <2>4
  <1>13. CASE conf.how # "run"
    <2>1. \A port \in Ports : ~ HasMode(file, port)
      BY <1>3, <1>8, <1>13 DEF Ports
    <2>2. Running(p)' => run'[p].alone /\ run'[p].pc = "hung"
      <3>1. CASE r = NotRunning
        BY <1>10, <3>1 DEF Running
      <3>2. CASE r = [pc |-> "hung", alone |-> FALSE, todo |-> <<>>, copy |-> <<>>]
        <4>1. r.pc = "hung" /\ r # NotRunning
          BY <3>2 DEF NotRunning
        <4> QED BY <1>6, <1>10, <4>1
      <3> QED BY <1>2, <1>13, <3>1, <3>2
    <2> QED BY <1>11, <2>1, <2>2
  <1> QED BY <1>12, <1>13

\* What the service does, with nothing else running, ends at the pins the file
\* asks for.
LEMMA WorkBoots ==
  ASSUME LinesInv, LinesInv', FilesTyped, WorkAllTyped, BootInv,
         NEW p \in Procs, Work(p)
  PROVE  BootInv'
  <1> SUFFICES ASSUME undisturbed PROVE BootInv'
    BY DEF Work, BootInv
  <1>0. undisturbed' = undisturbed
    BY DEF Work
  <1>1. Running(p)
    BY DEF Work, UartStep, SedRead, SedRename, SedFails, Export, DriveFirst, DriveSecond,
           Exit, SetdoWrite, GetdiRelease, Running
  <1>2. boot = "up" \/ boot \notin {"service", "up"}
    BY <1>1 DEF BootInv, Quiet
  <1>3. CASE boot \notin {"service", "up"}
    <2>1. boot' = boot
      BY DEF Work, UartStep, SedRead, SedRename, SedFails, Export, DriveFirst, DriveSecond,
             Exit, uartVars
    <2> QED BY <1>3, <2>1 DEF BootInv
  <1>4. CASE boot = "up"
    <2>1. run[p].alone /\ Driving(p) /\ FollowsFile(p)
      <3>1. run[p].alone /\ (run[p].pc = "hung" \/ (Driving(p) /\ FollowsFile(p)))
        BY <1>1, <1>4 DEF BootInv
      <3>2. run[p].pc # "hung"
        BY DEF Work, UartStep, SedRead, SedRename, SedFails, Export, DriveFirst,
               DriveSecond, Exit, SetdoWrite, GetdiRelease
      <3> QED BY <3>1, <3>2
    <2>2. Export(p) \/ DriveFirst(p) \/ DriveSecond(p) \/ Exit(p)
      BY <2>1 DEF Work, UartStep, SedRead, SedRename, SedFails, SetdoWrite, GetdiRelease,
                  Driving
    <2>3. file' = file /\ boot' = boot
      BY <2>2 DEF Export, DriveFirst, DriveSecond, Exit, uartVars
    <2>4. OnlyMoves(p)
      BY <2>2, UartMoves, WhereTo
    <2>5. \A q \in Procs : q # p => ~ Running(q)
      BY <1>1, <2>1 DEF LinesInv, AloneHasLines
    <2>6. \A q \in Procs : q # p => ~ Running(q)'
      BY <2>4, <2>5 DEF OnlyMoves, Running
    <2>7. \/ run'[p].pc = "idle"
          \/ Driving(p)' /\ run'[p].alone /\ FollowsFile(p)'
      <3>1. CASE Export(p)
        BY <2>1, <3>1, ExportDrives, UartMoves, WhereTo DEF Driving
      <3>2. CASE DriveFirst(p)
        BY <2>1, <3>2, FirstDrives, UartMoves, WhereTo DEF Driving
      <3>3. CASE DriveSecond(p)
        BY <2>1, <3>3, SecondDrives, UartMoves, WhereTo DEF Driving
      <3>4. CASE Exit(p)
        BY <3>4, UartMoves, Idle
      <3> QED BY <2>2, <3>1, <3>2, <3>3, <3>4
    <2>8. ASSUME NEW port \in Ports, HasMode(file, port)
          PROVE  Restored(port)' \/ Pending(port)'
      <3>1. \/ PinsLeft(port) \/ Pending(port)'
            \/ \A k \in 1 .. 2 : told'[Pins(port)[k]] = Mark(ModeOf(file, port), k)
        BY <2>1, <2>2, ExportDrives, FirstDrives, SecondDrives, ExitDrives DEF PinsDriven
      <3>2. CASE PinsLeft(port)
        <4>1. Restored(port) \/ Pending(port)
          BY <1>4, <2>8 DEF BootInv
        <4> QED BY <2>3, <3>2, <4>1 DEF PinsLeft, Restored, ModeOf
      <3>3. CASE \A k \in 1 .. 2 : told'[Pins(port)[k]] = Mark(ModeOf(file, port), k)
        <4>1. ASSUME NEW k \in 1 .. 2
              PROVE  gpio'[Pins(port)[k]].level = portMode[ModeOf(file, port) + 1][k]
          <5>1. told'[Pins(port)[k]] = Mark(ModeOf(file, port), k)
            BY <3>3
          <5>2. told'[Pins(port)[k]].tool = "uartmode"
                /\ told'[Pins(port)[k]].level = portMode[ModeOf(file, port) + 1][k]
            BY <5>1 DEF Mark
          <5>3. told'[Pins(port)[k]] # Untold
            BY <5>2 DEF Untold
          <5>4. Pins(port)[k] \in Lines
            BY PinsAreLines
          <5> QED BY <5>2, <5>3, <5>4 DEF LinesInv, PinsAsTold
        <4> QED BY <2>3, <4>1 DEF Restored, ModeOf
      <3> QED BY <3>1, <3>2, <3>3
    <2>9. \A port \in Ports : HasMode(file, port)' => Restored(port)' \/ Pending(port)'
      BY <2>3, <2>8 DEF HasMode, ModeOf
    <2> QED BY <1>4, <2>3, <2>6, <2>7, <2>9 DEF BootInv, Running
  <1> QED BY <1>2, <1>3, <1>4

LEMMA NextBoot ==
  ASSUME LinesInv, FilesTyped, TypeOK, BootInv, [Next]_vars
  PROVE  BootInv'
  <1>0. LinesInv'
    BY NextInv
  <1>1. WorkAllTyped
    BY TypeOKParts DEF FilesTyped, WorkAllTyped, WorkTyped
  <1>2. ASSUME NEW p \in Procs, Command(p)
        PROVE  BootInv'
    BY <1>2 DEF Command, BootInv
  <1>3. ASSUME NEW p \in Procs, Work(p)
        PROVE  BootInv'
    BY <1>0, <1>1, <1>3, WorkBoots
  <1>4. ASSUME NEW p \in Procs, Service(p)
        PROVE  BootInv'
    BY <1>4, ServiceBoots
  <1>5. ASSUME UNCHANGED <<gpio, run, told, file, boot, undisturbed>>
        PROVE  BootInv'
    BY <1>5, SMTT(60) DEF BootInv, Quiet, Running, Driving, FollowsFile, HasMode, ModeOf,
                          Restored, Pending
  <1>6. CASE PowerCut /\ undisturbed' = TRUE
    BY <1>6 DEF PowerCut, PowerLost, BootInv, Quiet, Running, NotRunning
  <1> QED BY <1>2, <1>3, <1>4, <1>5, <1>6 DEF Next, Flush, vars

\* The service brings every port that has a mode to it: each is at its mode, or is
\* still on the service's list, and nothing runs beside the service.
THEOREM BootInvariant == Spec => []BootInv
  <1>1. Init => LinesInv /\ FilesTyped /\ TypeOK /\ BootInv
    BY InitInv, InitTyped, InitBoot
  <1>2. LinesInv /\ FilesTyped /\ TypeOK /\ BootInv /\ [Next]_vars
          => (LinesInv /\ FilesTyped /\ TypeOK /\ BootInv)'
    BY NextInv, NextTyped, NextBoot
  <1> QED BY <1>1, <1>2, PTL DEF Spec

\* A boot during which nobody runs a command ends with the pins of each port at
\* the mode of the file, whatever the file holds and whenever the power was cut.
THEOREM BootAlwaysRestores == Spec => []BootRestores
  <1>1. BootInv => BootRestores
    <2> SUFFICES ASSUME BootInv, undisturbed, boot = "up", Quiet, NEW port \in Ports,
                        port < loadconf(file).portnums, ModeOf(file, port) \in Modes
        PROVE  \A k \in 1 .. 2 :
                 gpio[Pins(port)[k]].level = portMode[ModeOf(file, port) + 1][k]
      BY DEF BootRestores
    <2>1. ~ Pending(port)
      BY DEF Pending, Driving, Quiet, Running
    <2> QED BY <2>1 DEF BootInv, HasMode, Restored
  <1> QED BY <1>1, BootInvariant, PTL
-----------------------------------------------------------------------------
(***************************************************************************)
(* An update of the file.                                                  *)
(***************************************************************************)

LEMMA WordsOfLines ==
  ASSUME NEW k \in Tokens
  PROVE  /\ k.t = "word" => k = Word(k.w)
         /\ \A w : k = Word(w) <=> k.t = "word" /\ k.w = w
  <1>1. k.t = "word" => k = [t |-> "word", w |-> k.w, n |-> 0]
    BY DEF Tokens, Symbols
  <1>2. k.t = "word" => k = Word(k.w)
    BY <1>1 DEF Word, Tok
  <1>3. \A w : k = Word(w) => k.t = "word" /\ k.w = w
    BY DEF Word, Tok
  <1> QED BY <1>2, <1>3

\* sed changes a line of a tidy text only if it is a pair of the port, and then
\* to a pair with the new mode.
LEMMA SedTidyLine ==
  ASSUME NEW line \in Seq(Tokens), NEW port \in 0 .. 5, NEW mode \in Int,
         IsHeader(line) => line[2].w # PortKey[port + 1]
  PROVE  /\ IsBlank(line) \/ IsHeader(line) => SedLine(line, port, mode) = line
         /\ IsPair(line) =>
              LET new == SedLine(line, port, mode)
              IN /\ IsPair(new) /\ new[1] = line[1]
                 /\ new[3] = IF line[1].w = PortKey[port + 1] THEN Num(mode) ELSE line[3]
  <1> DEFINE key == PortKey[port + 1]
             new == SedLine(line, port, mode)
             pair == <<Word(key), Sym("="), Num(mode)>>
  <1>1. /\ \A i \in DOMAIN line : line[i] \in Tokens
        /\ DOMAIN line = 1 .. Len(line) /\ Len(line) \in Nat
    OBVIOUS
  <1>2. \A i \in DOMAIN line : line[i] = Word(key) <=> line[i].t = "word" /\ line[i].w = key
    BY <1>1, WordsOfLines
  <1> HIDE DEF key
  <1>3. ASSUME IsBlank(line), NEW i \in DOMAIN line PROVE line[i] # Word(key)
    <2>1. line = <<Sym("#")>> /\ i = 1
      BY <1>1, <1>3 DEF IsBlank
    <2>2. line[i].t = "#"
      BY <2>1 DEF Sym, Tok
    <2> QED BY <2>2, <1>2
  <1>4. ASSUME IsHeader(line), NEW i \in DOMAIN line PROVE line[i] # Word(key)
    <2>1. line[1].t = "[" /\ line[3].t = "]" /\ line[2].w # key /\ i \in 1 .. 3
      BY <1>1, <1>4 DEF IsHeader, key
    <2> QED BY <2>1, <1>2
  <1>5. IsBlank(line) \/ IsHeader(line) => new = line
    BY <1>3, <1>4, SedMiss DEF key
  <1>6. ASSUME IsPair(line) PROVE 1 \in DOMAIN line /\ line[1].t = "word"
                                  /\ \A i \in DOMAIN line : i # 1 => line[i].t # "word"
    BY <1>1, <1>6 DEF IsPair, IsValue
  <1>7. ASSUME IsPair(line), line[1].w # key PROVE new = line
    <2>1. \A i \in DOMAIN line : line[i] # Word(key)
      BY <1>2, <1>6, <1>7
    <2> QED BY <2>1, SedMiss DEF key
  <1>8. ASSUME IsPair(line), line[1].w = key PROVE new = pair /\ line[1] = Word(key)
    <2>1. line[1] = Word(key)
      BY <1>2, <1>6, <1>8
    <2>2. PICK first \in DOMAIN line :
            /\ line[first] = Word(key)
            /\ new = SubSeq(line, 1, first - 1) \o pair
      BY <1>6, <1>8, <2>1, SedHit DEF key
    <2>3. first = 1
      BY <1>2, <1>6, <1>8, <2>2
    <2>4. SubSeq(line, 1, 0) = <<>> /\ first - 1 = 0
      BY <1>1, <2>3
    <2>5. new = SubSeq(line, 1, 0) \o pair
      <3> HIDE DEF new, pair
      <3> QED BY <2>2, <2>4
    <2>6. <<>> \o pair = pair
      OBVIOUS
    <2> HIDE DEF new, pair
    <2> QED BY <2>1, <2>4, <2>5, <2>6
  <1>9. IsPair(pair) /\ pair[1] = Word(key) /\ pair[3] = Num(mode)
    BY DEF IsPair, IsValue, Word, Sym, Num, Tok
  <1> QED BY <1>5, <1>7, <1>8, <1>9 DEF key

\* new is text with another mode in each pair of the port.
Renewed(text, new, port, mode) ==
  \A i \in 1 .. Len(text) :
    /\ IsHeader(new[i]) <=> IsHeader(text[i])
    /\ IsHeader(text[i]) => new[i] = text[i]
    /\ IsPair(new[i]) <=> IsPair(text[i])
    /\ IsPair(text[i]) =>
         /\ new[i][1] = text[i][1]
         /\ new[i][3] = IF text[i][1].w = PortKey[port + 1] THEN Num(mode) ELSE text[i][3]

LEMMA SectionKept ==
  ASSUME NEW text, NEW new, NEW i \in Nat,
         \A j \in 1 .. i : IsHeader(new[j]) <=> IsHeader(text[j]),
         \A j \in 1 .. i : IsHeader(text[j]) => new[j] = text[j]
  PROVE  SectionOf(new, i) = SectionOf(text, i)
  <1> DEFINE H(t) == {j \in 1 .. i : IsHeader(t[j])}
             L(A) == CHOOSE j \in A : \A h \in A : h <= j
  <1>1. H(new) = H(text) /\ \A j \in H(text) : new[j] = text[j]
    <2>1. \A j : j \in H(new) <=> j \in H(text)
      OBVIOUS
    <2>2. \A j \in H(text) : new[j] = text[j]
      OBVIOUS
    <2> HIDE DEF H
    <2> QED BY <2>1, <2>2
  <1>2. ASSUME H(text) # {} PROVE L(H(text)) \in H(text)
    <2> DEFINE Back == {n \in Nat : \E j \in H(text) : n = i - j}
    <2>1. PICK j \in H(text) : TRUE
      BY <1>2
    <2>2. i - j \in Back
      OBVIOUS
    <2>3. PICK n \in Back : \A m \in Back : n <= m
      <3> HIDE DEF Back
      <3>1. Back \in SUBSET Nat
        BY DEF Back
      <3> QED BY <2>2, <3>1, LeastOf
    <2>4. PICK k \in H(text) : n = i - k
      BY <2>3
    <2>5. \A h \in H(text) : h <= k
      <3> TAKE h \in H(text)
      <3>1. i - h \in Back
        OBVIOUS
      <3>2. n <= i - h
        BY <2>3, <3>1
      <3> QED BY <2>4, <3>2
    <2> HIDE DEF H
    <2> QED BY <2>5
  <1>3. /\ SectionOf(new, i) = IF H(new) = {} THEN Root ELSE <<new[L(H(new))][2].w>>
        /\ SectionOf(text, i) = IF H(text) = {} THEN Root ELSE <<text[L(H(text))][2].w>>
    BY DEF SectionOf
  <1> HIDE DEF H, L
  <1> QED BY <1>1, <1>2, <1>3

\* A renewed line is named as it was.
LEMMA NamesKept ==
  ASSUME NEW text \in Texts, NEW new, NEW port, NEW mode, Renewed(text, new, port, mode),
         NEW i \in 1 .. Len(text), IsHeader(text[i]) \/ IsPair(text[i])
  PROVE  NameOf(new, i) = NameOf(text, i)
  <1>1. SectionOf(new, i) = SectionOf(text, i)
    <2>1. i \in Nat /\ \A j \in 1 .. i : j \in 1 .. Len(text)
      BY DEF Texts
    <2> QED BY <2>1, SectionKept DEF Renewed
  <1>2. CASE IsHeader(text[i])
    BY <1>2 DEF Renewed, NameOf
  <1>3. CASE IsPair(text[i]) /\ ~ IsHeader(text[i])
    BY <1>1, <1>3 DEF Renewed, NameOf
  <1> QED BY <1>2, <1>3

LEMMA SedTidy ==
  ASSUME NEW text \in Texts, Tidy(text), NEW port \in 0 .. 5, NEW mode \in Int
  PROVE  /\ Tidy(Sed(text, port, mode))
         /\ Renewed(text, Sed(text, port, mode), port, mode)
  <1> DEFINE new == Sed(text, port, mode)
  <1>1. /\ new \in Texts /\ DOMAIN new = DOMAIN text
        /\ \A i \in DOMAIN text : new[i] = SedLine(text[i], port, mode)
    BY SedTyped
  <1>2. ASSUME NEW i \in DOMAIN text
        PROVE  /\ text[i] \in Seq(Tokens)
               /\ IsBlank(text[i]) \/ IsHeader(text[i]) \/ IsPair(text[i])
               /\ IsHeader(text[i]) => text[i][2].w # PortKey[port + 1]
    BY <1>2 DEF Texts, Tidy, IsLegal, MAX_PORTS
  <1> HIDE DEF new
  <1>3. ASSUME NEW i \in DOMAIN text
        PROVE  /\ IsBlank(text[i]) \/ IsHeader(text[i]) => new[i] = text[i]
               /\ IsPair(text[i]) =>
                    /\ IsPair(new[i]) /\ new[i][1] = text[i][1]
                    /\ new[i][3] = IF text[i][1].w = PortKey[port + 1]
                                     THEN Num(mode) ELSE text[i][3]
    BY <1>1, <1>2, SedTidyLine
  <1>4. ASSUME NEW i \in DOMAIN text
        PROVE  /\ IsBlank(new[i]) \/ IsHeader(new[i]) \/ IsPair(new[i])
               /\ IsHeader(new[i]) <=> IsHeader(text[i])
               /\ IsPair(new[i]) <=> IsPair(text[i])
    BY <1>2, <1>3, KindsOfLines
  <1>5. DOMAIN text = 1 .. Len(text)
    BY DEF Texts
  <1>6. Renewed(text, new, port, mode)
    BY <1>3, <1>4, <1>5 DEF Renewed
  <1>7. ASSUME NEW i \in DOMAIN text, NEW j \in DOMAIN text,
               ~ IsBlank(new[i]), ~ IsBlank(new[j]), i # j
        PROVE  NameOf(new, i) # NameOf(new, j)
    <2>1. ~ IsBlank(text[i]) /\ ~ IsBlank(text[j])
      BY <1>3, <1>7
    <2>2. NameOf(new, i) = NameOf(text, i) /\ NameOf(new, j) = NameOf(text, j)
      BY <1>2, <1>5, <1>6, <2>1, NamesKept
    <2> QED BY <1>2, <1>7, <2>1, <2>2, NamedOnce DEF Tidy
  <1>8. IsLegal(new)
    BY <1>1, <1>4, <1>7 DEF IsLegal
  <1>9. Tidy(new)
    BY <1>1, <1>3, <1>4, <1>8 DEF Tidy
  <1> QED BY <1>6, <1>9 DEF new

\* The parser reads the same tables and keys, and the new mode behind each key
\* of the port.
LEMMA SedParsed ==
  ASSUME NEW text \in Texts, Tidy(text), NEW port \in 0 .. 5, NEW mode \in Int
  PROVE  LET s == Parse(text)
             r == Parse(Sed(text, port, mode))
         IN /\ s.at \in {"parse", "keys"} /\ r.at \in {"parse", "keys"}
            /\ r.tabs = s.tabs /\ DOMAIN r.keys = DOMAIN s.keys
            /\ \A name \in DOMAIN s.keys :
                 r.keys[name] = IF name[2] = PortKey[port + 1]
                                  THEN Num(mode) ELSE s.keys[name]
  <1> DEFINE new == Sed(text, port, mode)
             s == Parse(text)
             r == Parse(new)
             Heads(t) == {h \in 1 .. Len(text) : IsHeader(t[h])}
             Tabs(t) == {<<t[j][2].w>> : j \in Heads(t)}
  <1>1. /\ new \in Texts /\ DOMAIN new = DOMAIN text /\ Len(new) = Len(text)
        /\ Len(text) \in Nat /\ DOMAIN text = 1 .. Len(text)
    BY SedTyped DEF Texts
  <1>2. Tidy(new) /\ Renewed(text, new, port, mode)
    BY SedTidy
  <1> HIDE DEF new
  <1>3. IsLegal(text) /\ IsLegal(new)
    BY <1>2 DEF Tidy
  <1>4. Read(s, text, Len(text)) /\ Read(r, new, Len(text))
    BY <1>1, <1>3, LegalTextRead
  <1>5. Tabs(new) = Tabs(text)
    <2>1. Heads(new) = Heads(text)
      BY <1>2 DEF Renewed
    <2>2. \A j \in Heads(text) : new[j] = text[j]
      BY <1>2 DEF Renewed
    <2> HIDE DEF Heads
    <2> QED BY <2>1, <2>2
  <1>6. r.tabs = s.tabs
    BY <1>4, <1>5 DEF Read
  <1>7. /\ PairsTo(new, Len(text)) = PairsTo(text, Len(text))
        /\ \A i \in PairsTo(text, Len(text)) : NameOf(new, i) = NameOf(text, i)
    <2>1. PairsTo(new, Len(text)) = PairsTo(text, Len(text))
      BY <1>2 DEF Renewed, PairsTo
    <2>2. \A i \in PairsTo(text, Len(text)) : i \in 1 .. Len(text) /\ IsPair(text[i])
      BY DEF PairsTo
    <2> QED BY <1>2, <2>1, <2>2, NamesKept
  <1>8. DOMAIN r.keys = DOMAIN s.keys
    BY <1>4, <1>7 DEF Read
  <1>9. ASSUME NEW name \in DOMAIN s.keys
        PROVE  r.keys[name] = IF name[2] = PortKey[port + 1]
                                THEN Num(mode) ELSE s.keys[name]
    <2>1. PICK i \in PairsTo(text, Len(text)) : NameOf(text, i) = name
      BY <1>4 DEF Read
    <2>2. s.keys[name] = text[i][3] /\ r.keys[name] = new[i][3]
      BY <1>4, <1>7, <2>1 DEF Read
    <2>3. i \in 1 .. Len(text) /\ IsPair(text[i]) /\ ~ IsHeader(text[i])
      BY KindsOfLines DEF PairsTo
    <2>4. name[2] = text[i][1].w
      BY <2>1, <2>3 DEF NameOf
    <2> QED BY <1>2, <2>2, <2>3, <2>4 DEF Renewed
  <1>10. s.at \in {"parse", "keys"} /\ r.at \in {"parse", "keys"}
    BY <1>4 DEF Read, Between
  <1> QED BY <1>6, <1>8, <1>9, <1>10 DEF new

\* loadconf of a text the parser took.
PortNums(t) == GetInteger(t, <<"UART">>, "portnums")

Whole(t) ==
  /\ HasTable(t, <<"UART">>) /\ HasInteger(t, <<"UART">>, "portnums")
  /\ HasTable(t, <<"MODE">>)
  /\ \A i \in 0 .. 5 : i < PortNums(t) => HasInteger(t, <<"MODE">>, PortKey[i + 1])

ModesOf(t) ==
  [i \in 0 .. 5 |-> IF i < PortNums(t) THEN GetInteger(t, <<"MODE">>, PortKey[i + 1]) ELSE 0]

LEMMA LoadTaken ==
  ASSUME NEW text, Parse(text).at \in {"parse", "keys"}
  PROVE  /\ Whole(Parse(text)) =>
              loadconf(text) = [how |-> "run", portnums |-> PortNums(Parse(text)),
                                mode |-> ModesOf(Parse(text))]
         /\ ~ Whole(Parse(text)) => loadconf(text).how = "abort"
  <1> DEFINE t == Parse(text)
             n == GetInteger(t, <<"UART">>, "portnums")
             read == {i \in 0 .. MAX_PORTS - 1 : i < n}
             whole == /\ HasTable(t, <<"UART">>) /\ HasInteger(t, <<"UART">>, "portnums")
                      /\ HasTable(t, <<"MODE">>)
                      /\ \A i \in read : HasInteger(t, <<"MODE">>, PortKey[i + 1])
             got == [i \in 0 .. MAX_PORTS - 1 |->
                      IF i \in read THEN GetInteger(t, <<"MODE">>, PortKey[i + 1]) ELSE 0]
  <1>1. 0 .. MAX_PORTS - 1 = 0 .. 5
    BY DEF MAX_PORTS
  <1>2. whole <=> Whole(t)
    BY <1>1 DEF Whole, PortNums
  <1>3. got = ModesOf(t)
    BY <1>1 DEF ModesOf, PortNums
  <1>4. loadconf(text) =
          CASE t.at = "null" -> NoConf
            [] t.at = "hang" -> [NoConf EXCEPT !.how = "hang"]
            [] t.at = "abort" \/ (t.at \in {"parse", "keys"} /\ ~ whole) ->
                 [NoConf EXCEPT !.how = "abort"]
            [] OTHER -> [how |-> "run", portnums |-> n, mode |-> got]
    BY DEF loadconf, Taken
  <1> HIDE DEF t, whole, got
  <1>5. t.at \in {"parse", "keys"}
    BY DEF t
  <1>6. whole => loadconf(text) = [how |-> "run", portnums |-> n, mode |-> got]
    BY <1>4, <1>5
  <1>7. ~ whole => loadconf(text) = [NoConf EXCEPT !.how = "abort"]
    BY <1>4, <1>5
  <1>8. [NoConf EXCEPT !.how = "abort"].how = "abort"
    BY DEF NoConf
  <1>9. n = PortNums(t)
    BY DEF PortNums
  <1> QED BY <1>2, <1>3, <1>6, <1>7, <1>8, <1>9 DEF t

\* The update of a port that the file has changes what is loaded for the port
\* and nothing else.
LEMMA SedLoads ==
  ASSUME NEW text \in Texts, Tidy(text), NEW port \in 0 .. 5, NEW mode \in Int,
         loadconf(text).how = "run", port < loadconf(text).portnums
  PROVE  loadconf(Sed(text, port, mode)) =
           [how |-> "run", portnums |-> loadconf(text).portnums,
            mode |-> [loadconf(text).mode EXCEPT ![port] = mode]]
  <1> DEFINE new == Sed(text, port, mode)
             s == Parse(text)
             r == Parse(new)
             UART == <<"UART">>
             MODE == <<"MODE">>
  <1>1. /\ s.at \in {"parse", "keys"} /\ r.at \in {"parse", "keys"}
        /\ r.tabs = s.tabs /\ DOMAIN r.keys = DOMAIN s.keys
        /\ \A name \in DOMAIN s.keys :
             r.keys[name] = IF name[2] = PortKey[port + 1] THEN Num(mode) ELSE s.keys[name]
    BY SedParsed
  <1>2. /\ Whole(s)
        /\ loadconf(text) = [how |-> "run", portnums |-> PortNums(s), mode |-> ModesOf(s)]
    BY <1>1, LoadTaken
  <1>3. Whole(r) => loadconf(new) = [how |-> "run", portnums |-> PortNums(r),
                                     mode |-> ModesOf(r)]
    BY <1>1, LoadTaken
  <1> HIDE DEF r, s, new, UART, MODE
  <1>4. ASSUME NEW sec, NEW key, <<sec, key>> \in DOMAIN s.keys
        PROVE  /\ key # PortKey[port + 1] => r.keys[<<sec, key>>] = s.keys[<<sec, key>>]
               /\ key = PortKey[port + 1] => r.keys[<<sec, key>>] = Num(mode)
    <2>1. <<sec, key>>[2] = key
      OBVIOUS
    <2> QED BY <1>1, <1>4, <2>1
  <1>5. Num(mode).t = "int" /\ Num(mode).n = mode
    BY DEF Num, Tok
  <1>6. ASSUME NEW sec, NEW key, HasInteger(s, sec, key)
        PROVE  /\ HasInteger(r, sec, key)
               /\ GetInteger(r, sec, key) =
                    IF key = PortKey[port + 1] THEN mode ELSE GetInteger(s, sec, key)
    BY <1>1, <1>4, <1>5, <1>6 DEF HasInteger, GetInteger
  <1>7. PortNums(r) = PortNums(s) /\ HasInteger(r, UART, "portnums")
    BY <1>2, <1>6, PortKeys DEF PortNums, Whole, UART
  <1>8. \A i \in 0 .. 5 : i < PortNums(s) =>
          /\ HasInteger(r, MODE, PortKey[i + 1])
          /\ GetInteger(r, MODE, PortKey[i + 1]) =
               IF i = port THEN mode ELSE GetInteger(s, MODE, PortKey[i + 1])
    BY <1>2, <1>6, PortKeys DEF Whole, MODE
  <1>9. HasTable(r, UART) /\ HasTable(r, MODE)
    BY <1>1, <1>2 DEF Whole, HasTable, UART, MODE
  <1>10. Whole(r)
    BY <1>7, <1>8, <1>9 DEF Whole, UART, MODE
  <1>11. port < PortNums(s)
    BY <1>2
  <1>12. ModesOf(r) = [ModesOf(s) EXCEPT ![port] = mode]
    BY <1>7, <1>8, <1>11 DEF ModesOf, MODE
  <1> QED BY <1>2, <1>3, <1>7, <1>10, <1>12 DEF new

LEMMA SedElsewhere ==
  ASSUME NEW text \in Texts, NEW port, port \notin 0 .. 5, NEW mode
  PROVE  Sed(text, port, mode) = text
  <1>1. \A i \in DOMAIN text : SedLine(text[i], port, mode) = text[i]
    BY SedMiss
  <1>2. text = [i \in DOMAIN text |-> text[i]]
    BY DEF Texts
  <1> QED BY <1>1, <1>2 DEF Sed

-----------------------------------------------------------------------------
(***************************************************************************)
(* The file and the pins.                                                  *)
(***************************************************************************)

TidyVersions == \A v \in Versions : Tidy(v)

LEMMA InitAgree ==
  ASSUME \A text \in Files : Tidy(text), Init
  PROVE  AgreeInv /\ TidyVersions
  <1>1. /\ file \in Files /\ disk = file /\ boot = "service"
        /\ \A p \in Procs : run[p].pc = "idle"
        /\ \A l \in Lines : told[l] = Untold
    BY DEF Init, GpioInit, UartInit, NotRunning
  <1>2. Copies = {} /\ Versions = {file}
    BY <1>1 DEF Copies, Versions
  <1>3. VersionsAlike /\ SetsKnown /\ AloneFollows
    BY <1>1, <1>2 DEF VersionsAlike, SetsKnown, AloneFollows, Driving
  <1>4. CopiesAgree
    BY <1>1, PinsAreLines DEF CopiesAgree, PinsAgree, Untold
  <1> QED BY <1>1, <1>2, <1>3, <1>4 DEF AgreeInv, TidyVersions

\* The pins of port agree with a text as before where nobody touched them, or
\* where somebody did or will.
LEMMA AgreeKept ==
  ASSUME NEW v, NEW port \in Ports, PinsAgree(v, port),
         \/ (/\ Pending(port) => Pending(port)'
             /\ \A k \in 1 .. 2 : told'[Pins(port)[k]] = told[Pins(port)[k]])
         \/ Pending(port)'
         \/ \E k \in 1 .. 2 : told'[Pins(port)[k]].tool # "uartmode"
  PROVE  PinsAgree(v, port)'
  <1>1. CASE \E k \in 1 .. 2 : told'[Pins(port)[k]].tool # "uartmode"
    <2>1. told'[Pins(port)[1]].tool # "uartmode" \/ told'[Pins(port)[2]].tool # "uartmode"
      BY <1>1
    <2> QED BY <2>1 DEF PinsAgree
  <1>2. CASE Pending(port)'
    BY <1>2 DEF PinsAgree
  <1>3. CASE /\ Pending(port) => Pending(port)'
             /\ \A k \in 1 .. 2 : told'[Pins(port)[k]] = told[Pins(port)[k]]
    <2>1. /\ told'[Pins(port)[1]] = told[Pins(port)[1]]
          /\ told'[Pins(port)[2]] = told[Pins(port)[2]]
      BY <1>3
    <2>2. CASE Pending(port)'
      BY <2>2 DEF PinsAgree
    <2>3. CASE ~ Pending(port)
      BY <1>3, <2>1, <2>3 DEF PinsAgree, ModeOf
    <2> QED BY <1>3, <2>2, <2>3
  <1> QED BY <1>1, <1>2, <1>3

\* A step of p that leaves the file alone adds no version, unless p has just
\* copied the file.
LEMMA SameVersions ==
  ASSUME NEW p \in Procs, OnlyMoves(p), UNCHANGED <<file, disk>>,
         run'[p].pc = "rename" => run'[p].copy = file
  PROVE  /\ \A v : v \in Copies' => v \in {file} \cup Copies
         /\ \A v : v \in Versions' => v \in Versions
  <1>1. ASSUME NEW v, v \in Copies' PROVE v \in {file} \cup Copies
    <2>1. PICK q \in Procs : run'[q].pc = "rename" /\ run'[q].copy = v
      BY <1>1 DEF Copies
    <2>2. CASE q = p
      BY <2>1, <2>2
    <2>3. CASE q # p
      <3>1. run[q].pc = "rename" /\ run[q].copy = v
        BY <2>1, <2>3 DEF OnlyMoves
      <3> QED BY <3>1 DEF Copies
    <2> QED BY <2>2, <2>3
  <1> QED BY <1>1 DEF Versions

\* What holds of the versions stays where the file does.
LEMMA VersionsStay ==
  ASSUME AgreeInv, TidyVersions, NEW p \in Procs, OnlyMoves(p), UNCHANGED <<file, disk>>,
         run'[p].pc = "rename" => run'[p].copy = file,
         run'[p].pc \in {"sed", "rename"} =>
           /\ loadconf(file).how = "run"
           /\ Len(run'[p].todo) = 1
           /\ run'[p].todo[1].port < loadconf(file).portnums
           /\ run'[p].todo[1].port < MAX_PORTS
  PROVE  VersionsAlike' /\ SetsKnown' /\ TidyVersions'
  <1>1. \A v : v \in Versions' => v \in Versions
    BY SameVersions
  <1>2. VersionsAlike' /\ TidyVersions'
    BY <1>1 DEF AgreeInv, VersionsAlike, TidyVersions
  <1>3. ASSUME NEW q \in Procs, run'[q].pc \in {"sed", "rename"}
        PROVE  /\ loadconf(file).how = "run"
               /\ Len(run'[q].todo) = 1
               /\ run'[q].todo[1].port < loadconf(file).portnums
               /\ run'[q].todo[1].port < MAX_PORTS
    <2>1. CASE q = p
      BY <1>3, <2>1
    <2>2. CASE q # p
      <3>1. run'[q].pc = run[q].pc /\ run'[q].todo = run[q].todo
        BY <2>2 DEF OnlyMoves
      <3> QED BY <1>3, <3>1 DEF AgreeInv, SetsKnown
    <2> QED BY <2>1, <2>2
  <1>4. SetsKnown'
    BY <1>3 DEF SetsKnown
  <1> QED BY <1>2, <1>4

\* A program that works runs beside whoever loses its solitude.
LEMMA WorkFollows ==
  ASSUME LinesInv, NEW p \in Procs, OnlyMoves(p), Running(p),
         run'[p].alone /\ Driving(p)' => FollowsFile(p)'
  PROVE  AloneFollows'
  <1>1. ASSUME NEW q \in Procs, q # p, run'[q].alone, Driving(q)' PROVE FALSE
    <2>1. run[q].alone /\ Running(q)
      BY <1>1 DEF OnlyMoves, Driving, Running
    <2>2. p = q
      BY <2>1 DEF LinesInv, AloneHasLines
    <2> QED BY <1>1, <2>2
  <1> QED BY <1>1 DEF AloneFollows

\* A program starts, or ends at once.
LEMMA LaunchAgrees ==
  ASSUME LinesInv, AgreeInv, TidyVersions, NEW p \in Procs,
         OnlyMoves(p), run[p].pc = "idle", UNCHANGED <<told, file, disk>>,
         run'[p].pc \in {"idle", "hung", "sed", "export", "write", "slept", "reading"},
         run'[p].pc = "sed" =>
           /\ loadconf(file).how = "run"
           /\ Len(run'[p].todo) = 1
           /\ run'[p].todo[1].port < loadconf(file).portnums
           /\ run'[p].todo[1].port < MAX_PORTS,
         run'[p].pc = "export" => \A i \in DOMAIN run'[p].todo :
           run'[p].todo[i].port \in Ports =>
             run'[p].todo[i].mode = ModeOf(file, run'[p].todo[i].port)
  PROVE  AgreeInv' /\ TidyVersions'
  <1>1. VersionsAlike' /\ SetsKnown' /\ TidyVersions'
    BY VersionsStay
  <1>2. ASSUME NEW q \in Procs, run'[q].alone, Driving(q)' PROVE FollowsFile(q)'
    <2>1. CASE q = p
      BY <1>2, <2>1 DEF Driving, FollowsFile, ModeOf
    <2>2. CASE q # p
      <3>1. /\ run'[q].pc = run[q].pc /\ run'[q].todo = run[q].todo
            /\ run[q].alone
        BY <1>2, <2>2 DEF OnlyMoves
      <3>2. FollowsFile(q)
        BY <1>2, <3>1 DEF AgreeInv, AloneFollows, Driving
      <3> QED BY <3>1, <3>2 DEF FollowsFile, ModeOf
    <2> QED BY <2>1, <2>2
  <1>3. AloneFollows'
    BY <1>2 DEF AloneFollows
  <1>4. ASSUME NEW port, Pending(port) PROVE Pending(port)'
    BY <1>4, PendingStays DEF PendingAt, Driving
  <1>5. ASSUME NEW v, v \in {file} \cup Copies', NEW port \in Ports PROVE PinsAgree(v, port)'
    <2>1. v \in {file} \cup Copies
      BY <1>5, SameVersions
    <2>2. PinsAgree(v, port)
      BY <2>1 DEF AgreeInv, CopiesAgree
    <2> QED BY <1>4, <2>2, AgreeKept
  <1>6. CopiesAgree'
    BY <1>5 DEF CopiesAgree
  <1> QED BY <1>1, <1>3, <1>6 DEF AgreeInv

LEMMA UartmodeAgrees ==
  ASSUME LinesInv, FilesTyped, AgreeInv, TidyVersions, NEW p \in Procs,
         NEW argv \in Seq(Opts), NEW root, Launch(p, Plan(argv, root)),
         UNCHANGED <<told, file, disk>>
  PROVE  AgreeInv' /\ TidyVersions'
  <1> DEFINE r == Plan(argv, root)
             conf == loadconf(file)
             todo == [i \in 1 .. WithPins(conf.portnums) |->
                        [port |-> i - 1, mode |-> conf.mode[i - 1]]]
  <1>1. /\ r = Fields(r) /\ r.alone = FALSE
        /\ r = NotRunning \/ r.pc \in {"hung", "sed", "export"}
        /\ Launch(p, r)
    BY Planned
  <1>2. \/ r = NotRunning
        \/ r = [pc |-> "hung", alone |-> FALSE, todo |-> <<>>, copy |-> <<>>]
        \/ \E port, mode \in Int :
             /\ r = [pc |-> "sed", alone |-> FALSE, copy |-> <<>>,
                      todo |-> <<[port |-> port, mode |-> mode]>>]
             /\ conf.how = "run" /\ port < conf.portnums /\ port < MAX_PORTS
        \/ r = [pc |-> "export", alone |-> FALSE, copy |-> <<>>, todo |-> todo]
    BY Plans
  <1>3. conf \in Confs
    BY ConfTyped DEF FilesTyped
  <1>4. \A i \in DOMAIN todo : todo[i].port \in Ports
                              /\ todo[i].mode = conf.mode[todo[i].port]
    BY <1>3, PortsListed
  <1> HIDE DEF r, conf, todo
  <1>5. /\ OnlyMoves(p) /\ run[p].pc = "idle"
        /\ r = NotRunning => run'[p] = run[p]
        /\ r # NotRunning => run'[p].pc = r.pc /\ run'[p].todo = r.todo
    <2>1. r # NotRunning => r.pc # "idle"
      BY <1>1
    <2> QED BY <1>1, <2>1, Launched DEF LinesInv
  <1>6. CASE r = NotRunning
    BY <1>5, <1>6, LaunchAgrees
  <1>7. CASE r = [pc |-> "hung", alone |-> FALSE, todo |-> <<>>, copy |-> <<>>]
    <2>1. r.pc = "hung" /\ r # NotRunning
      BY <1>7 DEF NotRunning
    <2> QED BY <1>5, <2>1, LaunchAgrees
  <1>8. CASE \E port, mode \in Int :
               /\ r = [pc |-> "sed", alone |-> FALSE, copy |-> <<>>,
                        todo |-> <<[port |-> port, mode |-> mode]>>]
               /\ conf.how = "run" /\ port < conf.portnums /\ port < MAX_PORTS
    <2>1. PICK port \in Int, mode \in Int :
            /\ r = [pc |-> "sed", alone |-> FALSE, copy |-> <<>>,
                     todo |-> <<[port |-> port, mode |-> mode]>>]
            /\ conf.how = "run" /\ port < conf.portnums /\ port < MAX_PORTS
      BY <1>8
    <2>2. r.pc = "sed" /\ r # NotRunning /\ r.todo = <<[port |-> port, mode |-> mode]>>
      BY <2>1 DEF NotRunning
    <2>3. Len(r.todo) = 1 /\ r.todo[1].port = port
      BY <2>2
    <2> QED BY <1>5, <2>1, <2>2, <2>3, LaunchAgrees DEF conf
  <1>9. CASE r = [pc |-> "export", alone |-> FALSE, copy |-> <<>>, todo |-> todo]
    <2>1. r.pc = "export" /\ r # NotRunning /\ r.todo = todo
      BY <1>9 DEF NotRunning
    <2>2. \A i \in DOMAIN todo : todo[i].mode = ModeOf(file, todo[i].port)
      BY <1>4 DEF ModeOf, conf
    <2> QED BY <1>5, <2>1, <2>2, LaunchAgrees
  <1> QED BY <1>2, <1>6, <1>7, <1>8, <1>9

LEMMA SetdoAgrees ==
  ASSUME LinesInv, AgreeInv, TidyVersions, NEW p \in Procs, NEW argv, Setdo(p, argv),
         UNCHANGED <<file, disk>>
  PROVE  AgreeInv' /\ TidyVersions'
  <1> DEFINE plan == SetdoPlan(argv)
  <1>1. Launch(p, plan) /\ told' = told
    BY DEF Setdo
  <1>2. CASE plan = NotRunning
    <2>1. OnlyMoves(p) /\ run[p].pc = "idle" /\ run'[p] = run[p]
      BY <1>1, <1>2, Launched, Idle DEF LinesInv
    <2> QED BY <1>1, <2>1, LaunchAgrees
  <1>3. CASE plan # NotRunning
    <2>1. plan.pc \in {"write", "slept"} /\ plan = Fields(plan) /\ plan.alone = FALSE
      BY <1>3, SetdoPlanned
    <2> HIDE DEF plan
    <2>2. OnlyMoves(p) /\ run[p].pc = "idle" /\ run'[p].pc = plan.pc
      BY <1>1, <1>3, <2>1, Launched DEF LinesInv
    <2> QED BY <1>1, <2>1, <2>2, LaunchAgrees
  <1> QED BY <1>2, <1>3

LEMMA GetdiAgrees ==
  ASSUME LinesInv, AgreeInv, TidyVersions, NEW p \in Procs, NEW argv, Getdi(p, argv),
         UNCHANGED <<file, disk>>
  PROVE  AgreeInv' /\ TidyVersions'
  <1>1. PICK r : /\ Launch(p, r) /\ told' = told
                 /\ \/ r = NotRunning
                    \/ \E todo : r = [NotRunning EXCEPT !.pc = "reading", !.todo = todo]
    BY DEF Getdi
  <1>2. r = Fields(r) /\ r.alone = FALSE /\ (r = NotRunning \/ r.pc = "reading")
    BY <1>1, Idle DEF NotRunning, Fields
  <1>3. /\ OnlyMoves(p) /\ run[p].pc = "idle"
        /\ r = NotRunning => run'[p] = run[p]
        /\ r # NotRunning => run'[p].pc = r.pc
    <2>1. r # NotRunning => r.pc # "idle"
      BY <1>2
    <2> QED BY <1>1, <1>2, <2>1, Launched DEF LinesInv
  <1> QED BY <1>1, <1>2, <1>3, LaunchAgrees

\* A step of a program that leaves the file alone.
LEMMA StepAgrees ==
  ASSUME LinesInv, AgreeInv, TidyVersions, NEW p \in Procs,
         OnlyMoves(p), Running(p), UNCHANGED <<file, disk>>,
         run'[p].pc # "sed",
         run'[p].pc = "rename" =>
           run'[p].copy = file /\ run[p].pc = "sed" /\ run'[p].todo = run[p].todo,
         run'[p].alone /\ Driving(p)' => FollowsFile(p)',
         \A port \in Ports :
           \/ (/\ Pending(port) => Pending(port)'
               /\ \A k \in 1 .. 2 : told'[Pins(port)[k]] = told[Pins(port)[k]])
           \/ Pending(port)'
           \/ \E k \in 1 .. 2 : told'[Pins(port)[k]].tool # "uartmode"
           \/ /\ run[p].alone /\ run'[p].pc # "rename"
              /\ \A k \in 1 .. 2 : told'[Pins(port)[k]] = Mark(ModeOf(file, port), k)
  PROVE  AgreeInv' /\ TidyVersions'
  <1>1. run'[p].pc = "rename" =>
          /\ loadconf(file).how = "run"
          /\ Len(run'[p].todo) = 1
          /\ run'[p].todo[1].port < loadconf(file).portnums
          /\ run'[p].todo[1].port < MAX_PORTS
    BY DEF AgreeInv, SetsKnown
  <1>2. VersionsAlike' /\ SetsKnown' /\ TidyVersions'
    BY <1>1, VersionsStay
  <1>3. AloneFollows'
    BY WorkFollows
  <1>4. ASSUME NEW v, v \in {file} \cup Copies', NEW port \in Ports PROVE PinsAgree(v, port)'
    <2>1. v \in {file} \cup Copies
      BY <1>4, SameVersions
    <2>2. PinsAgree(v, port)
      BY <2>1 DEF AgreeInv, CopiesAgree
    <2>3. CASE /\ run[p].alone /\ run'[p].pc # "rename"
               /\ \A k \in 1 .. 2 : told'[Pins(port)[k]] = Mark(ModeOf(file, port), k)
      <3>1. \A q \in Procs : q # p => ~ Running(q)
        BY <2>3 DEF LinesInv, AloneHasLines
      <3>2. \A q \in Procs : run'[q].pc # "rename"
        BY <2>3, <3>1 DEF OnlyMoves, Running
      <3>3. v = file
        BY <1>4, <3>2 DEF Copies
      <3>4. \A k \in 1 .. 2 : told'[Pins(port)[k]].level = portMode[ModeOf(v, port) + 1][k]
        BY <2>3, <3>3 DEF Mark
      <3> QED BY <3>4 DEF PinsAgree, ModeOf
    <2> QED BY <2>2, <2>3, AgreeKept
  <1>5. CopiesAgree'
    BY <1>4 DEF CopiesAgree
  <1> QED BY <1>2, <1>3, <1>5 DEF AgreeInv

LEMMA SetdoWriteAgrees ==
  ASSUME LinesInv, AgreeInv, TidyVersions, NEW p \in Procs, SetdoWrite(p),
         UNCHANGED <<file, disk>>
  PROVE  AgreeInv' /\ TidyVersions'
  <1> DEFINE line == run[p].todo[1].line
  <1>1. /\ run[p].pc \in {"write", "slept"} /\ line \in Lines
        /\ run' = [run EXCEPT ![p] = NotRunning]
        /\ Tell(p, line, "setdo", run[p].todo[1].level)
    BY DEF SetdoWrite, LinesInv, KnowsItsLines
  <1>2. OnlyMoves(p) /\ run'[p].pc = "idle" /\ Running(p)
    BY <1>1, GoneOn, Idle DEF LinesInv, Running
  <1>3. told \in [Lines -> Marks]
    BY DEF LinesInv, Shaped, Marks
  <1> HIDE DEF line
  <1>4. /\ \A l \in Lines : l # line => told'[l] = told[l]
        /\ told'[line].tool # "uartmode"
    BY <1>1, <1>3 DEF Tell, Untold
  <1>5. ASSUME NEW port \in Ports, Pending(port) PROVE Pending(port)'
    BY <1>1, <1>2, <1>5, PendingStays DEF PendingAt, Driving
  <1>6. ASSUME NEW port \in Ports
        PROVE  \/ \A k \in 1 .. 2 : told'[Pins(port)[k]] = told[Pins(port)[k]]
               \/ \E k \in 1 .. 2 : told'[Pins(port)[k]].tool # "uartmode"
    BY <1>4, PinsAreLines
  <1>7. ~ Driving(p)' /\ run'[p].pc # "sed" /\ run'[p].pc # "rename"
    BY <1>2 DEF Driving
  <1> QED BY <1>2, <1>5, <1>6, <1>7, StepAgrees

LEMMA GetdiReleaseAgrees ==
  ASSUME LinesInv, AgreeInv, TidyVersions, NEW p \in Procs, GetdiRelease(p),
         UNCHANGED <<file, disk>>
  PROVE  AgreeInv' /\ TidyVersions'
  <1>1. run[p].pc = "reading" /\ run' = [run EXCEPT ![p] = NotRunning] /\ told' = told
    BY DEF GetdiRelease
  <1>2. OnlyMoves(p) /\ run'[p].pc = "idle" /\ Running(p)
    BY <1>1, GoneOn, Idle DEF LinesInv, Running
  <1>3. ASSUME NEW port \in Ports, Pending(port) PROVE Pending(port)'
    BY <1>1, <1>2, <1>3, PendingStays DEF PendingAt, Driving
  <1>4. ~ Driving(p)' /\ run'[p].pc # "sed" /\ run'[p].pc # "rename"
    BY <1>2 DEF Driving
  <1> QED BY <1>1, <1>2, <1>3, <1>4, StepAgrees

LEMMA SedReadAgrees ==
  ASSUME LinesInv, AgreeInv, TidyVersions, NEW p \in Procs, SedRead(p)
  PROVE  AgreeInv' /\ TidyVersions'
  <1>1. run[p].pc = "sed" /\ Goes(p, "rename", run[p].todo, file)
        /\ UNCHANGED <<told, file, disk>>
    BY UartMoves DEF SedRead
  <1>2. OnlyMoves(p) /\ run'[p].pc = "rename" /\ run'[p].todo = run[p].todo
        /\ run'[p].copy = file /\ Running(p)
    BY <1>1, WhereTo DEF Running
  <1>3. ASSUME NEW port \in Ports, Pending(port) PROVE Pending(port)'
    BY <1>1, <1>2, <1>3, PendingStays DEF PendingAt, Driving
  <1>4. ~ Driving(p)'
    BY <1>2 DEF Driving
  <1> QED BY <1>1, <1>2, <1>3, <1>4, StepAgrees

\* The file is as it was, and p is going to drive pins that nobody then asks
\* the file about.
LEMMA SedFailsAgrees ==
  ASSUME LinesInv, AgreeInv, TidyVersions, NEW p \in Procs, SedFails(p)
  PROVE  AgreeInv' /\ TidyVersions'
  <1>1. /\ run[p].pc \in {"sed", "rename"} /\ GivesUp(p)
        /\ UNCHANGED <<told, file, disk>>
    BY UartMoves DEF SedFails
  <1>2. OnlyMoves(p) /\ run'[p].pc = "export" /\ ~ run'[p].alone /\ Running(p)
    BY <1>1 DEF GivesUp, Running
  <1>3. ASSUME NEW port \in Ports, Pending(port) PROVE Pending(port)'
    BY <1>1, <1>2, <1>3, PendingStays DEF PendingAt, Driving
  <1> QED BY <1>1, <1>2, <1>3, StepAgrees

\* The copy had the port, so the new file has the mode that p is going to drive,
\* and what the copy had for the others.
LEMMA SedRenameAgrees ==
  ASSUME LinesInv, FilesTyped, WorkAllTyped, AgreeInv, TidyVersions,
         NEW p \in Procs, SedRename(p)
  PROVE  AgreeInv' /\ TidyVersions'
  <1> DEFINE t == run[p].todo[1]
             v == run[p].copy
             new == Sed(v, t.port, t.mode)
  <1>1. /\ run[p].pc = "rename" /\ Goes(p, "export", run[p].todo, <<>>)
        /\ file' = new /\ UNCHANGED <<told, disk>>
    BY UartMoves DEF SedRename
  <1>2. OnlyMoves(p) /\ run'[p].pc = "export" /\ run'[p].todo = run[p].todo /\ Running(p)
    BY <1>1, WhereTo DEF Running
  <1>3. /\ run[p].todo \in Seq(PortModes) /\ Len(run[p].todo) = 1
        /\ t.port < loadconf(file).portnums /\ t.port < MAX_PORTS
        /\ loadconf(file).how = "run"
    BY <1>1, TodoTypes DEF WorkAllTyped, WorkTyped, AgreeInv, SetsKnown
  <1>4. t.port \in Int /\ t.mode \in Int
    <2>1. t \in PortModes
      BY <1>3
    <2> QED BY <2>1 DEF PortModes
  <1>5. v \in Copies /\ v \in Texts /\ Tidy(v)
        /\ loadconf(v).how = "run" /\ loadconf(v).portnums = loadconf(file).portnums
    BY <1>1, <1>3 DEF Copies, Versions, FilesTyped, TidyVersions, AgreeInv, VersionsAlike
  <1>6. loadconf(v) \in Confs
    BY <1>5, ConfTyped
  <1> HIDE DEF v, t, new
  <1>7. /\ Tidy(new) /\ loadconf(new).how = "run"
        /\ loadconf(new).portnums = loadconf(file).portnums
        /\ \A port \in 0 .. 5 :
             ModeOf(new, port) = IF port = t.port THEN t.mode ELSE ModeOf(v, port)
    <2>1. CASE t.port \in 0 .. 5
      <3>1. loadconf(new) = [how |-> "run", portnums |-> loadconf(v).portnums,
                             mode |-> [loadconf(v).mode EXCEPT ![t.port] = t.mode]]
        BY <1>3, <1>4, <1>5, <2>1, SedLoads DEF new
      <3>2. Tidy(new)
        BY <1>4, <1>5, <2>1, SedTidy DEF new
      <3>3. loadconf(v).mode \in [0 .. 5 -> Int]
        BY <1>6 DEF Confs
      <3> QED BY <1>5, <3>1, <3>2, <3>3 DEF ModeOf
    <2>2. CASE t.port \notin 0 .. 5
      <3>1. new = v
        BY <1>5, <2>2, SedElsewhere DEF new
      <3> QED BY <1>5, <2>2, <3>1
    <2> QED BY <2>1, <2>2
  <1>8. \A w : w \in Versions' => w \in {new} \cup Versions
    <2>1. ASSUME NEW w, w \in Copies' PROVE w \in Copies
      <3>1. PICK q \in Procs : run'[q].pc = "rename" /\ run'[q].copy = w
        BY <2>1 DEF Copies
      <3>2. q # p
        BY <1>2, <3>1
      <3>3. run[q].pc = "rename" /\ run[q].copy = w
        BY <1>2, <3>1, <3>2 DEF OnlyMoves
      <3> QED BY <3>3 DEF Copies
    <2> QED BY <1>1, <2>1 DEF Versions
  <1>9. \A w : w \in Copies' => w \in Copies
    <2> SUFFICES ASSUME NEW q \in Procs, run'[q].pc = "rename" PROVE run'[q].copy \in Copies
      BY DEF Copies
    <2>1. run[q].pc = "rename" /\ run[q].copy = run'[q].copy
      BY <1>2 DEF OnlyMoves
    <2> QED BY <2>1 DEF Copies
  <1>10. VersionsAlike' /\ TidyVersions'
    BY <1>1, <1>3, <1>7, <1>8 DEF AgreeInv, VersionsAlike, TidyVersions
  <1>11. SetsKnown'
    <2>1. ASSUME NEW q \in Procs, run'[q].pc \in {"sed", "rename"}
          PROVE  /\ Len(run'[q].todo) = 1
                 /\ run'[q].todo[1].port < loadconf(file).portnums
                 /\ run'[q].todo[1].port < MAX_PORTS
      <3>1. run[q].pc \in {"sed", "rename"} /\ run'[q].todo = run[q].todo
        BY <1>2, <2>1 DEF OnlyMoves
      <3> QED BY <3>1 DEF AgreeInv, SetsKnown
    <2> QED BY <1>1, <1>7, <2>1 DEF SetsKnown
  <1>12. AloneFollows'
    <2>1. FollowsFile(p)'
      <3>1. ASSUME NEW i \in DOMAIN run[p].todo, run[p].todo[i].port \in Ports
            PROVE  run[p].todo[i].mode = ModeOf(new, run[p].todo[i].port)
        <4>1. i = 1
          BY <1>3
        <4> QED BY <1>7, <3>1, <4>1 DEF t, Ports
      <3> QED BY <1>1, <1>2, <3>1 DEF FollowsFile
    <2> QED BY <1>2, <2>1, WorkFollows
  <1>13. ASSUME NEW port \in Ports, Pending(port) PROVE Pending(port)'
    BY <1>1, <1>2, <1>13, PendingStays DEF PendingAt, Driving
  <1>14. ASSUME NEW w \in Copies, NEW port \in Ports PROVE PinsAgree(w, port)'
    <2>1. PinsAgree(w, port)
      BY DEF AgreeInv, CopiesAgree
    <2> QED BY <1>1, <1>13, <2>1, AgreeKept
  <1>15. ASSUME NEW w, w = new, NEW port \in Ports PROVE PinsAgree(w, port)'
    <2>1. CASE port = t.port
      <3>1. ASSUME t.mode \in Modes PROVE Pending(port)'
        <4>1. Driving(p)' /\ 1 \in DOMAIN run'[p].todo
          BY <1>2, <1>3 DEF Driving
        <4> QED BY <1>2, <2>1, <3>1, <4>1 DEF Pending, t
      <3>2. ModeOf(w, port) = t.mode
        BY <1>7, <1>15, <2>1 DEF Ports
      <3> QED BY <3>1, <3>2 DEF PinsAgree, ModeOf
    <2>2. CASE port # t.port
      <3>1. PICK u \in Copies : u = v
        BY <1>5
      <3>2. ModeOf(w, port) = ModeOf(u, port)
        BY <1>7, <1>15, <2>2, <3>1 DEF Ports
      <3>3. PinsAgree(u, port)'
        BY <1>14
      <3> QED BY <3>2, <3>3 DEF PinsAgree, ModeOf
    <2> QED BY <2>1, <2>2
  <1>16. ASSUME NEW w, w \in {file'} \cup Copies', NEW port \in Ports
         PROVE  PinsAgree(w, port)'
    BY <1>1, <1>9, <1>14, <1>15, <1>16
  <1>17. CopiesAgree'
    BY <1>16 DEF CopiesAgree
  <1> QED BY <1>10, <1>11, <1>12, <1>17 DEF AgreeInv

LEMMA ExportAgrees ==
  ASSUME LinesInv, WorkAllTyped, AgreeInv, TidyVersions, NEW p \in Procs, Export(p)
  PROVE  AgreeInv' /\ TidyVersions'
  <1>1. /\ run[p].pc = "export" /\ UNCHANGED <<told, file, disk>>
        /\ OnlyMoves(p) /\ run'[p].pc \in {"first", "export"}
        /\ run'[p].alone = run[p].alone
    <2>1. run[p].pc = "export" /\ UNCHANGED <<told, file, disk>>
      BY DEF Export
    <2>2. \/ Goes(p, "first", run[p].todo, run[p].copy)
          \/ Goes(p, "export", Tail(run[p].todo), run[p].copy)
      BY UartMoves
    <2>3. OnlyMoves(p) /\ run'[p].pc \in {"first", "export"} /\ run'[p].alone = run[p].alone
      BY <2>2, WhereTo
    <2> QED BY <2>1, <2>3
  <1>2. run[p].alone => FollowsFile(p)
    BY <1>1 DEF AgreeInv, AloneFollows, Driving
  <1>3. FollowsFile(p) => FollowsFile(p)'
    BY ExportDrives
  <1>4. \A port \in Ports : PinsLeft(port)
    BY ExportDrives
  <1> QED BY <1>1, <1>2, <1>3, <1>4, StepAgrees DEF PinsLeft, Running

LEMMA DriveFirstAgrees ==
  ASSUME LinesInv, WorkAllTyped, AgreeInv, TidyVersions, NEW p \in Procs, DriveFirst(p)
  PROVE  AgreeInv' /\ TidyVersions'
  <1>1. /\ run[p].pc = "first" /\ UNCHANGED <<file, disk>>
        /\ OnlyMoves(p) /\ run'[p].pc = "second" /\ run'[p].alone = run[p].alone
    <2>1. run[p].pc = "first" /\ Goes(p, "second", run[p].todo, run[p].copy)
      BY UartMoves
    <2>2. UNCHANGED <<file, disk>>
      BY DEF DriveFirst, uartVars
    <2> QED BY <2>1, <2>2, WhereTo
  <1>2. run[p].alone => FollowsFile(p)
    BY <1>1 DEF AgreeInv, AloneFollows, Driving
  <1>3. run[p].alone /\ FollowsFile(p) => FollowsFile(p)'
    BY FirstDrives
  <1>4. \A port \in Ports : PinsLeft(port) \/ Pending(port)'
    BY FirstDrives
  <1> QED BY <1>1, <1>2, <1>3, <1>4, StepAgrees DEF PinsLeft, Running

LEMMA DriveSecondAgrees ==
  ASSUME LinesInv, WorkAllTyped, AgreeInv, TidyVersions, NEW p \in Procs, DriveSecond(p)
  PROVE  AgreeInv' /\ TidyVersions'
  <1>1. /\ run[p].pc = "second" /\ UNCHANGED <<file, disk>>
        /\ OnlyMoves(p) /\ run'[p].pc = "export" /\ run'[p].alone = run[p].alone
    <2>1. run[p].pc = "second" /\ Goes(p, "export", Tail(run[p].todo), run[p].copy)
      BY UartMoves
    <2>2. UNCHANGED <<file, disk>>
      BY DEF DriveSecond, uartVars
    <2> QED BY <2>1, <2>2, WhereTo
  <1>2. run[p].alone => FollowsFile(p)
    BY <1>1 DEF AgreeInv, AloneFollows, Driving
  <1>3. FollowsFile(p) => FollowsFile(p)'
    BY SecondDrives
  <1>4. ASSUME NEW port \in Ports
        PROVE  \/ PinsLeft(port)
               \/ \E k \in 1 .. 2 : told'[Pins(port)[k]].tool # "uartmode"
               \/ /\ run[p].alone
                  /\ \A k \in 1 .. 2 : told'[Pins(port)[k]] = Mark(ModeOf(file, port), k)
    <2>1. \/ PinsLeft(port)
          \/ told'[Pins(port)[2]] = Untold
          \/ PinsDriven(p, port)
      BY SecondDrives
    <2>2. Untold.tool # "uartmode"
      BY DEF Untold
    <2> QED BY <1>2, <2>1, <2>2 DEF PinsDriven
  <1> QED BY <1>1, <1>2, <1>3, <1>4, StepAgrees DEF PinsLeft, Running

LEMMA ExitAgrees ==
  ASSUME LinesInv, AgreeInv, TidyVersions, NEW p \in Procs, Exit(p)
  PROVE  AgreeInv' /\ TidyVersions'
  <1>1. /\ run[p].pc = "export" /\ UNCHANGED <<file, disk>>
        /\ OnlyMoves(p) /\ run'[p].pc = "idle"
    BY UartMoves, Idle DEF Exit
  <1>2. \A port \in Ports : PinsLeft(port)
    BY ExitDrives
  <1>3. ~ Driving(p)'
    BY <1>1 DEF Driving
  <1> QED BY <1>1, <1>2, <1>3, StepAgrees DEF PinsLeft, Running

LEMMA WorkAgrees ==
  ASSUME LinesInv, FilesTyped, WorkAllTyped, AgreeInv, TidyVersions,
         NEW p \in Procs, Work(p)
  PROVE  AgreeInv' /\ TidyVersions'
  BY SedReadAgrees, SedRenameAgrees, SedFailsAgrees, ExportAgrees, DriveFirstAgrees,
     DriveSecondAgrees, ExitAgrees, SetdoWriteAgrees, GetdiReleaseAgrees DEF Work, UartStep, uartVars

LEMMA FlushAgrees ==
  ASSUME AgreeInv, TidyVersions, Flush
  PROVE  AgreeInv' /\ TidyVersions'
  <1>1. disk' = file /\ UNCHANGED <<run, told, file>>
    BY DEF Flush
  <1>2. Copies' = Copies /\ \A v : v \in Versions' => v \in Versions
    BY <1>1 DEF Copies, Versions
  <1>3. VersionsAlike' /\ TidyVersions'
    BY <1>1, <1>2 DEF AgreeInv, VersionsAlike, TidyVersions
  <1>4. SetsKnown' /\ AloneFollows'
    BY <1>1 DEF AgreeInv, SetsKnown, AloneFollows, Driving, FollowsFile, ModeOf
  <1>5. CopiesAgree'
    BY <1>1, <1>2 DEF AgreeInv, CopiesAgree, PinsAgree, Pending, Driving, ModeOf
  <1> QED BY <1>3, <1>4, <1>5 DEF AgreeInv

LEMMA PowerCutAgrees ==
  ASSUME AgreeInv, TidyVersions, PowerCut
  PROVE  AgreeInv' /\ TidyVersions'
  <1>1. /\ file' = disk /\ disk' = disk
        /\ \A p \in Procs : run'[p].pc = "idle"
        /\ \A l \in Lines : told'[l] = Untold
    BY DEF PowerCut, PowerLost, NotRunning
  <1>2. Copies' = {} /\ Versions' = {disk} /\ disk \in Versions
    BY <1>1 DEF Copies, Versions
  <1>3. VersionsAlike' /\ TidyVersions' /\ SetsKnown' /\ AloneFollows'
    BY <1>1, <1>2 DEF TidyVersions, VersionsAlike, SetsKnown, AloneFollows, Driving
  <1>4. CopiesAgree'
    BY <1>1, <1>2, PinsAreLines DEF CopiesAgree, PinsAgree, Untold
  <1> QED BY <1>3, <1>4 DEF AgreeInv

LEMMA CommandAgrees ==
  ASSUME LinesInv, FilesTyped, AgreeInv, TidyVersions, NEW p \in Procs, Command(p)
  PROVE  AgreeInv' /\ TidyVersions'
  <1>1. CASE \E argv \in UartArgs, root \in BOOLEAN : Uartmode(p, argv, root)
    BY <1>1, UartmodeAgrees, CommandsAssumption DEF Uartmode, Opts
  <1>2. CASE \E argv \in DoArgs : Setdo(p, argv) /\ UNCHANGED uartVars
    BY <1>2, SetdoAgrees DEF uartVars
  <1>3. CASE \E argv \in DiArgs : Getdi(p, argv) /\ UNCHANGED uartVars
    BY <1>3, GetdiAgrees DEF uartVars
  <1> QED BY <1>1, <1>2, <1>3 DEF Command

LEMMA ServiceAgrees ==
  ASSUME LinesInv, FilesTyped, AgreeInv, TidyVersions, NEW p \in Procs, Service(p)
  PROVE  AgreeInv' /\ TidyVersions'
  <1> DEFINE argv == <<[opt |-> "i", num |-> 0]>>
  <1>1. argv \in Seq(Opts)
    BY DEF Opts
  <1>2. Launch(p, Plan(argv, TRUE)) /\ UNCHANGED <<told, file, disk>>
    BY DEF Service, BootService
  <1> QED BY <1>1, <1>2, UartmodeAgrees

LEMMA NextAgrees ==
  ASSUME LinesInv, FilesTyped, TypeOK, AgreeInv, TidyVersions, [Next]_vars
  PROVE  AgreeInv' /\ TidyVersions'
  <1>1. WorkAllTyped
    BY TypeOKParts DEF FilesTyped, WorkAllTyped, WorkTyped
  <1>2. CASE UNCHANGED vars
    BY <1>2 DEF vars, AgreeInv, VersionsAlike, SetsKnown, AloneFollows, CopiesAgree,
                TidyVersions, Versions, Copies, PinsAgree, Pending, Driving, FollowsFile, ModeOf
  <1> QED BY <1>1, <1>2, CommandAgrees, WorkAgrees, ServiceAgrees, FlushAgrees,
             PowerCutAgrees DEF Next

\* A hypothesis that the shipped file meets.
LEMMA ShippedIsTidy == Tidy(Shipped)
  <1>1. DOMAIN Shipped = 1 .. 8
    BY DEF Shipped
  <1>2. /\ IsBlank(Shipped[1]) /\ IsBlank(Shipped[5])
        /\ IsHeader(Shipped[2]) /\ IsHeader(Shipped[6])
    BY DEF Shipped, IsBlank, IsHeader, Word, Sym, Tok
  <1>3. IsPair(Shipped[3]) /\ IsPair(Shipped[4]) /\ IsPair(Shipped[7]) /\ IsPair(Shipped[8])
    BY DEF Shipped, IsPair, IsValue, Word, Sym, Num, Tok
  <1>4. \A i \in 1 .. 8 : IsHeader(Shipped[i]) => i \in {2, 6}
    BY <1>2, <1>3, KindsOfLines
  <1>5. Shipped[2][2].w = "UART" /\ Shipped[6][2].w = "MODE"
    BY DEF Shipped, Word, Sym, Tok
  <1>6. \A i \in 0 .. 5 : PortKey[i + 1] # "UART" /\ PortKey[i + 1] # "MODE"
    BY DEF PortKey
  <1>7. /\ NameOf(Shipped, 2)[2] = "UART" /\ NameOf(Shipped, 3)[2] = "portnums"
        /\ NameOf(Shipped, 4)[2] = "devices" /\ NameOf(Shipped, 6)[2] = "MODE"
        /\ NameOf(Shipped, 7)[2] = "port0Mode" /\ NameOf(Shipped, 8)[2] = "port1Mode"
    <2>1. /\ Shipped[3][1].w = "portnums" /\ Shipped[4][1].w = "devices"
          /\ Shipped[7][1].w = "port0Mode" /\ Shipped[8][1].w = "port1Mode"
      BY DEF Shipped, Word, Tok
    <2> QED BY <1>2, <1>4, <1>5, <2>1 DEF NameOf
  <1>8. \A i, j \in {h \in 1 .. 8 : ~ IsBlank(Shipped[h])} :
          i # j => NameOf(Shipped, i) # NameOf(Shipped, j)
    <2>1. {h \in 1 .. 8 : ~ IsBlank(Shipped[h])} \subseteq {2, 3, 4, 6, 7, 8}
      BY <1>2
    <2> QED BY <1>7, <2>1
  <1>9. IsLegal(Shipped)
    BY <1>1, <1>2, <1>3, <1>8 DEF IsLegal
  <1> QED BY <1>1, <1>4, <1>5, <1>6, <1>9 DEF Tidy, MAX_PORTS

\* Where the file is one that uartmode was meant for, every version of it stays
\* so, has the same ports, and agrees with the pins that uartmode drove last.
THEOREM VersionsAgree ==
  ASSUME \A text \in Files : Tidy(text)
  PROVE  Spec => [](IInv /\ TidyVersions)
  <1>1. Init => IInv /\ TypeOK /\ TidyVersions
    BY InitInv, InitTyped, InitBoot, InitAgree DEF IInv
  <1>2. IInv /\ TypeOK /\ TidyVersions /\ [Next]_vars => (IInv /\ TypeOK /\ TidyVersions)'
    BY NextInv, NextTyped, NextBoot, NextAgrees DEF IInv
  <1> QED BY <1>1, <1>2, PTL DEF Spec

\* While nothing runs, the pins driven last by a uartmode that was alone and whose
\* sed did not fail are those of the mode in the file, after any sets, failed
\* ones too, power cuts and commands of the other tools (updateMode, setUartMode,
\* main, the service).
THEOREM PinsFollowFile ==
  ASSUME \A text \in Files : Tidy(text)
  PROVE  Spec => []Agree
  <1>1. IInv => Agree
    <2> SUFFICES ASSUME IInv, Quiet, NEW port \in Ports, ModeOf(file, port) \in Modes,
                        told[Pins(port)[1]].tool = "uartmode",
                        told[Pins(port)[2]].tool = "uartmode",
                        NEW k \in 1 .. 2
                 PROVE  gpio[Pins(port)[k]].level = portMode[ModeOf(file, port) + 1][k]
      BY DEF Agree
    <2>1. ~ Pending(port)
      BY DEF Pending, Driving, Quiet, Running
    <2>2. \A j \in 1 .. 2 :
            told[Pins(port)[j]].level = portMode[ModeOf(file, port) + 1][j]
      BY <2>1 DEF IInv, AgreeInv, CopiesAgree, PinsAgree
    <2>3. told[Pins(port)[k]].tool = "uartmode"
      OBVIOUS
    <2>4. told[Pins(port)[k]] # Untold
      BY <2>3 DEF Untold
    <2>5. Pins(port)[k] \in Lines
      BY PinsAreLines
    <2> QED BY <2>2, <2>4, <2>5 DEF IInv, LinesInv, PinsAsTold
  <1> QED BY <1>1, VersionsAgree, PTL

LEMMA ModeSet ==
  ASSUME NEW conf \in Confs, NEW port, NEW mode
  PROVE  [conf EXCEPT !.mode[port] = mode]
           = [how |-> conf.how, portnums |-> conf.portnums,
              mode |-> [conf.mode EXCEPT ![port] = mode]]
  <1> DEFINE r == [conf EXCEPT !.mode[port] = mode]
             m == [conf.mode EXCEPT ![port] = mode]
  <1>1. conf = [how |-> conf.how, portnums |-> conf.portnums, mode |-> conf.mode]
    BY DEF Confs
  <1>2. r = [conf EXCEPT !.mode = m]
    OBVIOUS
  <1> HIDE DEF m
  <1>3. r.how = conf.how /\ r.portnums = conf.portnums /\ r.mode = m
        /\ r = [how |-> r.how, portnums |-> r.portnums, mode |-> r.mode]
    BY <1>1, <1>2
  <1> QED BY <1>3 DEF m

\* A sed that replaces the file it has copied changes what is loaded for its port
\* and for no other (updateMode, loadconf).
THEOREM UpdatesSurvive ==
  ASSUME \A text \in Files : Tidy(text)
  PROVE  Spec => UpdateSurvives
  <1>1. ASSUME IInv, TypeOK, TidyVersions, [Next]_vars, NEW p \in Procs,
               SedRename(p), run[p].copy = file
        PROVE  LET t == run[p].todo[1]
               IN loadconf(file') = IF t.port \in 0 .. MAX_PORTS - 1
                                      THEN [loadconf(file) EXCEPT !.mode[t.port] = t.mode]
                                      ELSE loadconf(file)
    <2> DEFINE t == run[p].todo[1]
               conf == loadconf(file)
    <2>1. file' = Sed(file, t.port, t.mode)
      BY <1>1 DEF SedRename
    <2>2. /\ run[p].todo \in Seq(PortModes) /\ Len(run[p].todo) = 1
          /\ t.port < conf.portnums /\ conf.how = "run"
      BY <1>1, TypeOKParts, TodoTypes
         DEF SedRename, WorkAllTyped, WorkTyped, IInv, AgreeInv, SetsKnown
    <2>3. t \in PortModes
      BY <2>2
    <2>4. t.port \in Int /\ t.mode \in Int
      BY <2>3 DEF PortModes
    <2>5. file \in Texts /\ Tidy(file) /\ conf \in Confs
      BY <1>1, ConfTyped DEF IInv, FilesTyped, TidyVersions, Versions
    <2>6. 0 .. MAX_PORTS - 1 = 0 .. 5
      BY DEF MAX_PORTS
    <2> HIDE DEF t
    <2>7. CASE t.port \in 0 .. 5
      <3>1. loadconf(file') = [how |-> "run", portnums |-> conf.portnums,
                               mode |-> [conf.mode EXCEPT ![t.port] = t.mode]]
        BY <2>1, <2>2, <2>4, <2>5, <2>7, SedLoads
      <3>2. [conf EXCEPT !.mode[t.port] = t.mode]
              = [how |-> "run", portnums |-> conf.portnums,
                 mode |-> [conf.mode EXCEPT ![t.port] = t.mode]]
        <4>1. conf \in Confs /\ conf.how = "run"
          BY <2>2, <2>5
        <4> HIDE DEF conf
        <4>2. [conf EXCEPT !.mode[t.port] = t.mode]
                = [how |-> conf.how, portnums |-> conf.portnums,
                   mode |-> [conf.mode EXCEPT ![t.port] = t.mode]]
          BY <4>1, ModeSet
        <4> QED BY <4>1, <4>2
      <3> QED BY <2>6, <2>7, <3>1, <3>2 DEF t, conf
    <2>8. CASE t.port \notin 0 .. 5
      BY <2>1, <2>5, <2>6, <2>8, SedElsewhere DEF t
    <2> QED BY <2>7, <2>8
  <1>2. IInv /\ TypeOK /\ TidyVersions /\ [Next]_vars =>
          [\A p \in Procs :
             SedRename(p) /\ run[p].copy = file
               => LET t == run[p].todo[1]
                  IN loadconf(file') = IF t.port \in 0 .. MAX_PORTS - 1
                                         THEN [loadconf(file) EXCEPT !.mode[t.port] = t.mode]
                                         ELSE loadconf(file)]_<<file, run>>
    BY <1>1
  <1>3. Spec => [](IInv /\ TidyVersions)
    BY VersionsAgree
  <1>4. Spec => [](TypeOK /\ FilesTyped)
    BY TypesCorrect
  <1> QED BY <1>2, <1>3, <1>4, PTL DEF Spec, UpdateSurvives

=============================================================================
