-------------------------------- MODULE Adc ---------------------------------
(***************************************************************************)
(* rd_exadc and rd_exbadc: the tool sets the ADC_SET lines of the inputs   *)
(* it is to read, then for each of them writes the configuration of the    *)
(* ADS1115, waits for the conversion, sets the register pointer and reads. *)
(* Any number of processes share the lines, which the kernel gives to one  *)
(* of them at a time, and the converter, which it gives to all.            *)
(***************************************************************************)
EXTENDS AdcOptions

CONSTANTS
  Procs,    \* processes that run the tool of the board
  Nobody,   \* no process
  Argvs,    \* board -> the command lines given
  Input,    \* multiplexer setting -> the code of the voltage there
  Garbage   \* what an uninitialised variable may hold

Boards == {"A", "B"}

Muxes == 0 .. 7

\* The contents of a register of 16 bits.
Size == 65536

Words == 0 .. Size - 1

ASSUME NobodyAssumption == Nobody \notin Procs

\* Codes are signed numbers of 16 bits.
ASSUME InputAssumption ==
  \A m \in Muxes : Input[m] \in Int /\ Input[m] >= -32768 /\ Input[m] <= 32767

ASSUME GarbageAssumption == Garbage \subseteq Int /\ Garbage # {}

VARIABLES
  board,   \* the expansion board of the device
  line,    \* ADC_SET line -> who has it, and its level
  dev,     \* the converter
  run      \* process -> where the tool is, what it has still to read and what it
           \* has read last

vars == <<board, line, dev, run>>

\* The bits of ads1115.h: single shot, 4.096 V, 128 samples a second, no
\* comparator.
ConfigWord(mux) == 32768 + 4096 * mux + 512 + 256 + 128 + 3

\* Mutant of Sent: the bytes of the word are swapped.
MutSent(word) == 256 * (word % 256) + word \div 256

\* configDevice sends the high byte and, as "config && 0xFF", a one.
Sent(word) == 256 * (word \div 256) + 1

MuxOf(word) == (word \div 4096) % 8

\* The time of a conversion at the rate a word selects.
SamplesPerSecond == <<8, 16, 32, 64, 128, 250, 475, 860>>

ConversionMs(word) == 1000 \div SamplesPerSecond[((word \div 32) % 8) + 1]

\* Mutant of WaitMs: the time that 128 samples a second would need.
MutWaitMs == 8

WaitMs == 135

\* Mutant of Code: the bytes are taken as a signed number.
MutCode(mux) == Input[mux]

\* The data register, as the tool makes a number of its two bytes.
Code(mux) == Input[mux] % Size

\* The ADC_SET lines of an input.
LinesOf(b, mux) ==
  IF mux >= 4 THEN {mux - 4}
  ELSE IF b = "A" THEN {2 * (mux \div 3), 2 * (mux \div 3) + 1}
                  ELSE {mux \div 3}

NoPlan == Run([c \in Channels |-> INVALID_MODE], [m \in {} |-> VOLTAGE_MODE])

NoReading == [mux |-> 0, code |-> 0, sure |-> FALSE]

NotRunning ==
  [pc |-> "idle", plan |-> NoPlan, todo |-> {}, cur |-> 0, got |-> NoReading,
   clean |-> FALSE, alone |-> FALSE]

FreeLine == [owner |-> Nobody, level |-> 0]

Init ==
  /\ board \in Boards
  /\ line = [c \in Channels |-> FreeLine]
  /\ dev = [word |-> 34179, busy |-> FALSE, by |-> Nobody, mux |-> 0, data |-> 0, ptr |-> 0]
  /\ run = [p \in Procs |-> NotRunning]

Running(p) == run[p].pc # "idle"

Missing(p) ==
  {c \in Channels : run[p].plan.lines[c] # -1 /\ line[c].owner # p}

\* Nobody looks at the level of a line nobody has.
Released(p) ==
  [c \in Channels |-> IF line[c].owner = p THEN FreeLine ELSE line[c]]

\* main up to the lines.  A usage text, or a crash in front of them, changes
\* nothing.
Start(p, argv) ==
  LET plan == Plan(board, argv)
  IN /\ ~ Running(p) /\ plan.how = "run"
     /\ run' = [q \in Procs |->
          IF q = p THEN [pc |-> "lines", plan |-> plan, todo |-> DOMAIN plan.reads, cur |-> 0,
                         got |-> NoReading, clean |-> TRUE, alone |-> \A o \in Procs : ~ Running(o)]
                   ELSE [run[q] EXCEPT !.alone = FALSE]]
     /\ UNCHANGED <<board, line, dev>>

\* The lines are requested one after the other as outputs at their levels.
TakeLine(p) ==
  /\ run[p].pc = "lines"
  /\ \E c \in Missing(p) :
       /\ \A d \in Missing(p) : c <= d
       /\ line[c].owner = Nobody
       /\ line' = [line EXCEPT ![c] = [owner |-> p, level |-> run[p].plan.lines[c]]]
  /\ UNCHANGED <<board, dev, run>>

\* Mutant of FailLine: the tool waits for the line.
MutFailLine(p) == FALSE

\* A line that somebody has ends the tool, which releases its lines; so does the
\* kernel if the release of a line never looked up ends the tool first.
FailLine(p) ==
  /\ run[p].pc = "lines"
  /\ \E c \in Missing(p) :
       /\ \A d \in Missing(p) : c <= d
       /\ line[c].owner # Nobody
  /\ line' = Released(p)
  /\ run' = [run EXCEPT ![p] = NotRunning]
  /\ UNCHANGED <<board, dev>>

\* The next input of the loop of main.
IsNext(p, m) ==
  /\ run[p].pc = "lines" /\ Missing(p) = {}
  /\ m \in run[p].todo /\ \A n \in run[p].todo : m <= n

\* A conversion that a killed process has left running.
Orphaned == dev.busy /\ \A q \in Procs : dev.by = q => run[q].pc # "wait"

\* The write of the configuration starts a conversion, or only changes the
\* register if one is running; the pointer is left at the configuration.
Configure(p) ==
  \E m \in Muxes :
    /\ IsNext(p, m)
    /\ LET w == Sent(ConfigWord(m))
           started == [dev EXCEPT !.word = w, !.ptr = 1, !.busy = TRUE, !.by = p, !.mux = MuxOf(w)]
       IN dev' \in {started} \cup (IF dev.busy THEN {[dev EXCEPT !.word = w, !.ptr = 1]} ELSE {})
    /\ run' = [run EXCEPT ![p].pc = "wait", ![p].cur = m, ![p].clean = @ /\ ~ Orphaned]
    /\ UNCHANGED <<board, line>>

\* The converter ends the conversion.
Convert ==
  /\ dev.busy
  /\ dev' = [dev EXCEPT !.busy = FALSE, !.data = Code(dev.mux)]
  /\ UNCHANGED <<board, line, run>>

\* The sleep has ended, and with it the conversion, if it is no longer than
\* that; the pointer is set to the data.
SetPointer(p) ==
  /\ run[p].pc = "wait"
  /\ ~ (dev.busy /\ ConversionMs(dev.word) <= WaitMs)
  /\ dev' = [dev EXCEPT !.ptr = 0]
  /\ run' = [run EXCEPT ![p].pc = "fetch"]
  /\ UNCHANGED <<board, line>>

\* A reading of process p, which is sure unless a transfer failed, or on board
\* A another process ran.
Reading(p, code) ==
  [mux |-> run[p].cur, code |-> code,
   sure |-> run[p].clean /\ (board = "B" \/ run[p].alone)]

Fetched(p, r) ==
  run' = [run EXCEPT ![p].pc = "lines", ![p].todo = @ \ {run[p].cur}, ![p].got = r]

Fetch(p) ==
  /\ run[p].pc = "fetch"
  /\ Fetched(p, Reading(p, IF dev.ptr = 0 THEN dev.data ELSE dev.word))
  /\ UNCHANGED <<board, line, dev>>

\* A transfer fails: a write that fails is not noticed, a read that fails
\* leaves the voltage uninitialised.
ConfigureFails(p) ==
  \E m \in Muxes :
    /\ IsNext(p, m)
    /\ run' = [run EXCEPT ![p].pc = "wait", ![p].cur = m, ![p].clean = FALSE]
    /\ UNCHANGED <<board, line, dev>>

SetPointerFails(p) ==
  /\ run[p].pc = "wait"
  /\ run' = [run EXCEPT ![p].pc = "fetch", ![p].clean = FALSE]
  /\ UNCHANGED <<board, line, dev>>

FetchFails(p) ==
  /\ run[p].pc = "fetch"
  /\ \E g \in Garbage : Fetched(p, [Reading(p, g) EXCEPT !.sure = FALSE])
  /\ UNCHANGED <<board, line, dev>>

\* The lines are released and the tool ends.
Finish(p) ==
  /\ run[p].pc = "lines" /\ Missing(p) = {} /\ run[p].todo = {}
  /\ line' = Released(p)
  /\ run' = [run EXCEPT ![p] = NotRunning]
  /\ UNCHANGED <<board, dev>>

\* The process is killed: the kernel releases its lines, the converter goes on.
Kill(p) ==
  /\ Running(p)
  /\ line' = Released(p)
  /\ run' = [run EXCEPT ![p] = NotRunning]
  /\ UNCHANGED <<board, dev>>

Work(p) ==
  \/ TakeLine(p) \/ FailLine(p) \/ Configure(p) \/ SetPointer(p) \/ Fetch(p)
  \/ ConfigureFails(p) \/ SetPointerFails(p) \/ FetchFails(p) \/ Finish(p)

Next ==
  \/ \E p \in Procs : Work(p) \/ Kill(p) \/ \E argv \in Argvs[board] : Start(p, argv)
  \/ Convert

Fairness == WF_vars(Convert) /\ \A p \in Procs : WF_vars(Work(p))

Spec == Init /\ [][Next]_vars /\ Fairness
-----------------------------------------------------------------------------
Plans ==
  [how : {"run"}, lines : [Channels -> -1 .. 1],
   reads : UNION {[S -> Modes] : S \in SUBSET Muxes}]

RunStates ==
  [pc : {"idle", "lines", "wait", "fetch"}, plan : Plans, todo : SUBSET Muxes,
   cur : Muxes, got : [mux : Muxes, code : Int, sure : BOOLEAN],
   clean : BOOLEAN, alone : BOOLEAN]

\* Every variable has its values.
TypeOK ==
  /\ board \in Boards
  /\ line \in [Channels -> [owner : Procs \cup {Nobody}, level : 0 .. 1]]
  /\ dev \in [word : Words, busy : BOOLEAN, by : Procs \cup {Nobody},
              mux : Muxes, data : Words, ptr : {0, 1}]
  /\ run \in [Procs -> RunStates]

\* A reading is the code of the input that was asked for: on board B always,
\* since each tool takes both lines before it touches the converter, on board A
\* if no other process ran; not if a transfer failed or a conversion of a
\* killed process was running (readVoltage, readVoltageDiff, main).
OwnReading ==
  \A p \in Procs : run[p].got.sure => run[p].got.code = Code(run[p].got.mux)

\* While the tool waits for an input and reads it, the lines of the input are
\* its own, at the level of the mode in which it prints the result, whatever
\* other processes, even for other inputs, do meanwhile
\* (preprocess_cmd_option, main).
ModeLinesHeld ==
  \A p \in Procs : run[p].pc \in {"wait", "fetch"} =>
    \A c \in LinesOf(board, run[p].cur) :
      line[c] = [owner |-> p, level |-> run[p].plan.reads[run[p].cur]]

\* Who may count on the converter for itself: every tool of board B once it has
\* its lines, a tool of board A while it is the only one.
Excl(p) == board = "B" \/ run[p].alone

\* The lines are those of the plan, and the plan's are those of its readings.
LinesInv ==
  \A p \in Procs :
    /\ \A c \in Channels : line[c].owner = p =>
         /\ Running(p)
         /\ line[c].level = run[p].plan.lines[c]
    /\ Running(p) =>
         /\ board = "B" => run[p].plan.lines[0] # -1
         /\ run[p].todo \subseteq DOMAIN run[p].plan.reads
         /\ \A m \in DOMAIN run[p].plan.reads : \A c \in LinesOf(board, m) :
              c \in Channels /\ run[p].plan.lines[c] = run[p].plan.reads[m]
    /\ run[p].pc \in {"wait", "fetch"} =>
         Missing(p) = {} /\ run[p].cur \in DOMAIN run[p].plan.reads
    /\ run[p].alone => \A q \in Procs : Running(q) => q = p

\* The conversion that a tool waits for is its own, and is over when it reads.
ConversionInv ==
  \A p \in Procs : (run[p].clean /\ Excl(p)) =>
    /\ run[p].pc = "wait" =>
         IF dev.busy
           THEN dev.by = p /\ dev.mux = run[p].cur /\ dev.word = Sent(ConfigWord(run[p].cur))
           ELSE dev.data = Code(run[p].cur)
    /\ run[p].pc = "fetch" => ~ dev.busy /\ dev.ptr = 0 /\ dev.data = Code(run[p].cur)

\* The inductive invariant behind TypeOK, OwnReading and ModeLinesHeld: which
\* lines a tool has at each place, and whose conversion the converter does.
IInv == TypeOK /\ LinesInv /\ ConversionInv /\ OwnReading

\* Every tool ends, without waiting for another one: a line that is taken ends
\* it at once (main).
RunsEnd == \A p \in Procs : Running(p) ~> ~ Running(p)
=============================================================================
