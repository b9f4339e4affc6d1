----------------------------- MODULE DigitalIO ------------------------------
(***************************************************************************)
(* setdo and getdi, the digital outputs and inputs of expansion board A.   *)
(* A command line is the sequence of its words, a word the sequence of its *)
(* character codes.                                                        *)
(***************************************************************************)
EXTENDS Gpio

DoLine == <<74, 75, 76, 26>>

DiLine == <<70, 71, 86, 87>>

Code0 == 48

PinOk(w) == Len(w) = 1 /\ w[1] - Code0 \in 0 .. 3

\* setdo takes any character for a state; what sorts behind "0" is high.
SetdoPlan(argv) ==
  IF Len(argv) < 2 \/ ~ PinOk(argv[1]) \/ Len(argv[2]) # 1
    THEN NotRunning
    ELSE LET line == DoLine[argv[1][1] - Code0 + 1]
         IN [NotRunning EXCEPT
               !.pc = IF Exists(line) THEN "write" ELSE "slept",
               !.todo = <<[line |-> line,
                           level |-> IF argv[2][1] > Code0 THEN "high" ELSE "low"]>>]

\* main up to the sleep: only the process that exports the line waits.
Setdo(p, argv) ==
  LET plan == SetdoPlan(argv)
  IN /\ Launch(p, plan)
     /\ gpio' = IF plan.pc = "slept" THEN Exported({plan.todo[1].line}) ELSE gpio
     /\ UNCHANGED told

\* The write to "direction", after which setdo ends with status 0.
SetdoWrite(p) ==
  /\ run[p].pc \in {"write", "slept"}
  /\ LET w == run[p].todo[1]
     IN /\ \E level \in Directed(w.line, w.level, run[p].pc = "slept") :
             gpio' = [gpio EXCEPT ![w.line].level = level,
                                  ![w.line].fresh = @ /\ run[p].pc # "slept"]
        /\ Tell(p, w.line, "setdo", w.level)
  /\ run' = [run EXCEPT ![p] = NotRunning]

\* Mutant of Getdi: the line is taken from whoever has it.
MutGetdi(p, argv) ==
  LET line == DiLine[argv[1][1] - Code0 + 1]
  IN /\ Len(argv) >= 1 /\ PinOk(argv[1])
     /\ Launch(p, [NotRunning EXCEPT !.pc = "reading", !.todo = <<line>>])
     /\ gpio' = [gpio EXCEPT ![line].by = "gpiod", ![line].level = "in"]
     /\ UNCHANGED told

\* getdi asks for the line as an input and reads it; it fails where sysfs or
\* another getdi has the line.
Getdi(p, argv) ==
  LET ok == Len(argv) >= 1 /\ PinOk(argv[1])
      line == DiLine[argv[1][1] - Code0 + 1]
      got == ok /\ gpio[line].by = "none"
  IN /\ Launch(p, IF got THEN [NotRunning EXCEPT !.pc = "reading", !.todo = <<line>>]
                         ELSE NotRunning)
     /\ gpio' = IF got THEN [gpio EXCEPT ![line].by = "gpiod", ![line].level = "in"]
                       ELSE gpio
     /\ UNCHANGED told

\* The value is read and printed, and the line released.
GetdiRelease(p) ==
  /\ run[p].pc = "reading"
  /\ gpio' = [gpio EXCEPT ![run[p].todo[1]].by = "none"]
  /\ run' = [run EXCEPT ![p] = NotRunning]
  /\ UNCHANGED told
=============================================================================
