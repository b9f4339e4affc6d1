-------------------------------- MODULE Gpio --------------------------------
(***************************************************************************)
(* The GPIO lines the tools of the expansion boards share, as the kernel   *)
(* hands them out through /sys/class/gpio and through the character        *)
(* device, and the processes that run these tools.                         *)
(***************************************************************************)
EXTENDS Integers, Sequences

CONSTANTS Lines, Procs

VARIABLES
  gpio,  \* line -> who has it, whether its files are new, its level
  run,   \* process -> where its program is and what it has still to do
  told   \* line -> the tool that drove it last, if that one was alone, and how

gpioVars == <<gpio, run, told>>

Levels == {"in", "low", "high"}

Tools == {"none", "uartmode", "setdo"}

GpioStates ==
  [by : {"none", "sysfs", "gpiod"}, fresh : BOOLEAN, level : Levels]

Untold == [tool |-> "none", level |-> "in"]

NotRunning == [pc |-> "idle", alone |-> FALSE, todo |-> <<>>, copy |-> <<>>]

GpioInit ==
  /\ gpio = [l \in Lines |-> [by |-> "none", fresh |-> FALSE, level |-> "in"]]
  /\ run = [p \in Procs |-> NotRunning]
  /\ told = [l \in Lines |-> Untold]

Running(p) == run[p].pc # "idle"

Quiet == \A p \in Procs : ~ Running(p)

\* A program starts with r, or has ended at once with r = NotRunning.  It is
\* "alone" while no other has run beside it and no command of its own has failed.
Launch(p, r) ==
  /\ ~ Running(p)
  /\ run' = [q \in Procs |->
       IF r = NotRunning THEN run[q]
       ELSE IF q = p THEN [r EXCEPT !.alone = Quiet]
                     ELSE [run[q] EXCEPT !.alone = FALSE]]

Exists(l) == gpio[l].by = "sysfs"

\* A write to "export"; the kernel refuses a line that somebody has, and
\* writeFile's result is dropped.
Exported(ls) ==
  [l \in Lines |-> IF l \in ls /\ gpio[l].by = "none"
                     THEN [gpio[l] EXCEPT !.by = "sysfs", !.fresh = TRUE]
                     ELSE gpio[l]]

\* The levels a write to "direction" can leave, its result dropped too.  The
\* files of a fresh line become writable for the group gpio some time later,
\* when udev has run its rule; a program that slept writes to them for sure.
Directed(l, level, slept) ==
  CASE ~ Exists(l) -> {gpio[l].level}
    [] Exists(l) /\ gpio[l].fresh /\ ~ slept -> {gpio[l].level, level}
    [] OTHER -> {level}

\* The history: who drove the line last is known if it was alone.
Tell(p, l, tool, level) ==
  told' = [told EXCEPT ![l] = IF run[p].alone
                                THEN [tool |-> tool, level |-> level] ELSE Untold]

\* The power is cut: the lines are inputs again and no program runs.
PowerLost ==
  /\ gpio' = [l \in Lines |-> [by |-> "none", fresh |-> FALSE, level |-> "in"]]
  /\ run' = [p \in Procs |-> NotRunning]
  /\ told' = [l \in Lines |-> Untold]
=============================================================================
