---------------------------- MODULE ExpansionIO -----------------------------
(***************************************************************************)
(* uartmode, setdo and getdi on one device with expansion board B, whose   *)
(* image has the tools of both boards: DO0 and DO1 are the mode pins of    *)
(* port 1, DI0 and DI1 those of port 0.                                    *)
(***************************************************************************)
EXTENDS UartMode, DigitalIO

CONSTANTS
  UartArgs,  \* command lines of uartmode
  DoArgs,    \* of setdo
  DiArgs,    \* of getdi
  MaxRuns,   \* commands beside the boot's service
  MaxCuts    \* power cuts

\* The kernel has the lines of both boards.
ASSUME LinesAssumption == {26, 70, 71, 74, 75, 76, 86, 87} \subseteq Lines

\* getopt_long's options with the numbers atoi makes of their arguments, and
\* words of character codes.
ASSUME CommandsAssumption ==
  /\ UartArgs \subseteq Seq([opt : {"i", "h", "p?", "m?", "p", "m"}, num : Int])
  /\ DoArgs \subseteq Seq(Seq(Nat)) /\ DiArgs \subseteq Seq(Seq(Nat))
  /\ MaxRuns \in Nat /\ MaxCuts \in Nat

VARIABLES
  left,        \* the commands and power cuts that may still come
  undisturbed  \* no command was given since the power came

vars == <<gpio, run, told, file, disk, boot, left, undisturbed>>

\* Where the file is not the shipped one a single command and no power cut are
\* enough: what differs is what it loads.
Init ==
  /\ GpioInit
  /\ UartInit
  /\ left = IF file = Shipped THEN [runs |-> MaxRuns, cuts |-> MaxCuts]
                              ELSE [runs |-> 1, cuts |-> 0]
  /\ undisturbed = TRUE

Command(p) ==
  /\ left.runs > 0
  /\ left' = [left EXCEPT !.runs = @ - 1]
  /\ undisturbed' = FALSE
  /\ \/ \E argv \in UartArgs, root \in BOOLEAN : Uartmode(p, argv, root)
     \/ \E argv \in DoArgs : Setdo(p, argv) /\ UNCHANGED uartVars
     \/ \E argv \in DiArgs : Getdi(p, argv) /\ UNCHANGED uartVars

Work(p) ==
  /\ \/ UartStep(p)
     \/ (SetdoWrite(p) \/ GetdiRelease(p)) /\ UNCHANGED uartVars
  /\ UNCHANGED <<left, undisturbed>>

Service(p) == BootService(p) /\ UNCHANGED <<left, undisturbed>>

Next ==
  \/ \E p \in Procs : Command(p) \/ Work(p) \/ Service(p)
  \/ Flush /\ UNCHANGED <<left, undisturbed>>
  \/ /\ left.cuts > 0 /\ PowerCut
     /\ left' = [left EXCEPT !.cuts = @ - 1] /\ undisturbed' = TRUE

Spec == Init /\ [][Next]_vars
-----------------------------------------------------------------------------
TodoOf(pc) ==
  CASE pc \in {"sed", "rename", "export", "first", "second"} ->
         Seq([port : Int, mode : Int])
    [] pc \in {"write", "slept"} -> Seq([line : Lines, level : Levels])
    [] pc = "reading" -> Seq(Lines)
    [] OTHER -> {<<>>}

\* Every variable has its values, and each process the work that its place in
\* its program needs.
TypeOK ==
  /\ gpio \in [Lines -> GpioStates]
  /\ told \in [Lines -> [tool : Tools, level : Levels]]
  /\ boot \in {"service", "up"}
  /\ undisturbed \in BOOLEAN
  /\ left \in [runs : Nat, cuts : Nat]
  /\ \A p \in Procs :
       /\ run[p].pc \in {"idle", "hung", "sed", "rename", "export", "first",
                         "second", "write", "slept", "reading"}
       /\ run[p].todo \in TodoOf(run[p].pc)
       /\ run[p].pc \in {"sed", "rename", "first", "second", "write", "slept",
                         "reading"} => Len(run[p].todo) >= 1

\* A line keeps the level its last driver gave it if that one was alone:
\* no later command, of whichever tool, turns it without being the one told
\* (setdo's main, getdi's request of a line, setUartMode).
PinsAsTold ==
  \A l \in Lines : told[l] # Untold => gpio[l].level = told[l].level

-----------------------------------------------------------------------------
\* p exports l if need be, and sleeps before it writes to its files.
Wakes(p, l) ==
  \/ run[p].pc = "slept" /\ run[p].todo[1].line = l
  \/ run[p].pc = "first" /\ l = Pins(run[p].todo[1].port)[1]
  \/ run[p].pc \in {"first", "second"} /\ l = Pins(run[p].todo[1].port)[2]

Reads(p, l) == run[p].pc = "reading" /\ run[p].todo[1] = l

\* Where a program is about to touch lines, it knows which.
KnowsItsLines ==
  \A p \in Procs :
    /\ run[p].pc \in {"write", "slept"} =>
         run[p].todo[1] \in [line : Lines, level : Levels]
    /\ run[p].pc \in {"first", "second"} => run[p].todo[1].port \in Ports
    /\ run[p].pc = "reading" => run[p].todo[1] \in Lines

\* The lines p is about to drive are exported, with files that are writable or
\* will be when it wakes.
HasItsLines(p) ==
  /\ run[p].pc \in {"write", "slept"} => Exists(run[p].todo[1].line)
  /\ run[p].pc = "write" => ~ gpio[run[p].todo[1].line].fresh
  /\ run[p].pc \in {"first", "second"} =>
       \A k \in 1 .. 2 : Exists(Pins(run[p].todo[1].port)[k])

AloneHasLines ==
  \A p \in Procs :
    run[p].alone /\ Running(p) =>
      (\A q \in Procs : Running(q) => q = p) /\ HasItsLines(p)

\* A line is fresh while its exporter sleeps, and the kernel's while one getdi
\* reads it; one that was driven stays exported.
LinesAccounted ==
  \A l \in Lines :
    /\ gpio[l].fresh => \E p \in Procs : Wakes(p, l)
    /\ gpio[l].by = "gpiod" => \E p \in Procs : Reads(p, l)
    /\ told[l] # Untold => Exists(l)
    /\ \A p \in Procs : Reads(p, l) =>
         gpio[l].by = "gpiod" /\ \A q \in Procs : Reads(q, l) => q = p

Shaped ==
  /\ gpio \in [Lines -> GpioStates]
  /\ told \in [Lines -> [tool : Tools, level : Levels]]
  /\ run = [p \in Procs |-> [pc |-> run[p].pc, alone |-> run[p].alone,
                            todo |-> run[p].todo, copy |-> run[p].copy]]
  /\ \A p \in Procs : run[p].alone \in BOOLEAN

\* The inductive invariant behind PinsAsTold: nobody takes from setdo and
\* uartmode a line that they drove, and what drives a line with nothing running
\* beside it gets through to it.
LinesInv == Shaped /\ KnowsItsLines /\ AloneHasLines /\ LinesAccounted /\ PinsAsTold

-----------------------------------------------------------------------------
Driving(p) == run[p].pc \in {"export", "first", "second"}

\* Some program is still going to drive the pins of port.
Pending(port) ==
  \E p \in Procs : Driving(p) /\ \E i \in DOMAIN run[p].todo :
    run[p].todo[i].port = port /\ run[p].todo[i].mode \in Modes

\* p has the modes of the file before it, and has driven the first pin where it
\* is about to drive the second.
FollowsFile(p) ==
  /\ \A i \in DOMAIN run[p].todo :
       run[p].todo[i].port \in Ports =>
         run[p].todo[i].mode = ModeOf(file, run[p].todo[i].port)
  /\ LET t == run[p].todo[1]
     IN run[p].pc = "second" /\ t.mode \in Modes =>
          told[Pins(t.port)[1]] =
            [tool |-> "uartmode", level |-> portMode[t.mode + 1][1]]

HasMode(text, port) ==
  port < loadconf(text).portnums /\ ModeOf(text, port) \in Modes

Restored(port) ==
  \A k \in 1 .. 2 : gpio[Pins(port)[k]].level = portMode[ModeOf(file, port) + 1][k]

\* The inductive invariant behind BootRestores: the service is alone, and has
\* driven the pins of each port or will.
BootInv ==
  undisturbed =>
    /\ boot = "service" => Quiet
    /\ boot = "up" =>
         /\ \A p \in Procs : Running(p) =>
              run[p].alone /\ (run[p].pc = "hung" \/ (Driving(p) /\ FollowsFile(p)))
         /\ \A port \in Ports :
              HasMode(file, port) => Restored(port) \/ Pending(port)

\* The texts that are or may become uartmode.toml.
Copies == {run[p].copy : p \in {q \in Procs : run[q].pc = "rename"}}

Versions == {file, disk} \cup Copies

\* The pins a text gives to port are as uartmode was last told, or will be.
PinsAgree(text, port) ==
  LET pins == Pins(port)
  IN (/\ told[pins[1]].tool = "uartmode" /\ told[pins[2]].tool = "uartmode"
      /\ ModeOf(text, port) \in Modes)
       => \/ Pending(port)
          \/ \A k \in 1 .. 2 : told[pins[k]].level = portMode[ModeOf(text, port) + 1][k]

\* No version has other ports than the file.
VersionsAlike ==
  \A v \in Versions :
    /\ loadconf(v).how = loadconf(file).how
    /\ loadconf(v).portnums = loadconf(file).portnums

\* Who is to set a port found it in the file.
SetsKnown ==
  \A p \in Procs : run[p].pc \in {"sed", "rename"} =>
    /\ loadconf(file).how = "run"
    /\ Len(run[p].todo) = 1
    /\ run[p].todo[1].port < loadconf(file).portnums
    /\ run[p].todo[1].port < MAX_PORTS

\* Who drives pins with nothing running beside it drives them as the file says.
AloneFollows == \A p \in Procs : run[p].alone /\ Driving(p) => FollowsFile(p)

CopiesAgree == \A v \in {file} \cup Copies, port \in Ports : PinsAgree(v, port)

\* The inductive invariant behind Agree.
AgreeInv == VersionsAlike /\ SetsKnown /\ AloneFollows /\ CopiesAgree

FilesTyped ==
  /\ file \in Texts /\ disk \in Texts
  /\ \A p \in Procs : run[p].pc = "rename" => run[p].copy \in Texts

\* All that the proofs carry along.
IInv == FilesTyped /\ LinesInv /\ BootInv /\ AgreeInv

-----------------------------------------------------------------------------
\* A boot during which nobody runs a command ends with the pins of every port
\* the file gives a mode driven to that mode, whatever was written, renamed or
\* driven when the power was cut (the service, loadconf, procInitPortsStatus,
\* setUartMode).
BootRestores ==
  (undisturbed /\ boot = "up" /\ Quiet) =>
    \A port \in Ports :
      (port < loadconf(file).portnums /\ ModeOf(file, port) \in Modes) =>
        \A k \in 1 .. 2 :
          gpio[Pins(port)[k]].level = portMode[ModeOf(file, port) + 1][k]
=============================================================================
