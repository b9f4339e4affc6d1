------------------------------ MODULE UartMode ------------------------------
(***************************************************************************)
(* uartmode: the mode of each serial port is kept in uartmode.toml and put *)
(* on the two mode pins of its transceiver, at each boot and when it is    *)
(* changed.                                                                *)
(*                                                                         *)
(* A command line is a sequence of [opt |-> letter, num |-> integer]; "p?" *)
(* and "m?" are -p and -m with an argument that is no number.              *)
(***************************************************************************)
EXTENDS Gpio, Toml

CONSTANT Files  \* the contents uartmode.toml may have been left with by hand

VARIABLES
  file,  \* uartmode.toml as programs see it
  disk,  \* uartmode.toml as a power cut leaves it
  boot   \* "service" until the boot's uartmode -i has been started

uartVars == <<file, disk, boot>>

Default == -1

Ports == 0 .. 1

MAX_PORTS == 6

PortKey ==
  <<"port0Mode", "port1Mode", "port2Mode", "port3Mode", "port4Mode", "port5Mode">>

\* The file is text, and may name every port.
ASSUME FilesAssumption ==
  /\ Files \subseteq Texts
  /\ {PortKey[i] : i \in 1 .. MAX_PORTS} \subseteq Words

portGpios == << <<70, 71>>, <<74, 75>> >>

\* RS-232, RS-485 half duplex, RS-485 full duplex.
portMode == << <<"low", "high">>, <<"high", "low">>, <<"low", "low">> >>

Modes == 0 .. 2

Pins(port) == portGpios[port + 1]

Shipped ==
  << <<>>,
     <<Sym("["), Word("UART"), Sym("]")>>,
     <<Word("portnums"), Sym("="), Num(2)>>,
     <<Word("devices"), Sym("="), Sym("str")>>,
     <<>>,
     <<Sym("["), Word("MODE"), Sym("]")>>,
     <<Word("port0Mode"), Sym("="), Num(1)>>,
     <<Word("port1Mode"), Sym("="), Num(1)>> >>

NoConf == [how |-> "run", portnums |-> 0, mode |-> [i \in 0 .. MAX_PORTS - 1 |-> 0]]

\* What is taken from the table t.  A text that is refused leaves the initial
\* values; one without the tables and integers asked for stops the program.
Taken(t) ==
  LET n == GetInteger(t, <<"UART">>, "portnums")
      read == {i \in 0 .. MAX_PORTS - 1 : i < n}
      whole == /\ HasTable(t, <<"UART">>) /\ HasInteger(t, <<"UART">>, "portnums")
               /\ HasTable(t, <<"MODE">>)
               /\ \A i \in read : HasInteger(t, <<"MODE">>, PortKey[i + 1])
  IN CASE t.at = "null" -> NoConf
       [] t.at = "hang" -> [NoConf EXCEPT !.how = "hang"]
       [] t.at = "abort" \/ (t.at \in {"parse", "keys"} /\ ~ whole) ->
            [NoConf EXCEPT !.how = "abort"]
       [] OTHER -> [how |-> "run", portnums |-> n,
                    mode |-> [i \in 0 .. MAX_PORTS - 1 |->
                      IF i \in read THEN GetInteger(t, <<"MODE">>, PortKey[i + 1])
                                    ELSE 0]]

loadconf(text) == Taken(Parse(text))

\* One round of the loop over getopt_long.  An argument that is no number
\* leaves what to do as it was.
Scan(o, a) ==
  CASE a.opt = "i" -> [o EXCEPT !.do = "init"]
    [] a.opt = "h" -> [o EXCEPT !.do = "help"]
    [] a.opt = "p?" -> [o EXCEPT !.port = Default]
    [] a.opt = "m?" -> [o EXCEPT !.mode = Default]
    [] a.opt = "p" -> [o EXCEPT !.port = a.num,
                                !.do = IF @ = "set" THEN "set" ELSE "get"]
    [] a.opt = "m" -> [o EXCEPT !.mode = a.num, !.do = "set"]

\* What to do before the loop and behind each of its rounds.
Scans(argv) ==
  LET after[n \in 0 .. Len(argv)] ==
        IF n = 0 THEN [do |-> "help", port |-> Default, mode |-> Default]
                 ELSE Scan(after[n - 1], argv[n])
  IN after

\* preprocess_cmd_option: what a command line asks for, or the usage text.
Options(argv, conf, root) ==
  LET o == Scans(argv)[Len(argv)]
      portOk == o.port <= conf.portnums - 1 /\ o.port < MAX_PORTS
      setOk == /\ o.port # Default /\ o.mode # Default
               /\ portOk /\ o.mode <= 2 /\ root
  IN IF (o.do = "set" /\ ~ setOk) \/ (o.do = "get" /\ ~ portOk)
       THEN [o EXCEPT !.do = "help"] ELSE o

\* Mutant of WithPins: the loop over the ports stops one early.
MutWithPins(n) == IF n > 2 THEN 1 ELSE n - 1

\* The ports of setUartMode among the first n of the file.
WithPins(n) == IF n > 2 THEN 2 ELSE n

\* What main goes on to.  Ports beyond the second have no pins, and are passed
\* over; to print a mode or the usage text changes nothing.
Plan(argv, root) ==
  LET conf == loadconf(file)
      o == Options(argv, conf, root)
  IN CASE conf.how = "hang" -> [NotRunning EXCEPT !.pc = "hung"]
       [] conf.how = "run" /\ o.do = "set" ->
            [NotRunning EXCEPT !.pc = "sed", !.todo = <<[port |-> o.port, mode |-> o.mode]>>]
       [] conf.how = "run" /\ o.do = "init" ->
            [NotRunning EXCEPT !.pc = "export",
               !.todo = [i \in 1 .. WithPins(conf.portnums) |->
                           [port |-> i - 1, mode |-> conf.mode[i - 1]]]]
       [] OTHER -> NotRunning

Uartmode(p, argv, root) ==
  /\ Launch(p, Plan(argv, root))
  /\ UNCHANGED <<gpio, told, file, disk, boot>>

\* The service of the boot.
BootService(p) ==
  /\ boot = "service"
  /\ Launch(p, Plan(<<[opt |-> "i", num |-> 0]>>, TRUE))
  /\ boot' = "up"
  /\ UNCHANGED <<gpio, told, file, disk>>

\* updateMode: sed replaces the key of the port, wherever it stands in a line,
\* and the rest of that line.
SedLine(line, port, mode) ==
  LET at == {i \in DOMAIN line :
               port \in 0 .. MAX_PORTS - 1 /\ line[i] = Word(PortKey[port + 1])}
      first == CHOOSE i \in at : \A j \in at : i <= j
  IN IF at = {} THEN line
     ELSE SubSeq(line, 1, first - 1)
            \o <<Word(PortKey[port + 1]), Sym("="), Num(mode)>>

\* Mutant of Sed: only the first line that has the key is replaced.
MutSed(text, port, mode) ==
  LET hit == {i \in DOMAIN text : SedLine(text[i], port, 9) # text[i]}
  IN [i \in DOMAIN text |-> IF \A j \in hit : i <= j
                              THEN SedLine(text[i], port, mode) ELSE text[i]]

\* Mutant of Sed: the port is written for the mode.
MutSedPort(text, port, mode) ==
  [i \in DOMAIN text |-> SedLine(text[i], port, port)]

Sed(text, port, mode) == [i \in DOMAIN text |-> SedLine(text[i], port, mode)]

\* sed -i copies the file and renames the copy.
SedRead(p) ==
  /\ run[p].pc = "sed"
  /\ run' = [run EXCEPT ![p].pc = "rename", ![p].copy = file]
  /\ UNCHANGED <<gpio, told, file, disk, boot>>

SedRename(p) ==
  /\ run[p].pc = "rename"
  /\ LET t == run[p].todo[1] IN file' = Sed(run[p].copy, t.port, t.mode)
  /\ run' = [run EXCEPT ![p].pc = "export", ![p].copy = <<>>]
  /\ UNCHANGED <<gpio, told, disk, boot>>

\* sed, or the shell that system() asks for it, fails and leaves the file as it
\* was.  Nobody looks at the result: the pins are driven all the same.
SedFails(p) ==
  /\ run[p].pc \in {"sed", "rename"}
  /\ run' = [run EXCEPT ![p].pc = "export", ![p].alone = FALSE, ![p].copy = <<>>]
  /\ UNCHANGED <<gpio, told, file, disk, boot>>

\* setUartMode: both lines are exported, and the program sleeps in any case
\* ("if (bExport = 1)"); each line is driven by a write of its own, unless the
\* mode is none of the table.
Export(p) ==
  /\ run[p].pc = "export" /\ run[p].todo # <<>>
  /\ LET port == run[p].todo[1].port
     IN IF port \in Ports
          THEN /\ gpio' = Exported({Pins(port)[1], Pins(port)[2]})
               /\ run' = [run EXCEPT ![p].pc = "first"]
          ELSE /\ run' = [run EXCEPT ![p].todo = Tail(@)]
               /\ UNCHANGED gpio
  /\ UNCHANGED <<told, file, disk, boot>>

\* Mutant of Drive: the table is read without the mapping of the pins.
MutDrive(p, k) ==
  LET t == run[p].todo[1]
      line == Pins(t.port)[k]
  IN /\ \E level \in Directed(line, portMode[(t.mode % 3) + 1][1], TRUE) :
          gpio' = [gpio EXCEPT ![line].level = level, ![line].fresh = FALSE]
     /\ Tell(p, line, "uartmode", portMode[(t.mode % 3) + 1][1])

\* The k-th line of the port gets its level; then goes the program to pc.
Drive(p, k) ==
  LET t == run[p].todo[1]
      line == Pins(t.port)[k]
  IN IF t.mode \in Modes
       THEN /\ \E level \in Directed(line, portMode[t.mode + 1][k], TRUE) :
                 gpio' = [gpio EXCEPT ![line].level = level, ![line].fresh = FALSE]
            /\ Tell(p, line, "uartmode", portMode[t.mode + 1][k])
       ELSE /\ gpio' = [gpio EXCEPT ![line].fresh = FALSE]
            /\ UNCHANGED told

DriveFirst(p) ==
  /\ run[p].pc = "first"
  /\ Drive(p, 1)
  /\ run' = [run EXCEPT ![p].pc = "second"]
  /\ UNCHANGED uartVars

\* Mutant of DriveSecond: the next port is driven without a look at the end of
\* the list.
MutDriveSecond(p) ==
  /\ run[p].pc = "second"
  /\ Drive(p, 2)
  /\ run' = [run EXCEPT ![p].pc = "first", ![p].todo = Tail(@)]
  /\ UNCHANGED uartVars

DriveSecond(p) ==
  /\ run[p].pc = "second"
  /\ Drive(p, 2)
  /\ run' = [run EXCEPT ![p].pc = "export", ![p].todo = Tail(@)]
  /\ UNCHANGED uartVars

Exit(p) ==
  /\ run[p].pc = "export" /\ run[p].todo = <<>>
  /\ run' = [run EXCEPT ![p] = NotRunning]
  /\ UNCHANGED <<gpio, told, file, disk, boot>>

\* The file system writes the renamed file out.
Flush ==
  /\ disk # file
  /\ disk' = file
  /\ UNCHANGED <<gpio, run, told, file, boot>>

PowerCut ==
  /\ PowerLost
  /\ file' = disk
  /\ boot' = "service"
  /\ UNCHANGED disk

UartInit == file \in Files /\ disk = file /\ boot = "service"

UartStep(p) ==
  \/ SedRead(p) \/ SedRename(p) \/ SedFails(p) \/ Export(p)
  \/ DriveFirst(p) \/ DriveSecond(p) \/ Exit(p)
-----------------------------------------------------------------------------
ModeOf(text, port) == loadconf(text).mode[port]

\* A legal text in which the key of a port stands for a port and nothing else.
Tidy(text) ==
  /\ IsLegal(text)
  /\ \A i \in DOMAIN text, port \in 0 .. MAX_PORTS - 1 :
       IsHeader(text[i]) => text[i][2].w # PortKey[port + 1]

\* A file whose text is legal means to the parser what it says.  A text with a
\* comment behind a header is not among them, IsHeader leaves it out, nor is one
\* that gives a name twice (toml_parse with everything below it).
LegalFilesLoad ==
  IsLegal(file) =>
    /\ Parse(file).at \in {"parse", "keys"}
    /\ Parse(file).tabs = Sections(file)
    /\ Parse(file).keys = Meaning(file)

\* File and pins part in two ways only: something ran beside the uartmode that
\* drove the pins, or its sed failed.  Pins driven last by one that neither
\* happened to have the mode of the file whenever nothing runs, whatever was set,
\* failed or cut off before, for this port or the other (updateMode and
\* setUartMode, main, the service).
Agree ==
  Quiet => \A port \in Ports :
    LET pins == Pins(port)
    IN (/\ told[pins[1]].tool = "uartmode" /\ told[pins[2]].tool = "uartmode"
        /\ ModeOf(file, port) \in Modes)
         => \A k \in 1 .. 2 :
              gpio[pins[k]].level = portMode[ModeOf(file, port) + 1][k]

\* A sed that replaces the file it has copied, nobody having replaced it in
\* between, changes what the next start loads for its port and for no other,
\* whatever else the file holds (updateMode, loadconf).
UpdateSurvives ==
  [][\A p \in Procs :
       SedRename(p) /\ run[p].copy = file
         => LET t == run[p].todo[1]
            IN loadconf(file') = IF t.port \in 0 .. MAX_PORTS - 1
                                   THEN [loadconf(file) EXCEPT !.mode[t.port] = t.mode]
                                   ELSE loadconf(file)]_<<file, run>>
=============================================================================
