----------------------------- MODULE AdcOptions -----------------------------
(***************************************************************************)
(* The command lines of rd_exadc (expansion board A) and rd_exbadc (board  *)
(* B) and what main of ads1115_example.c makes of them: the mode of every  *)
(* ADC_SET line and the readings to take.                                  *)
(*                                                                         *)
(* A command line is a sequence of options [opt |-> letter, args |-> the   *)
(* integers atoi makes of the words from its argument on].                 *)
(***************************************************************************)
EXTENDS Integers, Sequences

VOLTAGE_MODE == 0

CURRENT_MODE == 1

INVALID_MODE == -1

Modes == {VOLTAGE_MODE, CURRENT_MODE}

Channels == 0 .. 3

Groups == 0 .. 1

\* A command line that only prints the usage text, and one that reads argv
\* behind its last word.
Usage == [how |-> "usage"]

Crash == [how |-> "crash"]

\* The multiplexer setting of a single channel, and of a pair of channels.
MuxChan(c) == 4 + c

MuxDiff(g) == 3 * g

NoOption ==
  [ch |-> -1, mode |-> INVALID_MODE, group |-> -1, how |-> "loop",
   chmode |-> [c \in Channels |-> INVALID_MODE],
   groupmode |-> [g \in Groups |-> INVALID_MODE]]

\* An option with one argument, which has to be of a set.
Take(s, field, a, allowed) ==
  IF a.args[1] \in allowed THEN [s EXCEPT ![field] = a.args[1]]
                           ELSE [s EXCEPT !.how = "usage"]

\* -a and -d take one word per channel or group, whether argv has that many
\* or not, and end the loop.
TakeAll(s, field, a, keys) ==
  IF \A k \in keys : k + 1 <= Len(a.args)
    THEN [s EXCEPT ![field] = [k \in keys |-> a.args[k + 1]], !.how = "end"]
    ELSE [s EXCEPT !.how = "crash"]

\* One round of the loop over getopt_long.  -h sets a result that nobody
\* looks at.
ScanA(s, a) ==
  CASE s.how # "loop" \/ a.opt = "h" -> s
    [] a.opt = "c" -> Take(s, "ch", a, Channels)
    [] a.opt = "m" -> Take(s, "mode", a, Modes)
    [] a.opt = "g" -> Take(s, "group", a, Groups)
    [] a.opt = "a" -> TakeAll(s, "chmode", a, Channels)
    [] a.opt = "d" -> TakeAll(s, "groupmode", a, Groups)

ScanB(s, a) ==
  CASE s.how # "loop" \/ a.opt = "h" -> s
    [] a.opt = "c" -> Take(s, "ch", a, Groups)
    [] a.opt = "m" -> Take(s, "mode", a, Modes)
    [] a.opt = "a" -> TakeAll(s, "chmode", a, Groups)

Scan(board, argv) ==
  LET after[n \in 0 .. Len(argv)] ==
        IF n = 0 THEN NoOption
        ELSE IF board = "A" THEN ScanA(after[n - 1], argv[n])
                            ELSE ScanB(after[n - 1], argv[n])
  IN after[Len(argv)]


\* The level a line is requested with: any mode but voltage is high, and a line
\* without a mode is left alone.
Level(mode) ==
  IF mode = INVALID_MODE THEN -1 ELSE IF mode = VOLTAGE_MODE THEN 0 ELSE 1

\* The level of every line, and the mode of every reading a tool is to take, by
\* its multiplexer setting.
Run(modes, reads) ==
  [how |-> "run", lines |-> [c \in Channels |-> Level(modes[c])], reads |-> reads]

Given(f, k, m) == IF k # -1 /\ m # INVALID_MODE THEN [f EXCEPT ![k] = m] ELSE f

\* A group's mode goes to the lines of both of its channels.
Spread(group, chmode) ==
  [c \in Channels |-> IF group[c \div 2] # INVALID_MODE
                        THEN group[c \div 2] ELSE chmode[c]]

ReadGroups(group) ==
  [x \in {MuxDiff(g) : g \in {h \in Groups : group[h] \in Modes}} |-> group[x \div 3]]

ReadChannels(chmode) ==
  [x \in {MuxChan(c) : c \in {d \in Channels : chmode[d] \in Modes}} |-> chmode[x - 4]]

\* Mutant of PlanA: the modes of the groups do not reach the lines of their
\* channels.
MutPlanA(s) ==
  LET group == Given(s.groupmode, s.group, s.mode)
      chmode == Given(s.chmode, s.ch, s.mode)
  IN IF s.how = "usage" \/ s = NoOption THEN Usage
     ELSE IF \E g \in Groups : group[g] \in Modes
       THEN Run(chmode, ReadGroups(group)) ELSE Run(chmode, ReadChannels(chmode))

\* What board A's tool does: if there is a group with a mode, only groups are
\* read, and -c counts for nothing.
PlanA(s) ==
  LET group == Given(s.groupmode, s.group, s.mode)
      spread == Spread(group, s.chmode)
      diffmode == \E g \in Groups : group[g] # INVALID_MODE
      chmode == IF diffmode THEN spread ELSE Given(spread, s.ch, s.mode)
  IN IF s.how = "usage" \/ \A c \in Channels : chmode[c] = INVALID_MODE THEN Usage
     ELSE IF \E g \in Groups : group[g] \in Modes
       THEN Run(chmode, ReadGroups(group)) ELSE Run(chmode, ReadChannels(chmode))

\* What board B's tool does: it has two inputs, each a pair of channels with a
\* line of its own, and sets both lines, to voltage where nothing is asked for.
PlanB(s) ==
  LET chmode == Given(s.chmode, s.ch, s.mode)
      lines == [c \in Channels |->
                  IF c \notin Groups THEN INVALID_MODE
                  ELSE IF chmode[c] = INVALID_MODE THEN VOLTAGE_MODE ELSE chmode[c]]
  IN IF s.how = "usage" \/ \A g \in Groups : chmode[g] = INVALID_MODE THEN Usage
     ELSE Run(lines, ReadGroups(chmode))

\* preprocess_cmd_option, and what main takes from it.
Plan(board, argv) ==
  LET s == Scan(board, argv)
  IN IF s.how = "crash" THEN Crash
     ELSE IF board = "A" THEN PlanA(s) ELSE PlanB(s)
=============================================================================
