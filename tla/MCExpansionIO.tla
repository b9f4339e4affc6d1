--------------------------- MODULE MCExpansionIO ----------------------------
(***************************************************************************)
(* ExpansionIO for TLC: the shipped uartmode.toml and every file one edit  *)
(* away from it, and the command lines that differ in what they do.        *)
(***************************************************************************)
EXTENDS ExpansionIO, TLC

MCWords ==
  {"UART", "portnums", "devices", "MODE", "on"} \cup {PortKey[i] : i \in DOMAIN PortKey}

MCLines == {26, 70, 71, 74, 75, 76, 86, 87}

\* Lines an administrator may add or leave instead of another.
Extra ==
  { <<Sym("#")>>,
    <<Sym("["), Word("UART"), Sym("]")>>,
    <<Sym("["), Word("MODE"), Sym("]"), Sym("#")>>,
    <<Sym("["), Word("MODE")>>,
    <<Sym("["), Sym("]")>>,
    <<Word("port0Mode"), Sym("="), Num(0), Sym("#")>>,
    <<Word("port1Mode"), Sym("="), Sym("str")>>,
    <<Word("port0Mode"), Sym("="), Word("on")>>,
    <<Word("port1Mode"), Num(2)>>,
    <<Word("MODE"), Sym("="), Num(1)>>,
    <<Word("portnums"), Sym("="), Num(1)>>,
    <<Num(-1)>>,
    <<Sym("=")>> }

Without(text, i) == SubSeq(text, 1, i - 1) \o SubSeq(text, i + 1, Len(text))

With(text, i, line) == SubSeq(text, 1, i) \o <<line>> \o SubSeq(text, i + 1, Len(text))

\* A line is added behind each line, but once where a blank line stands.
MCFiles ==
  {Shipped}
    \cup {Without(Shipped, i) : i \in DOMAIN Shipped}
    \cup {With(Shipped, i, line) : i \in 1 .. Len(Shipped) \ {4}, line \in Extra}

Opt(o, n) == [opt |-> o, num |-> n]

\* A set of either port, a mode that is no mode, a port beyond the last, and a
\* mode followed by something else to do.
MCUartArgs ==
  { <<Opt("p", 0), Opt("m", 0)>>, <<Opt("m", 2), Opt("p", 1)>>,
    <<Opt("p", 0), Opt("m", -2)>>, <<Opt("p", 2), Opt("m", 0)>>,
    <<Opt("m", 1), Opt("h", 0)>> }

\* setdo 1 1, on a pin of a port, and setdo 8 1; getdi 0 and getdi 10.
MCDoArgs == { << <<49>>, <<49>> >>, << <<56>>, <<49>> >> }

MCDiArgs == { << <<48>> >>, << <<49, 48>> >> }

\* Which process runs a program does not matter to any property.
Interchangeable == Permutations(Procs)
=============================================================================
