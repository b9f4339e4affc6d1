------------------------------- MODULE MCEeprom -------------------------------
(***************************************************************************)
(* Eeprom with a header of nine cells: a magic of two, so that it can be   *)
(* torn, a manufacturer longer than the serial number, as in EEPROM_HDR,   *)
(* and one address of two cells.                                           *)
(***************************************************************************)
EXTENDS Eeprom

MCLayout ==
  <<"magic", "magic", "rev", "bname", "serial", "manufacturer", "manufacturer",
    "macEth0", "macEth0", "macEth1", "tail">>

MCBytes == {"ff", "00", "a", "b"}

MCText == [c \in DOMAIN MCLayout |-> "a"]

\* -n, --sn and so on with an argument, and options without one.
Set(cells, byte) == [form |-> "set", bytes |-> [c \in cells |-> byte]]

Prefixed(cells, byte) == [form |-> "prefixed", bytes |-> [c \in cells |-> byte]]

Get == [form |-> "get", bytes |-> <<>>]

Name == [force |-> FALSE, options |-> [f \in {"bname"} |-> Set({4}, "b")]]

ForceName == [force |-> TRUE, options |-> [f \in {"bname"} |-> Set({4}, "b")]]

Address == [force |-> FALSE, options |-> [f \in {"macEth0"} |-> Set({8, 9}, "b")]]

\* A malformed address: the conversion stops after the first byte.
Malformed == [force |-> FALSE, options |-> [f \in {"macEth0"} |-> Set({8}, "b")]]

MalformedTail == [force |-> FALSE, options |-> [f \in {"macEth0"} |-> Prefixed({8}, "b")]]

Query == [force |-> FALSE, options |-> [f \in {"macEth0", "macEth1"} |-> Get]]

SecondAddress == [force |-> FALSE, options |-> [f \in {"macEth1"} |-> Prefixed({10}, "b")]]

Config == [force |-> FALSE, options |-> [f \in {"hwCfg"} |-> Set({}, "b")]]

Programmed == [c \in DOMAIN MCLayout |-> IF MCLayout[c] = "tail" THEN "ff" ELSE "a"]

DisjointInvocations ==
  {ForceName, Address, SecondAddress, Query, Config, MalformedTail}

AllInvocations == {ForceName, Name, Address, Malformed, MalformedTail, Query, Config}

ProgrammedContents == {Programmed}

-----------------------------------------------------------------------------
\* A shorter header for two processes that set the same fields under every
\* fault: the serial number, and an address that is malformed.
SmallLayout ==
  <<"magic", "magic", "rev", "serial", "macEth0", "macEth0", "macEth1">>

SmallText == [c \in DOMAIN SmallLayout |-> "a"]

ClashingInvocations ==
  {[force |-> force,
    options |-> [f \in {"serial", "macEth0"} |->
                   IF f = "serial" THEN Set({4}, "b") ELSE Set({5}, "b")]]
     : force \in BOOLEAN}

SmallContents == {[c \in DOMAIN SmallLayout |-> byte] : byte \in {"ff", "a"}}
=============================================================================
