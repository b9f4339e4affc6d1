--------------------------- MODULE MCMediaAutomount ---------------------------
(***************************************************************************)
(* MediaAutomount with two devices and media that meet every branch of the *)
(* script.                                                                 *)
(***************************************************************************)
EXTENDS MediaAutomount

Plain == [label |-> None, uuid |-> TRUE, fstab |-> {}, good |-> TRUE, id |-> 1]

Labelled == [label |-> "DATA", uuid |-> TRUE, fstab |-> {}, good |-> TRUE, id |-> 2]

Unreadable == [label |-> None, uuid |-> FALSE, fstab |-> {}, good |-> FALSE, id |-> 3]

\* In fstab by its label and by its UUID.
ByLabel == [label |-> "BACKUP", uuid |-> TRUE, fstab |-> {"label"}, good |-> TRUE, id |-> 4]

ByUuid == [label |-> None, uuid |-> TRUE, fstab |-> {"uuid"}, good |-> TRUE, id |-> 5]

\* In fstab by its UUID only, and with a label: the entry is passed over.
Missed == [Labelled EXCEPT !.fstab = {"uuid"}]

AllMedia == {Plain, Missed, Unreadable, ByLabel, ByUuid}

PlainMedia == {Plain, Labelled}
=============================================================================
