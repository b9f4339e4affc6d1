----------------------------- MODULE AtomicUpdate -----------------------------
(***************************************************************************)
(* What a fail-safe A/B update promises: the device has one installed      *)
(* build, an update replaces it in a single step, and every boot runs      *)
(* exactly the installed build, however often the power is cut.            *)
(***************************************************************************)
CONSTANTS Builds, Factory, Off

VARIABLES
  installed,   \* the build the next boot runs
  current      \* the build that runs; Off when the device is off

avars == <<installed, current>>

Init ==
  /\ installed = Factory
  /\ current = Off

Install(v) ==
  /\ current \in Builds
  /\ installed' = v
  /\ UNCHANGED current

Boot ==
  /\ current = Off
  /\ current' = installed
  /\ UNCHANGED installed

PowerOff ==
  /\ current' = Off
  /\ UNCHANGED installed

Next == Boot \/ PowerOff \/ \E v \in Builds : Install(v)

Spec == Init /\ [][Next]_avars

FairSpec == Spec /\ WF_avars(Boot)
=============================================================================
