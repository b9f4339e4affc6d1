-------------------------- MODULE SwuHandlers_proofs --------------------------
(***************************************************************************)
(* Proofs about the A/B update for any number of slots, files and builds.  *)
(***************************************************************************)
EXTENDS SwuHandlers, RootParam_proofs

\* The index calculation of roundrobin stays in the device list and never
\* returns the current index.
LEMMA NextIndexMoves ==
  ASSUME NEW n \in Nat, n >= 2, NEW c \in 1 .. n
  PROVE  NextIndex(c, n) \in 1 .. n /\ NextIndex(c, n) # c
<1>1. CASE c < n
  <2>1. c % n = c
    BY <1>1, SMT
  <2>2. QED
    BY <1>1, <2>1 DEF NextIndex
<1>2. CASE c = n
  <2>1. c % n = 0
    BY <1>2, SMT
  <2>2. QED
    BY <1>2, <2>1 DEF NextIndex
<1>3. QED
  BY <1>1, <1>2

-----------------------------------------------------------------------------
(***************************************************************************)
(* Type correctness                                                        *)
(***************************************************************************)

\* What roundrobin takes for the current root is an entry of the list or none.
LEMMA CurrentRootIsSlot ==
  ASSUME TypeOK, power = "up"
  PROVE  CurrentRoot \in {0} \cup Slots
<1>1. ReadBack(running.cmdline) \in {0} \cup Slots
  BY IndexInRange, LabelsAssumption DEF ReadBack
<1>2. running.root \in Slots
  BY SlotsAssumption DEF TypeOK, Slots
<1>3. QED
  BY <1>1, <1>2 DEF CurrentRoot

\* Where the names are apart it is the root of the command line, or none; and
\* without a root= there the mounted root, or none.
LEMMA CurrentRootIsNamed ==
  ASSUME TypeOK, power = "up", RootArg => NamesApart
  PROVE  CurrentRoot \in {0, IF RootArg THEN running.cmdline ELSE running.root}
<1>1. CASE RootArg
  <2>1. running.cmdline \in Slots
    BY <1>1, SlotsAssumption DEF TypeOK, Slots
  <2>2. ReadBack(running.cmdline) \in {0, running.cmdline}
    BY <1>1, <2>1, LabelsAssumption DEF NamesApart
  <2>3. QED
    BY <1>1, <2>1, <2>2, SlotsAssumption DEF CurrentRoot, Slots
<1>2. CASE ~ RootArg
  BY <1>2 DEF CurrentRoot, TypeOK
<1>3. QED
  BY <1>1, <1>2

\* Where roundrobin gets past its early returns, its target is a slot, and
\* another one than the current root.
LEMMA TargetIsOtherSlot ==
  ASSUME TypeOK, pc = "image", ~ RoundrobinRefuses(bundle)
  PROVE  /\ power = "up"
         /\ bundle \in Bundle
         /\ NextIndex(CurrentRoot, bundle.nroot) \in Slots
         /\ NextIndex(CurrentRoot, bundle.nroot) # CurrentRoot
<1>1. power = "up" /\ bundle \in Bundle
  BY BundlesAssumption DEF TypeOK
<1>2. bundle.nroot \in 0 .. N /\ bundle.nroot >= 2
  BY <1>1, SlotsAssumption DEF RoundrobinRefuses, Bundle
<1>3. CurrentRoot \in 1 .. bundle.nroot
  BY <1>1, <1>2, CurrentRootIsSlot, SlotsAssumption DEF RoundrobinRefuses, Slots
<1>4. QED
  BY <1>1, <1>2, <1>3, NextIndexMoves, SlotsAssumption DEF Slots

\* Every step keeps the state in its types.
LEMMA TypeStep == TypeOK /\ [Next]_vars => TypeOK'
<1> SUFFICES ASSUME TypeOK, [Next]_vars PROVE TypeOK'
  OBVIOUS
<1> USE SlotsAssumption, FilesAssumption, BuildsAssumption, BundlesAssumption,
        BootAssumption
<1> USE DEF Slots, Nowhere, Files, Content, EnvVars
<1>1. CASE Boot
  <2>1. CASE BootRoot(env["kernel"], env["params"]) = {}
    BY <1>1, <2>1 DEF Boot, TypeOK, disk
  <2>2. CASE BootRoot(env["kernel"], env["params"]) # {}
    <3>1. PICK s \in Slots :
            /\ power' = "up" /\ env["kernel"] \in Slots
            /\ running' = [kernel |-> env["kernel"], root |-> s,
                           cmdline |-> env["params"]]
      BY <1>1, <2>2 DEF Boot, BootRoot, KernelLoads
    <3>2. env["params"] \in 0 .. N
      BY DEF TypeOK
    <3>3. QED
      BY <1>1, <3>1, <3>2 DEF Boot, TypeOK, disk
  <2>3. QED
    BY <2>1, <2>2
<1>2. CASE PowerCycle
  BY <1>2 DEF PowerCycle, TypeOK, disk, NotBooted, NothingPending
<1>3. CASE RestartDaemon
  BY <1>3 DEF RestartDaemon, EndInstall, TypeOK, disk, NothingPending
<1>4. ASSUME NEW b \in Bundles, StartInstall(b) PROVE TypeOK'
  BY <1>4 DEF StartInstall, TypeOK, disk
<1>5. CASE Handlers
  <2>1. CASE RoundrobinRefuse
    BY <2>1 DEF RoundrobinRefuse, EndInstall, TypeOK, disk, NothingPending
  <2>2. CASE RoundrobinFail
    <3>1. rrtarget' \in 0 .. N /\ power = "up"
      BY <2>2, TargetIsOtherSlot DEF RoundrobinFail, TypeOK
    <3>2. /\ pc' = "idle" /\ bundle' = NoBundle /\ file' = 1 /\ pend' = NothingPending
          /\ result' \in {"failed", "luaerror"}
      BY <2>2 DEF RoundrobinFail, EndInstall
    <3>3. NothingPending \in [EnvVars -> 0 .. Nowhere] /\ NothingPending["params"] = 0
      BY DEF NothingPending
    <3>4. UNCHANGED <<root, kern, env, power, running>>
      BY <2>2 DEF RoundrobinFail, disk
    <3>5. QED
      BY <3>1, <3>2, <3>3, <3>4 DEF TypeOK
  <2>3. CASE RoundrobinFlash
    BY <2>3, TargetIsOtherSlot DEF RoundrobinFlash, TypeOK
  <2>4. CASE RoundrobinDone
    <3>1. rrtarget \in Slots /\ bundle.build \in Builds
      BY <2>4 DEF RoundrobinDone, TypeOK, Bundle
    <3>2. root' \in [Slots -> Content]
      BY <2>4, <3>1 DEF RoundrobinDone, TypeOK
    <3>3. running.cmdline # 0 <=> RootArg
      BY <2>4 DEF RoundrobinDone, TypeOK
    <3>4. /\ env' \in [EnvVars -> 0 .. Nowhere] /\ env'["kernel"] # 0
          /\ env'["params"] # Nowhere /\ pend'["params"] # Nowhere
          /\ env'["params"] # 0 <=> RootArg
          /\ pend' \in [EnvVars -> 0 .. Nowhere]
          /\ pend'["params"] # 0 => RootArg
      BY <2>4, <3>1, <3>3 DEF RoundrobinDone, SetBootenv, TypeOK
    <3>5. QED
      BY <2>4, <3>2, <3>4 DEF RoundrobinDone, TypeOK
  <2>5. CASE RoundrobinError
    BY <2>5 DEF RoundrobinError, EndInstall, TypeOK, disk, NothingPending
  <2>6. CASE KernelfileCopy
    BY <2>6 DEF KernelfileCopy, KernelfileRefuses, TypeOK
  <2>7. CASE KernelfileFail
    BY <2>7 DEF KernelfileFail, EndInstall, TypeOK, disk, NothingPending
  <2>8. CASE KernelfileDone
    <3>1. rrtarget \in Slots /\ bundle.build \in Builds
      BY <2>8 DEF KernelfileDone, TypeOK, Bundle
    <3>2. kern' \in [Slots -> [Files -> Content]]
      BY <2>8, <3>1 DEF KernelfileDone, TypeOK
    <3>3. /\ env' \in [EnvVars -> 0 .. Nowhere] /\ env'["kernel"] # 0
          /\ env'["params"] = env["params"]
          /\ pend' \in [EnvVars -> 0 .. Nowhere]
          /\ pend'["params"] = pend["params"]
      BY <2>8, <3>1 DEF KernelfileDone, SetBootenv, TypeOK
    <3>4. /\ file' \in 1 .. F + 1 /\ pc' \in {"save", "file"}
          /\ pc' # "save" => file' \in Files
          /\ power = "up" /\ bundle # NoBundle
      BY <2>8 DEF KernelfileDone, TypeOK
    <3>5. UNCHANGED <<root, power, running, rrtarget, bundle, result>>
      BY <2>8 DEF KernelfileDone
    <3>6. QED
      BY <3>1, <3>2, <3>3, <3>4, <3>5 DEF TypeOK
  <2>9. CASE KernelfileError
    BY <2>9 DEF KernelfileError, EndInstall, TypeOK, disk, NothingPending
  <2>10. QED
    BY <1>5, <2>1, <2>2, <2>3, <2>4, <2>5, <2>6, <2>7, <2>8, <2>9 DEF Handlers
<1>6. CASE SaveBootenv
  BY <1>6 DEF SaveBootenv, EndInstall, TypeOK, disk, NothingPending
<1>7. CASE UNCHANGED vars
  BY <1>7 DEF vars, TypeOK
<1>8. QED
  BY <1>1, <1>2, <1>3, <1>4, <1>5, <1>6, <1>7 DEF Next

LEMMA TypeInit == Init => TypeOK
BY SlotsAssumption, FilesAssumption, BuildsAssumption, BundlesAssumption,
   BootAssumption
   DEF Init, TypeOK, Slots, Nowhere, Files, Content, EnvVars, NotBooted, NothingPending

\* The state of the update system keeps its types, whatever bundles are
\* offered and whenever the power is cut: no rrtarget outlives its process,
\* and no handler runs on a device that is not up.
THEOREM TypeCorrect == Spec => []TypeOK
<1>1. Init => TypeOK
  BY TypeInit
<1>2. TypeOK /\ [Next]_vars => TypeOK'
  BY TypeStep
<1>3. QED
  BY <1>1, <1>2, PTL DEF Spec

-----------------------------------------------------------------------------
(***************************************************************************)
(* Bootable.  The four parts of IInv are proved one after the other, each  *)
(* by a case for every action that changes a variable it depends on.       *)
(***************************************************************************)

\* What the boot finds when the environment names a whole slot: that slot.
LEMMA WholeSlotIsFound ==
  TypeOK /\ NextBootIsWhole =>
    BootRoot(env["kernel"], env["params"]) = {env["kernel"]}
<1> SUFFICES ASSUME TypeOK, NextBootIsWhole
             PROVE  BootRoot(env["kernel"], env["params"]) = {env["kernel"]}
  OBVIOUS
<1> DEFINE k == env["kernel"]
<1>1. k \in Slots
  BY DEF NextBootIsWhole
<1>2. KernelLoads(k)
  BY DEF KernelLoads, NextBootIsWhole
<1>3. CASE UuidRoot
  <2>1. \A s \in Slots : s \in BootRoot(k, env["params"]) <=> s = k
    <3> SUFFICES ASSUME NEW s \in Slots
                 PROVE  s \in BootRoot(k, env["params"]) <=> s = k
      OBVIOUS
    <3>1. s < k \/ s = k \/ k < s
      BY <1>1, SlotsAssumption DEF Slots
    <3>2. QED
      BY <1>1, <1>2, <1>3, <3>1, SlotsAssumption DEF BootRoot, NextBootIsWhole, Slots
  <2>2. QED
    BY <1>1, <2>1 DEF BootRoot
<1>4. CASE ~ UuidRoot
  <2>1. env["params"] = k
    BY <1>4, BootAssumption DEF NextBootIsWhole
  <2>2. QED
    BY <1>1, <1>2, <1>4, <2>1 DEF BootRoot, NextBootIsWhole
<1>5. QED
  BY <1>3, <1>4

\* The next boot runs one of the builds.
LEMMA NextBuildIsBuild ==
  TypeOK /\ NextBootIsWhole => Initramfs(env["kernel"]) \in Builds
BY FilesAssumption DEF TypeOK, NextBootIsWhole, Initramfs, Files, Content

LEMMA IInvImpliesBootable == IInv => Bootable
BY WholeSlotIsFound DEF IInv, Bootable, NextBootIsWhole

LEMMA IInvInit == Init => IInv
<1> SUFFICES ASSUME Init PROVE IInv
  OBVIOUS
<1>1. TypeOK
  BY TypeInit
<1>2. NextBootIsWhole
  BY SlotsAssumption, FilesAssumption, BuildsAssumption
     DEF Init, NextBootIsWhole, Initramfs, Slots, Files, EnvVars
<1>3. QED
  BY <1>1, <1>2 DEF Init, IInv, RunningIsOneSlot, InstallIsAside,
                    PendingNamesTarget

\* Boot brings up the slot the environment names; nothing is being installed.
LEMMA BootKeepsIInv == ASSUME IInv, Boot PROVE IInv'
<1> DEFINE k == env["kernel"]
<1>1. TypeOK'
  BY TypeStep DEF IInv, Next
<1>2. /\ power' = "up"
      /\ running' = [kernel |-> k, root |-> k, cmdline |-> env["params"]]
  BY WholeSlotIsFound DEF IInv, Boot
<1>3. k \in Slots
  BY DEF IInv, NextBootIsWhole
<1>4. NextBootIsWhole' /\ RunningIsOneSlot'
  BY <1>2, <1>3 DEF Boot, disk, IInv, NextBootIsWhole, RunningIsOneSlot, Initramfs
<1>5. pc' = "idle" /\ InstallIsAside' /\ PendingNamesTarget'
  BY DEF Boot, disk, IInv, TypeOK, InstallIsAside, PendingNamesTarget
<1>6. QED
  BY <1>1, <1>4, <1>5 DEF IInv

\* A step that ends the installation without writing the environment.
LEMMA EndKeepsIInv ==
  ASSUME IInv, TypeOK', NEW how, EndInstall(how),
         UNCHANGED <<disk, env>>,
         UNCHANGED <<power, running>> \/ power' # "up"
  PROVE  IInv'
<1>1. NextBootIsWhole'
  BY DEF IInv, NextBootIsWhole, Initramfs, disk
<1>2. RunningIsOneSlot'
  BY DEF IInv, RunningIsOneSlot, disk
<1>3. InstallIsAside' /\ PendingNamesTarget'
  BY DEF EndInstall, InstallIsAside, PendingNamesTarget
<1>4. QED
  BY <1>1, <1>2, <1>3 DEF IInv

\* A bundle that observes the discipline starts an installation.
LEMMA StartKeepsIInv ==
  ASSUME SafeConfiguration, IInv, TypeOK', NEW b \in Bundles, StartInstall(b)
  PROVE  IInv'
<1>1. NextBootIsWhole' /\ RunningIsOneSlot'
  BY DEF StartInstall, disk, IInv, NextBootIsWhole, RunningIsOneSlot, Initramfs
<1>2. pc' = "image" /\ pend' = NothingPending
  BY DEF StartInstall, Offered, SafeConfiguration, Rules, IInv, PendingNamesTarget
<1>3. InstallIsAside'
  BY <1>2 DEF StartInstall, Offered, SafeConfiguration, Rules, disk, InstallIsAside,
              CurrentRoot, NextIndex
<1>4. PendingNamesTarget'
  BY <1>2 DEF PendingNamesTarget
<1>5. QED
  BY <1>1, <1>3, <1>4 DEF IInv

\* roundrobin overwrites the target, which is not the slot booted next.
LEMMA FlashKeepsIInv ==
  ASSUME SafeConfiguration, IInv, TypeOK', RoundrobinFlash
  PROVE  IInv'
<1> DEFINE target == NextIndex(CurrentRoot, bundle.nroot)
<1>1. /\ power = "up" /\ target \in Slots /\ bundle \in Bundle
      /\ target # CurrentRoot /\ CurrentRoot # 0
      /\ bundle.nroot >= 2
  BY TargetIsOtherSlot, SlotsAssumption
     DEF IInv, RoundrobinFlash, RoundrobinRefuses, Bundle
<1>2. target # running.kernel /\ env["kernel"] = running.kernel
  BY <1>1, CurrentRootIsNamed
     DEF IInv, SafeConfiguration, RunningIsOneSlot, InstallIsAside, RoundrobinFlash
<1>3. /\ rrtarget' = target /\ root' = [root EXCEPT ![target] = Broken]
      /\ pc = "image" /\ pc' = "flashing"
  BY DEF RoundrobinFlash
<1>4. NextBootIsWhole'
  BY <1>1, <1>2, <1>3
     DEF RoundrobinFlash, IInv, TypeOK, NextBootIsWhole, Initramfs
<1>5. RunningIsOneSlot'
  BY <1>2, <1>3 DEF RoundrobinFlash, IInv, TypeOK, RunningIsOneSlot
<1>6. InstallIsAside'
  BY <1>1, <1>2, <1>3, BuildsAssumption
     DEF RoundrobinFlash, IInv, TypeOK, InstallIsAside, Bundle
<1>7. PendingNamesTarget'
  BY <1>3 DEF RoundrobinFlash, IInv, PendingNamesTarget
<1>8. QED
  BY <1>4, <1>5, <1>6, <1>7 DEF IInv

\* The target holds the bundle's build, and is the only slot that does.
LEMMA FlashedKeepsIInv ==
  ASSUME SafeConfiguration, IInv, TypeOK', RoundrobinDone
  PROVE  IInv'
<1>1. /\ pc = "flashing" /\ pc' = "file" /\ file' = file /\ bundle' = bundle
      /\ rrtarget' = rrtarget /\ rrtarget \in Slots /\ rrtarget # running.kernel
      /\ env["kernel"] = running.kernel /\ power = "up"
      /\ root' = [root EXCEPT ![rrtarget] = bundle.build]
      /\ UNCHANGED <<kern, power, running>>
  BY DEF RoundrobinDone, IInv, TypeOK, InstallIsAside
<1>2. \A s \in Slots : root[s] = bundle.build => s = rrtarget
  BY <1>1 DEF IInv, InstallIsAside
<1>3. (running.cmdline # 0) <=> RootArg
  BY <1>1 DEF IInv, TypeOK
<1>4. /\ pend = NothingPending
      /\ Deferred => /\ UNCHANGED env
                     /\ pend' = [pend EXCEPT !["params"] =
                                   IF RootArg THEN rrtarget ELSE 0]
      /\ ~ Deferred => UNCHANGED <<env, pend>>
  BY <1>1, <1>3, BootAssumption
     DEF RoundrobinDone, SetBootenv, SafeConfiguration, IInv, PendingNamesTarget,
         NothingPending, EnvVars
<1>5. NextBootIsWhole'
  <2> DEFINE k == env["kernel"]
  <2>1. k \in Slots /\ k # rrtarget /\ env' = env
    BY <1>1, <1>4, SlotsAssumption, BootAssumption
       DEF IInv, TypeOK, Slots, EnvVars
  <2>2. bundle.build # Initramfs(k)
    BY <1>2, <2>1 DEF IInv, NextBootIsWhole
  <2>3. \A s \in Slots : s # rrtarget => root'[s] = root[s]
    BY <1>1 DEF IInv, TypeOK
  <2>4. root'[rrtarget] = bundle.build
    BY <1>1 DEF IInv, TypeOK
  <2>5. QED
    BY <1>1, <2>1, <2>2, <2>3, <2>4 DEF IInv, NextBootIsWhole, Initramfs
<1>6. RunningIsOneSlot'
  BY <1>1 DEF IInv, TypeOK, RunningIsOneSlot
<1>7. file = 1
  BY <1>1 DEF IInv, InstallIsAside
<1>8. InstallIsAside'
  BY <1>1, <1>2, <1>4, <1>7, FilesAssumption DEF IInv, TypeOK, InstallIsAside, Files
<1>9. PendingNamesTarget'
  BY <1>1, <1>4, <1>7 DEF PendingNamesTarget, NothingPending, EnvVars
<1>10. QED
  BY <1>5, <1>6, <1>8, <1>9 DEF IInv

\* A kernel file of the target slot is overwritten.
LEMMA CopyKeepsIInv ==
  ASSUME IInv, TypeOK', KernelfileCopy
  PROVE  IInv'
<1>1. /\ pc = "file" /\ pc' = "copying"
      /\ rrtarget \in Slots /\ rrtarget # running.kernel
      /\ env["kernel"] = running.kernel
      /\ kern' = [kern EXCEPT ![rrtarget][file] = Broken]
      /\ UNCHANGED <<root, env, power, running, rrtarget, bundle, file, pend>>
  BY DEF KernelfileCopy, IInv, TypeOK, InstallIsAside
<1>2. NextBootIsWhole'
  BY <1>1, FilesAssumption DEF IInv, TypeOK, NextBootIsWhole, Initramfs, Files
<1>3. RunningIsOneSlot'
  BY <1>1 DEF IInv, RunningIsOneSlot
<1>4. InstallIsAside'
  BY <1>1, FilesAssumption DEF IInv, TypeOK, InstallIsAside, Files
<1>5. PendingNamesTarget'
  BY <1>1 DEF IInv, PendingNamesTarget
<1>6. QED
  BY <1>2, <1>3, <1>4, <1>5 DEF IInv

\* The environment, or what will be saved to it, names the target slot once a
\* kernel file is in place; only in the boot configuration of one file may
\* the environment itself change here.
LEMMA CopiedKeepsIInv ==
  ASSUME SafeConfiguration, IInv, TypeOK', KernelfileDone
  PROVE  IInv'
<1>1. /\ pc = "copying" /\ file \in Files /\ file' = file + 1
      /\ pc' = IF file = F THEN "save" ELSE "file"
      /\ rrtarget \in Slots /\ rrtarget # running.kernel
      /\ env["kernel"] = running.kernel /\ env["kernel"] \in Slots
      /\ root[rrtarget] = bundle.build /\ bundle \in Bundle
      /\ kern' = [kern EXCEPT ![rrtarget][file] = bundle.build]
      /\ UNCHANGED <<root, power, running, rrtarget, bundle>>
  BY SlotsAssumption, BundlesAssumption
     DEF KernelfileDone, IInv, TypeOK, InstallIsAside, Slots, EnvVars
<1>2. \A f \in Files : f < file' => kern'[rrtarget][f] = bundle.build
  BY <1>1, FilesAssumption DEF IInv, TypeOK, InstallIsAside, Files
<1>3. NextBootIsWhole'
  <2>1. CASE Deferred
    <3>1. env' = env
      BY <2>1 DEF KernelfileDone, SetBootenv
    <3>2. QED
      BY <1>1, <3>1, FilesAssumption
         DEF IInv, TypeOK, NextBootIsWhole, Initramfs, Files
  <2>2. CASE ~ Deferred
    <3>1. /\ F = 1 /\ ~ RootArg
          /\ env' = [env EXCEPT !["kernel"] = rrtarget]
      BY <1>1, <2>2 DEF KernelfileDone, SetBootenv, SafeConfiguration
    <3>2. file = 1 /\ env'["kernel"] = rrtarget
      BY <1>1, <3>1 DEF Files, IInv, TypeOK, EnvVars
    <3>3. \A f \in Files : kern'[rrtarget][f] = bundle.build
      BY <1>1, <1>2, <3>1, <3>2 DEF Files
    <3>4. \A s \in Slots : s < rrtarget => root[s] # bundle.build
      BY <1>1, SlotsAssumption DEF IInv, InstallIsAside, Slots
    <3>5. bundle.build # Broken
      BY <1>1, BuildsAssumption DEF Bundle
    <3>6. QED
      BY <1>1, <3>1, <3>2, <3>3, <3>4, <3>5 DEF NextBootIsWhole, Initramfs, Files
  <2>3. QED
    BY <2>1, <2>2
<1>4. RunningIsOneSlot'
  BY <1>1 DEF IInv, RunningIsOneSlot
<1>5. InstallIsAside'
  <2>1. pc' # "save" => env'["kernel"] = running.kernel
    <3>1. CASE Deferred
      BY <1>1, <3>1 DEF KernelfileDone, SetBootenv
    <3>2. CASE ~ Deferred
      BY <1>1, <3>2 DEF SafeConfiguration, Files
    <3>3. QED
      BY <3>1, <3>2
  <2>2. QED
    BY <1>1, <1>2, <2>1 DEF IInv, InstallIsAside
<1>6. PendingNamesTarget'
  <2>1. CASE Deferred
    <3>1. pend' = [pend EXCEPT !["kernel"] = rrtarget]
      BY <1>1, <2>1 DEF KernelfileDone, SetBootenv, SafeConfiguration
    <3>2. file' > 1
      BY <1>1, FilesAssumption DEF Files
    <3>3. QED
      BY <1>1, <2>1, <3>1, <3>2 DEF IInv, TypeOK, PendingNamesTarget, EnvVars
  <2>2. CASE ~ Deferred
    BY <1>1, <2>2 DEF KernelfileDone, SetBootenv, SafeConfiguration, IInv, TypeOK,
                      PendingNamesTarget, EnvVars
  <2>3. QED
    BY <2>1, <2>2
<1>7. QED
  BY <1>3, <1>4, <1>5, <1>6 DEF IInv

\* The environment names the slot that was written.
LEMMA SaveKeepsIInv ==
  ASSUME SafeConfiguration, IInv, TypeOK', SaveBootenv
  PROVE  IInv'
<1>1. /\ pc = "save" /\ pc' = "idle" /\ file' = 1 /\ file = F + 1
      /\ rrtarget \in Slots /\ rrtarget # running.kernel
      /\ root[rrtarget] = bundle.build /\ bundle \in Bundle
      /\ env' = [v \in EnvVars |-> IF pend[v] # 0 THEN pend[v] ELSE env[v]]
      /\ pend' = NothingPending
      /\ UNCHANGED <<root, kern, power, running, rrtarget>>
  BY BundlesAssumption
     DEF SaveBootenv, EndInstall, disk, IInv, TypeOK, InstallIsAside
<1>2. \A f \in Files : kern[rrtarget][f] = bundle.build
  BY <1>1, FilesAssumption DEF IInv, InstallIsAside, Files
<1>3. /\ env'["kernel"] = rrtarget
      /\ RootArg => env'["params"] = rrtarget
  <2>1. CASE Deferred
    BY <1>1, <2>1, FilesAssumption, SlotsAssumption
       DEF IInv, PendingNamesTarget, EnvVars, Slots
  <2>2. CASE ~ Deferred
    BY <1>1, <2>2 DEF SafeConfiguration, IInv, PendingNamesTarget, NothingPending,
                      EnvVars
  <2>3. QED
    BY <2>1, <2>2
<1>4. NextBootIsWhole'
  <2>1. \A s \in Slots : s < rrtarget => root[s] # bundle.build
    BY <1>1, SlotsAssumption DEF IInv, InstallIsAside, Slots
  <2>2. bundle.build # Broken /\ F \in Files
    BY <1>1, BuildsAssumption, FilesAssumption DEF Bundle, Files
  <2>3. QED
    BY <1>1, <1>2, <1>3, <2>1, <2>2 DEF NextBootIsWhole, Initramfs
<1>5. RunningIsOneSlot'
  BY <1>1 DEF IInv, RunningIsOneSlot
<1>6. InstallIsAside' /\ PendingNamesTarget'
  BY <1>1 DEF InstallIsAside, PendingNamesTarget
<1>7. QED
  BY <1>4, <1>5, <1>6 DEF IInv

LEMMA IInvStep == SafeConfiguration /\ IInv /\ [Next]_vars => IInv'
<1> SUFFICES ASSUME SafeConfiguration, IInv, [Next]_vars PROVE IInv'
  OBVIOUS
<1>0. TypeOK'
  BY TypeStep DEF IInv
<1>1. CASE Boot
  BY <1>1, BootKeepsIInv
<1>2. CASE PowerCycle
  BY <1>0, <1>2, EndKeepsIInv DEF PowerCycle, EndInstall
<1>3. CASE RestartDaemon
  BY <1>0, <1>3, EndKeepsIInv DEF RestartDaemon
<1>4. ASSUME NEW b \in Bundles, StartInstall(b) PROVE IInv'
  BY <1>0, <1>4, StartKeepsIInv
<1>5. CASE Handlers
  <2>1. CASE RoundrobinRefuse \/ RoundrobinFail \/ RoundrobinError
    BY <1>0, <2>1, EndKeepsIInv
       DEF RoundrobinRefuse, RoundrobinFail, RoundrobinError
  <2>2. CASE KernelfileFail \/ KernelfileError
    BY <1>0, <2>2, EndKeepsIInv DEF KernelfileFail, KernelfileError
  <2>3. QED
    BY <1>0, <1>5, <2>1, <2>2, FlashKeepsIInv, FlashedKeepsIInv, CopyKeepsIInv,
       CopiedKeepsIInv DEF Handlers
<1>6. CASE SaveBootenv
  BY <1>0, <1>6, SaveKeepsIInv
<1>7. CASE UNCHANGED vars
  BY <1>0, <1>7 DEF vars, disk, IInv, NextBootIsWhole, RunningIsOneSlot,
                    InstallIsAside, PendingNamesTarget, Initramfs, CurrentRoot
<1>8. QED
  BY <1>1, <1>2, <1>3, <1>4, <1>5, <1>6, <1>7 DEF Next

\* IInv: in a safe configuration an installation only ever touches the slot
\* that neither runs nor boots next.
THEOREM Invariant ==
  ASSUME SafeConfiguration
  PROVE  Spec => []IInv
<1>1. Init => IInv
  BY IInvInit
<1>2. IInv /\ [Next]_vars => IInv'
  BY IInvStep
<1>3. QED
  BY <1>1, <1>2, PTL DEF Spec

\* In a safe configuration, whatever is offered within the rules and whenever
\* the power is cut or the daemon restarted, the next boot finds a root of the
\* same build as the kernel and the initramfs.
THEOREM AlwaysBootable ==
  ASSUME SafeConfiguration
  PROVE  Spec => []Bootable
<1>1. IInv => Bootable
  BY IInvImpliesBootable
<1>2. QED
  BY <1>1, Invariant, PTL

-----------------------------------------------------------------------------
(***************************************************************************)
(* The action properties and the implementation of AtomicUpdate.           *)
(***************************************************************************)

\* In a safe configuration neither the mounted root nor the booted kernel is
\* ever written to.
LEMMA WritesSpareRunning ==
  ASSUME SafeConfiguration, IInv, [Next]_vars, NEW s \in Slots
  PROVE  /\ root'[s] # root[s] => s # running.root
         /\ kern'[s] # kern[s] => s # running.kernel
<1>1. CASE RoundrobinFlash
  <2> DEFINE target == NextIndex(CurrentRoot, bundle.nroot)
  <2>1. /\ power = "up" /\ target \in Slots /\ target # CurrentRoot
        /\ CurrentRoot # 0
        /\ root' = [root EXCEPT ![target] = Broken] /\ kern' = kern
    BY <1>1, TargetIsOtherSlot DEF IInv, RoundrobinFlash, RoundrobinRefuses
  <2>2. target # running.root
    BY <2>1, CurrentRootIsNamed DEF IInv, SafeConfiguration, RunningIsOneSlot
  <2>3. QED
    BY <2>1, <2>2 DEF IInv, TypeOK
<1>2. CASE RoundrobinDone \/ KernelfileCopy \/ KernelfileDone
  <2>1. /\ rrtarget # running.kernel /\ running.root = running.kernel
        /\ \A r \in Slots : r # rrtarget => root'[r] = root[r] /\ kern'[r] = kern[r]
    BY <1>2 DEF RoundrobinDone, KernelfileCopy, KernelfileDone, IInv, TypeOK,
                InstallIsAside, RunningIsOneSlot
  <2>2. QED
    BY <2>1
<1>3. CASE UNCHANGED disk
  BY <1>3 DEF disk
<1>4. QED
  BY <1>1, <1>2, <1>3
     DEF Next, Handlers, Boot, PowerCycle, RestartDaemon, StartInstall, SaveBootenv,
         RoundrobinRefuse, RoundrobinFail, RoundrobinError, KernelfileFail,
         KernelfileError, vars, disk

\* The mounted root partition is never overwritten in a safe configuration.
THEOREM MountedRootSpared ==
  ASSUME SafeConfiguration
  PROVE  Spec => RootFlashSparesMounted
<1>1. IInv /\ [Next]_vars =>
        [\A s \in Slots : root'[s] # root[s] => s # running.root]_vars
  BY WritesSpareRunning
<1>2. QED
  BY <1>1, IInvInit, IInvStep, PTL DEF Spec, RootFlashSparesMounted

\* The kernel partition that was booted is never written to in a safe
\* configuration.
THEOREM BootedKernelSpared ==
  ASSUME SafeConfiguration
  PROVE  Spec => KernelCopySparesBooted
<1>1. IInv /\ [Next]_vars =>
        [\A s \in Slots : kern'[s] # kern[s] => s # running.kernel]_vars
  BY WritesSpareRunning
<1>2. QED
  BY <1>1, IInvInit, IInvStep, PTL DEF Spec, KernelCopySparesBooted

\* A kernel file only ever goes next to a root partition that is whole.
THEOREM KernelNeedsRoot ==
  ASSUME SafeConfiguration
  PROVE  Spec => KernelFollowsRoot
<1>1. IInv => [KernelfileCopy => root[rrtarget] # Broken]_vars
  BY BundlesAssumption, BuildsAssumption
     DEF IInv, TypeOK, InstallIsAside, KernelfileCopy, Bundle
<1>2. QED
  BY <1>1, IInvInit, IInvStep, PTL DEF Spec, KernelFollowsRoot

\* Saving the environment makes the target slot, whole, the one that is found.
LEMMA SaveSelectsBundle ==
  ASSUME SafeConfiguration, IInv, IInv', SaveBootenv
  PROVE  LET found == BootRoot(env'["kernel"], env'["params"])
         IN /\ found # {}
            /\ \A s \in found :
                 /\ root[s] = bundle.build
                 /\ \A f \in Files : kern[env'["kernel"]][f] = bundle.build
<1>1. /\ pc = "save" /\ file = F + 1 /\ rrtarget \in Slots
      /\ root[rrtarget] = bundle.build /\ root' = root /\ kern' = kern
      /\ env' = [v \in EnvVars |-> IF pend[v] # 0 THEN pend[v] ELSE env[v]]
  BY DEF SaveBootenv, IInv, TypeOK, InstallIsAside, disk
<1>2. \A f \in Files : kern[rrtarget][f] = bundle.build
  BY <1>1, FilesAssumption DEF IInv, InstallIsAside, Files
<1>3. env'["kernel"] = rrtarget
  <2>1. CASE Deferred
    BY <1>1, <2>1, FilesAssumption, SlotsAssumption
       DEF IInv, PendingNamesTarget, EnvVars, Slots
  <2>2. CASE ~ Deferred
    BY <1>1, <2>2 DEF IInv, PendingNamesTarget, NothingPending, EnvVars
  <2>3. QED
    BY <2>1, <2>2
<1>4. (TypeOK /\ NextBootIsWhole)' =>
        (BootRoot(env["kernel"], env["params"]) = {env["kernel"]})'
  BY WholeSlotIsFound, PTL
<1>5. BootRoot(env'["kernel"], env'["params"]) = {rrtarget}
  BY <1>1, <1>3, <1>4 DEF IInv, BootRoot, KernelLoads, Initramfs
<1>6. QED
  BY <1>1, <1>2, <1>3, <1>5

\* In a safe configuration a successful installation takes effect: the next
\* boot runs the build of the bundle.
THEOREM SuccessTakesEffect ==
  ASSUME SafeConfiguration
  PROVE  Spec => SuccessRunsBundle
<1>1. IInv /\ IInv' /\ [Next]_vars =>
        [SaveBootenv => BootRoot(env'["kernel"], env'["params"]) # {}
                        /\ \A s \in BootRoot(env'["kernel"], env'["params"]) :
                             /\ root[s] = bundle.build
                             /\ \A f \in Files :
                                  kern[env'["kernel"]][f] = bundle.build]_vars
  BY SaveSelectsBundle
<1>2. QED
  BY <1>1, IInvInit, IInvStep, PTL DEF Spec, SuccessRunsBundle

\* In a safe configuration the handlers implement the atomic update: every
\* step boots the installed build, switches off, installs a build in one step,
\* or changes nothing that the next boot or the running system can see.
THEOREM ImplementsUpdate ==
  ASSUME SafeConfiguration
  PROVE  Spec => Update!Spec
<1> DEFINE inst == Initramfs(env["kernel"])
           cur == CASE power = "up" -> root[running.root]
                    [] power = "off" -> Broken
                    [] power = "panic" -> NoBundle
<1>1. Init => Update!Init
  BY SlotsAssumption, FilesAssumption
     DEF Init, Update!Init, Initramfs, Slots, Files, EnvVars
<1>2. IInv /\ IInv' /\ [Next]_vars => [Update!Next]_(Update!avars)
  <2> SUFFICES ASSUME IInv, IInv', [Next]_vars
               PROVE  Update!Next \/ UNCHANGED <<inst, cur>>
    BY DEF Update!avars
  <2>1. inst \in Builds /\ inst' \in Builds
    <3>1. (TypeOK /\ NextBootIsWhole)' => (Initramfs(env["kernel"]) \in Builds)'
      BY NextBuildIsBuild, PTL
    <3>2. QED
      BY <3>1, NextBuildIsBuild DEF IInv
  <2>2. CASE Boot
    <3>1. power = "off" /\ power' = "up"
          /\ running'.root = env["kernel"] /\ UNCHANGED <<root, kern, env>>
      BY <2>2, WholeSlotIsFound DEF IInv, Boot, disk
    <3>2. cur = Broken /\ cur' = inst /\ inst' = inst
      BY <3>1 DEF IInv, NextBootIsWhole, Initramfs
    <3>3. QED
      BY <3>2 DEF Update!Next, Update!Boot
  <2>3. CASE PowerCycle
    <3>1. cur' = Broken /\ inst' = inst
      BY <2>3 DEF PowerCycle, disk, Initramfs
    <3>2. QED
      BY <3>1 DEF Update!Next, Update!PowerOff
  <2>4. CASE power = "up" /\ UNCHANGED <<power, running>>
    <3>1. running.root \in Slots /\ root[running.root] \in Builds
      BY <2>4 DEF IInv, TypeOK, RunningIsOneSlot, Content
    <3>2. root'[running.root] = root[running.root]
      BY <3>1, WritesSpareRunning
    <3>3. cur \in Builds /\ cur' = cur
      BY <2>4, <3>1, <3>2
    <3>4. Update!Install(inst')
      BY <3>3 DEF Update!Install
    <3>5. QED
      BY <2>1, <3>4 DEF Update!Next
  <2>5. CASE UNCHANGED vars
    BY <2>5 DEF vars, Initramfs
  <2>6. QED
    BY <2>2, <2>3, <2>4, <2>5
       DEF Next, Handlers, RestartDaemon, StartInstall, SaveBootenv,
           RoundrobinRefuse, RoundrobinFail, RoundrobinFlash, RoundrobinDone,
           RoundrobinError, KernelfileCopy, KernelfileFail, KernelfileDone,
           KernelfileError, IInv, TypeOK
<1>3. QED
  BY <1>1, <1>2, IInvInit, IInvStep, PTL DEF Spec, Update!Spec

-----------------------------------------------------------------------------
(***************************************************************************)
(* The mounted root, under no discipline at all.                           *)
(***************************************************************************)

\* Where not both UUID and root= can name the root, the root of the command
\* line is the mounted one.
RootIsNamed ==
  /\ TypeOK
  /\ power = "up" /\ RootArg => running.cmdline = running.root
  /\ pc = "flashing" => rrtarget # running.root

LEMMA NamedRoot ==
  ASSUME RootArg => NamesApart, RootIsNamed, power = "up"
  PROVE  CurrentRoot \in {0, running.root}
BY CurrentRootIsNamed DEF RootIsNamed

LEMMA RootIsNamedStep ==
  ASSUME ~ (UuidRoot /\ RootArg), RootArg => NamesApart, RootIsNamed, [Next]_vars
  PROVE  RootIsNamed'
<1>1. TypeOK /\ TypeOK'
  BY TypeStep DEF RootIsNamed
<1>2. CASE Boot
  <2>1. CASE power' = "up"
    <3>1. PICK s \in BootRoot(env["kernel"], env["params"]) :
            running' = [kernel |-> env["kernel"], root |-> s,
                        cmdline |-> env["params"]]
      BY <1>2, <2>1 DEF Boot
    <3>2. CASE UuidRoot
      BY <1>1, <2>1, <3>1, <3>2, <1>2 DEF RootIsNamed, TypeOK, Boot
    <3>3. CASE ~ UuidRoot
      <4>1. s = env["params"]
        BY <3>1, <3>3 DEF BootRoot
      <4>2. running'.cmdline = env["params"] /\ running'.root = env["params"]
        BY <3>1, <4>1
      <4> QED
        BY <1>1, <2>1, <4>2, <1>2 DEF RootIsNamed, TypeOK, Boot
    <3> QED
      BY <3>2, <3>3
  <2>2. CASE power' # "up"
    BY <1>1, <1>2, <2>2 DEF RootIsNamed, TypeOK
  <2> QED
    BY <2>1, <2>2
<1>3. CASE PowerCycle
  BY <1>1, <1>3 DEF RootIsNamed, PowerCycle
<1>4. CASE UNCHANGED <<power, running>> /\ (pc' = "flashing" => pc = "flashing" /\ rrtarget' = rrtarget)
  BY <1>1, <1>4 DEF RootIsNamed
<1>5. CASE RoundrobinFlash
  <2>1. power = "up" /\ rrtarget' # CurrentRoot /\ CurrentRoot # 0
    BY <1>1, <1>5, TargetIsOtherSlot DEF RoundrobinFlash, RoundrobinRefuses
  <2> QED
    BY <1>1, <1>5, <2>1, NamedRoot DEF RootIsNamed, RoundrobinFlash
<1> QED
  BY <1>1, <1>2, <1>3, <1>4, <1>5
     DEF Next, Handlers, RestartDaemon, StartInstall, SaveBootenv,
         RoundrobinRefuse, RoundrobinFail, RoundrobinDone, RoundrobinError,
         KernelfileCopy, KernelfileFail, KernelfileDone, KernelfileError,
         EndInstall, vars

\* The mounted root partition is never overwritten, whatever bundles come in
\* whatever order, with or without reboots between them and failures in them
\* (handler_roundrobin): only a device of which the initramfs mounts by UUID
\* what root= does not name is left out, and names of which the pattern leaves
\* the name of another device.
THEOREM MountedRootAlwaysSpared ==
  ASSUME ~ (UuidRoot /\ RootArg), RootArg => NamesApart
  PROVE  Spec => RootFlashSparesMounted
<1> DEFINE Spared == \A s \in Slots : root'[s] # root[s] => s # running.root
<1>1. Init => RootIsNamed
  BY TypeInit DEF Init, RootIsNamed
<1>2. RootIsNamed /\ [Next]_vars => RootIsNamed'
  BY RootIsNamedStep
<1>3. RootIsNamed /\ [Next]_vars => [Spared]_vars
  <2> SUFFICES ASSUME RootIsNamed, [Next]_vars, NEW s \in Slots, root'[s] # root[s]
               PROVE  s # running.root
    OBVIOUS
  <2>1. CASE RoundrobinFlash
    <3>1. /\ power = "up" /\ NextIndex(CurrentRoot, bundle.nroot) # CurrentRoot
          /\ CurrentRoot # 0
          /\ root' = [root EXCEPT ![NextIndex(CurrentRoot, bundle.nroot)] = Broken]
      BY <2>1, TargetIsOtherSlot DEF RoundrobinFlash, RoundrobinRefuses, RootIsNamed
    <3> QED
      BY <3>1, NamedRoot DEF RootIsNamed, TypeOK
  <2>2. CASE RoundrobinDone
    BY <2>2 DEF RoundrobinDone, RootIsNamed, TypeOK
  <2> QED
    BY <2>1, <2>2
       DEF Next, Handlers, Boot, PowerCycle, RestartDaemon, StartInstall, SaveBootenv,
           RoundrobinRefuse, RoundrobinFail, RoundrobinError, KernelfileCopy,
           KernelfileFail, KernelfileDone, KernelfileError, vars, disk
<1> QED
  BY <1>1, <1>2, <1>3, PTL DEF Spec, RootFlashSparesMounted

\* Where the pattern takes nothing off the names, and the devices are listed by
\* what the current root is reported as, an update is never refused because of
\* what earlier ones have written: root= of kernelparams is read back as the
\* device that is mounted, after any number of installations, failures and
\* power cuts (handler_roundrobin).
THEOREM UnstrippedAccepted ==
  ASSUME ~ (UuidRoot /\ RootArg), NamesUnstripped, RootArg \/ PartType = "UUID"
  PROVE  Spec => UpdatesAccepted
<1> DEFINE Refused == RoundrobinRefuse =>
                        \/ bundle.chain = "unknown"
                        \/ bundle.nroot < 2
                        \/ running.root > bundle.nroot
<1>1. NamesApart
  BY UnstrippedFound DEF NamesUnstripped, NamesApart
<1>2. Init => RootIsNamed
  BY TypeInit DEF Init, RootIsNamed
<1>3. RootIsNamed /\ [Next]_vars => RootIsNamed'
  BY <1>1, RootIsNamedStep
<1>4. RootIsNamed => [Refused]_vars
  <2> SUFFICES ASSUME RootIsNamed, RoundrobinRefuse
               PROVE  \/ bundle.chain = "unknown"
                      \/ bundle.nroot < 2
                      \/ running.root > bundle.nroot
    OBVIOUS
  <2>1. power = "up" /\ running.root \in Slots
    BY SlotsAssumption DEF RoundrobinRefuse, RootIsNamed, TypeOK, Slots
  <2>2. CurrentRoot = running.root
    <3>1. CASE RootArg
      <4>1. running.cmdline = running.root
        BY <2>1, <3>1 DEF RootIsNamed
      <4>2. ReadBack(running.root) = running.root
        BY <2>1, LabelsAssumption, UnstrippedFound DEF NamesUnstripped
      <4> QED
        BY <2>1, <4>1, <4>2, SlotsAssumption DEF CurrentRoot, Slots
    <3>2. CASE ~ RootArg
      BY <3>2, <2>1 DEF CurrentRoot, RootIsNamed, TypeOK
    <3> QED
      BY <3>1, <3>2
  <2> QED
    BY <2>1, <2>2, SlotsAssumption DEF RoundrobinRefuse, RoundrobinRefuses, Slots
<1> QED
  BY <1>2, <1>3, <1>4, PTL DEF Spec, UpdatesAccepted

-----------------------------------------------------------------------------
(***************************************************************************)
(* Installations without a reboot in between.                              *)
(***************************************************************************)

LEMMA RetryInit == ASSUME RetryConfiguration PROVE Init => RetryInv
BY TypeInit, BootAssumption
   DEF RetryConfiguration, Init, RetryInv, VariablesInStep, RetryIsAside, EnvVars

\* What ends an installation, or begins one, leaves nothing behind.
LEMMA RetryEnds ==
  ASSUME RetryConfiguration, RetryInv, TypeOK', pc' = "idle", file' = 1,
         pend' = NothingPending, UNCHANGED <<env, power, running>>
  PROVE  RetryInv'
BY DEF RetryInv, VariablesInStep, RetryIsAside

LEMMA RetryStep ==
  ASSUME RetryConfiguration, RetryInv, [Next]_vars
  PROVE  RetryInv'
<1>1. TypeOK /\ TypeOK'
  BY TypeStep DEF RetryInv
<1>2. CASE Boot
  <2>1. env["params"] = env["kernel"]
    BY DEF RetryInv, VariablesInStep
  <2>2. power' = "up" => /\ running'.root = running'.kernel
                         /\ running'.cmdline = running'.kernel
    <3> SUFFICES ASSUME power' = "up"
                 PROVE  /\ running'.root = running'.kernel
                        /\ running'.cmdline = running'.kernel
      OBVIOUS
    <3>1. PICK s \in BootRoot(env["kernel"], env["params"]) :
            running' = [kernel |-> env["kernel"], root |-> s,
                        cmdline |-> env["params"]]
      BY <1>2 DEF Boot
    <3>2. s = env["params"]
      BY <3>1 DEF BootRoot, RetryConfiguration
    <3> QED
      BY <2>1, <3>1, <3>2
  <2>3. /\ UNCHANGED <<root, kern, env, rrtarget, pc, bundle, file, pend>>
        /\ pc = "idle"
    BY <1>1, <1>2 DEF Boot, disk, TypeOK
  <2> QED
    BY <1>1, <2>1, <2>2, <2>3 DEF RetryInv, VariablesInStep, RetryIsAside
<1>3. CASE PowerCycle
  BY <1>1, <1>3 DEF PowerCycle, disk, RetryInv, VariablesInStep, RetryIsAside
<1>4. CASE \/ RestartDaemon \/ RoundrobinRefuse \/ RoundrobinFail
           \/ RoundrobinError \/ KernelfileFail \/ KernelfileError
  <2>1. /\ pc' = "idle" /\ file' = 1 /\ pend' = NothingPending
        /\ UNCHANGED <<env, power, running>>
    BY <1>4 DEF RestartDaemon, RoundrobinRefuse, RoundrobinFail, RoundrobinError,
                KernelfileFail, KernelfileError, EndInstall
  <2> QED
    BY <1>1, <2>1, RetryEnds
<1>5. ASSUME NEW b \in Bundles, StartInstall(b) PROVE RetryInv'
  <2>1. b.images
    BY <1>5 DEF StartInstall, Offered, RetryConfiguration
  <2> QED
    BY <1>1, <1>5, <2>1
       DEF StartInstall, disk, RetryInv, VariablesInStep, RetryIsAside
<1>6. CASE RoundrobinFlash
  <2>1. /\ power = "up" /\ rrtarget' \in Slots /\ rrtarget' # CurrentRoot
        /\ CurrentRoot # 0
    BY <1>1, <1>6, TargetIsOtherSlot DEF RoundrobinFlash, RoundrobinRefuses
  <2>2. CurrentRoot = running.root
    BY <1>1, <2>1, CurrentRootIsNamed DEF RetryConfiguration, RetryInv, VariablesInStep
  <2> QED
    BY <1>1, <1>6, <2>1, <2>2
       DEF RoundrobinFlash, RetryInv, VariablesInStep, RetryIsAside
<1>7. CASE RoundrobinDone
  <2>1. /\ rrtarget \in Slots /\ rrtarget # running.root /\ file = 1
        /\ pend = NothingPending /\ bundle.images
    BY <1>7 DEF RoundrobinDone, RetryInv, RetryIsAside
  <2>2. power = "up" /\ running.cmdline # 0
    BY <1>1, <1>7, BootAssumption DEF RoundrobinDone, TypeOK, RetryConfiguration
  <2>3. pend' = [pend EXCEPT !["params"] = rrtarget] /\ env' = env
    BY <1>7, <2>2 DEF RoundrobinDone, SetBootenv, RetryConfiguration
  <2>4. pend'["params"] = rrtarget /\ pend'["kernel"] = 0
    BY <2>1, <2>3 DEF NothingPending, EnvVars
  <2>5. root'[rrtarget] = bundle.build
    BY <1>1, <1>7, <2>1 DEF RoundrobinDone, TypeOK
  <2> QED
    BY <1>1, <1>7, <2>1, <2>3, <2>4, <2>5
       DEF RoundrobinDone, RetryInv, VariablesInStep, RetryIsAside, Files
<1>8. CASE KernelfileCopy
  <2>1. /\ rrtarget \in Slots /\ file \in Files /\ pc = "file"
    BY <1>1, <1>8 DEF KernelfileCopy, RetryInv, RetryIsAside, TypeOK
  <2>2. \A f \in Files : f < file => kern'[rrtarget][f] = kern[rrtarget][f]
    BY <1>1, <1>8, <2>1, FilesAssumption DEF KernelfileCopy, TypeOK, Files
  <2> QED
    BY <1>1, <1>8, <2>1, <2>2
       DEF KernelfileCopy, RetryInv, VariablesInStep, RetryIsAside
<1>9. CASE KernelfileDone
  <2>1. /\ rrtarget \in Slots /\ file \in Files /\ pc = "copying" /\ file \in Nat
    BY <1>1, <1>9 DEF KernelfileDone, RetryInv, RetryIsAside, TypeOK, Files
  <2>2. \A f \in Files : f < file + 1 => kern'[rrtarget][f] = bundle.build
    <3> SUFFICES ASSUME NEW f \in Files, f < file + 1
                 PROVE  kern'[rrtarget][f] = bundle.build
      OBVIOUS
    <3>1. CASE f = file
      BY <1>1, <1>9, <2>1, <3>1 DEF KernelfileDone, TypeOK
    <3>2. CASE f # file
      <4>1. f < file
        BY <2>1, <3>2, FilesAssumption DEF Files
      <4>2. kern[rrtarget][f] = bundle.build
        BY <2>1, <4>1 DEF RetryInv, RetryIsAside
      <4> QED
        BY <1>1, <1>9, <2>1, <3>2, <4>2 DEF KernelfileDone, TypeOK
    <3> QED
      BY <3>1, <3>2
  <2>3. pend' = [pend EXCEPT !["kernel"] = rrtarget] /\ env' = env
    BY <1>9, <2>1 DEF KernelfileDone, SetBootenv, RetryConfiguration
  <2>4. pend'["params"] = rrtarget /\ pend'["kernel"] = rrtarget
    BY <1>1, <2>1, <2>3 DEF TypeOK, EnvVars, RetryInv, RetryIsAside
  <2>5. /\ file' = file + 1 /\ file' > 1 /\ pc' \in {"file", "save"}
        /\ pc' = "save" => file' = F + 1
    BY <1>9, <2>1, FilesAssumption DEF KernelfileDone, Files
  <2> QED
    BY <1>1, <1>9, <2>1, <2>2, <2>3, <2>4, <2>5
       DEF KernelfileDone, RetryInv, VariablesInStep, RetryIsAside
<1>10. CASE SaveBootenv
  <2>1. rrtarget \in Slots /\ pend["params"] = rrtarget /\ pend["kernel"] = rrtarget
    BY <1>10, FilesAssumption DEF SaveBootenv, RetryInv, RetryIsAside
  <2>2. env'["params"] = env'["kernel"]
    BY <1>10, <2>1, SlotsAssumption DEF SaveBootenv, EnvVars, Slots
  <2> QED
    BY <1>1, <1>10, <2>2
       DEF SaveBootenv, EndInstall, RetryInv, VariablesInStep, RetryIsAside
<1>11. CASE UNCHANGED vars
  BY <1>1, <1>11 DEF vars, RetryInv, VariablesInStep, RetryIsAside
<1> QED
  BY <1>2, <1>3, <1>4, <1>5, <1>6, <1>7, <1>8, <1>9, <1>10, <1>11 DEF Next, Handlers

\* Where root= finds the root and the environment is saved in one piece, the
\* booted kernel is never written to, though there is no reboot between
\* installations and the same build is installed twice.
THEOREM RetriesSpareKernel ==
  ASSUME RetryConfiguration
  PROVE  Spec => KernelCopySparesBooted
<1>1. RetryInv /\ [Next]_vars =>
        [\A s \in Slots : kern'[s] # kern[s] => s # running.kernel]_vars
  <2> SUFFICES ASSUME RetryInv, [Next]_vars, NEW s \in Slots, kern'[s] # kern[s]
               PROVE  s # running.kernel
    OBVIOUS
  <2>1. KernelfileCopy \/ KernelfileDone
    BY DEF Next, Handlers, Boot, PowerCycle, RestartDaemon, StartInstall, SaveBootenv,
           RoundrobinRefuse, RoundrobinFail, RoundrobinFlash, RoundrobinDone,
           RoundrobinError, KernelfileFail, KernelfileError, vars, disk
  <2>2. rrtarget # running.root /\ power = "up"
    BY <2>1 DEF KernelfileCopy, KernelfileDone, RetryInv, RetryIsAside, TypeOK
  <2> QED
    BY <2>1, <2>2
       DEF KernelfileCopy, KernelfileDone, RetryInv, VariablesInStep, TypeOK
<1> QED
  BY <1>1, RetryInit, RetryStep, PTL DEF Spec, KernelCopySparesBooted

\* And what succeeds takes effect: the next boot runs the build of the last
\* bundle that was installed.
THEOREM RetriesTakeEffect ==
  ASSUME RetryConfiguration
  PROVE  Spec => SuccessRunsBundle
<1> DEFINE found == BootRoot(env'["kernel"], env'["params"])
           Effect == SaveBootenv =>
                       /\ found # {}
                       /\ \A s \in found :
                            /\ root[s] = bundle.build
                            /\ \A f \in Files : kern[env'["kernel"]][f] = bundle.build
<1>1. RetryInv /\ [Next]_vars => [Effect]_vars
  <2> SUFFICES ASSUME RetryInv, SaveBootenv PROVE Effect
    OBVIOUS
  <2>1. /\ rrtarget \in Slots /\ pend["params"] = rrtarget /\ pend["kernel"] = rrtarget
        /\ root[rrtarget] = bundle.build /\ bundle.build \in Builds
        /\ \A f \in Files : kern[rrtarget][f] = bundle.build
    BY FilesAssumption, BundlesAssumption
       DEF SaveBootenv, RetryInv, RetryIsAside, TypeOK, Files, Bundle
  <2>2. env'["params"] = rrtarget /\ env'["kernel"] = rrtarget
        /\ root' = root /\ kern' = kern
    BY <2>1, SlotsAssumption DEF SaveBootenv, EnvVars, Slots, disk
  <2>3. bundle.build # Broken
    BY <2>1, BuildsAssumption
  <2>4. found = {rrtarget}
    BY <2>1, <2>2, <2>3 DEF BootRoot, KernelLoads, RetryConfiguration
  <2> QED
    BY <2>1, <2>2, <2>4
<1> QED
  BY <1>1, RetryInit, RetryStep, PTL DEF Spec, SuccessRunsBundle
=============================================================================
