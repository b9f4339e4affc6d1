----------------------------- MODULE SwuHandlers -----------------------------
(***************************************************************************)
(* A/B software update of the device: the two SWUpdate handlers of         *)
(* recipes-core/swupdate/files/swupdate_handlers.lua ("roundrobin" for the *)
(* root partition, "kernelfile" for the files of the kernel partition),    *)
(* the EFI Boot Guard environment they write, and the boot that reads it:  *)
(* the boot loader takes the kernel from the partition the environment     *)
(* names, the initramfs picks the root partition.                          *)
(*                                                                         *)
(* A build is a model value: a kernel, an initramfs and a root file system *)
(* belong together iff they are of the same build (image_uuid.bbclass puts *)
(* one IMAGE_UUID into the root file system and into its initramfs).       *)
(*                                                                         *)
(* SWUpdate itself and the boot loader are not part of this repository;    *)
(* they are modelled from how the handlers use them, and where their       *)
(* behaviour is not fixed by that use it is a constant (Deferred).         *)
(***************************************************************************)
EXTENDS Naturals, FiniteSets, RootParam

CONSTANTS
  N,           \* entries of the longest device= list: root and kernel slots
  Labelled,    \* slots whose kernel bootlabel= and kernelname= name
  F,           \* files of a bundle: 1 is linux.signed.efi, 2 vmlinuz and initrd
  Builds,      \* the builds that exist
  Factory,     \* the build every partition is flashed with in the factory
  Broken,      \* content of a partition or file whose writing was cut short
  Bundles,     \* the update bundles that may be offered to the daemon
  NoBundle,    \* no installation is running
  Deferred,    \* set_bootenv is saved when the installation has succeeded,
               \* otherwise by each call
  UuidRoot,    \* the initramfs is the one of initramfs-abrootfs-secureboot
  RootArg,     \* the kernel command line carries a root= parameter
  Discipline   \* what whoever offers the bundles observes, see Offered

Slots == 1 .. N

\* What kernelfile= names when bootlabel has no entry for the slot, or
\* kernelname is none of the files that bundles bring: no slot's kernel.
Nowhere == N + 1

Files == 1 .. F

Content == Builds \cup {Broken}

EnvVars == {"kernel", "params"}

Rules == {"fullBundles", "rebootFirst", "freshBuilds"}

(***************************************************************************)
(* An sw-description: with or without an images: section, the chained      *)
(* handler of its roundrobin image, the number of entries of its device=   *)
(* lists and of the rdiffbase property.                                    *)
(***************************************************************************)
Bundle ==
  [build: Builds, images: BOOLEAN, chain: {"raw", "rdiff_image", "unknown"},
   nroot: 0 .. N, nkern: 0 .. N, nbase: 0 .. N]

ASSUME SlotsAssumption == N \in Nat \ {0, 1}

ASSUME LabelsAssumption == DOMAIN Names = Slots /\ Labelled \subseteq Slots

ASSUME FilesAssumption == F \in Nat \ {0}

ASSUME BuildsAssumption == Factory \in Builds /\ Broken \notin Builds

ASSUME BundlesAssumption == Bundles \subseteq Bundle /\ NoBundle \notin Bundles

\* Without root= only the initramfs that compares UUIDs finds a root.
ASSUME BootAssumption ==
  /\ {Deferred, UuidRoot, RootArg} \subseteq BOOLEAN
  /\ UuidRoot \/ RootArg
  /\ Discipline \subseteq Rules

VARIABLES
  root,      \* content of each root partition
  kern,      \* content of each file of each kernel partition
  env,       \* boot loader environment: the slots kernelfile= (or Nowhere)
             \* and kernelparams= (its root=) name; 0: no root= in it
  power,     \* "up", "off", or "panic" when no root was found
  running,   \* what was booted: kernel slot, mounted root, root= of cmdline
  rrtarget,  \* rrtarget.index of the Lua table; 0: the table is empty
  pc,        \* what the daemon is doing
  bundle,    \* the bundle being installed
  file,      \* the next entry of its files: section
  pend,      \* variables set but not yet saved; 0: not set
  result     \* how the last handler call ended

vars == <<root, kern, env, power, running, rrtarget, pc, bundle, file, pend,
          result>>

disk == <<root, kern>>

NotBooted == [kernel |-> 0, root |-> 0, cmdline |-> 0]

NothingPending == [v \in EnvVars |-> 0]

TypeOK ==
  /\ root \in [Slots -> Content]
  /\ kern \in [Slots -> [Files -> Content]]
  /\ env \in [EnvVars -> 0 .. Nowhere]
  /\ env["kernel"] # 0 /\ env["params"] # Nowhere
  /\ (env["params"] # 0) <=> RootArg
  /\ power \in {"up", "off", "panic"}
  /\ running \in [kernel: 0 .. N, root: 0 .. N, cmdline: 0 .. N]
  /\ (running.root # 0) <=> (power = "up")
  /\ (running.cmdline # 0) <=> (RootArg /\ power = "up")
  /\ rrtarget \in 0 .. N
  /\ pc \in {"idle", "image", "flashing", "file", "copying", "save"}
  /\ bundle \in Bundles \cup {NoBundle}
  /\ (pc = "idle") <=> (bundle = NoBundle)
  /\ file \in 1 .. F + 1
  /\ pc # "save" => file \in Files
  /\ pc \in {"flashing", "copying", "save"} => rrtarget # 0
  /\ pend \in [EnvVars -> 0 .. Nowhere]
  /\ pend["params"] # Nowhere
  /\ pend["params"] # 0 => RootArg
  /\ result \in {"none", "ok", "failed", "luaerror"}
  /\ power # "up" => pc = "idle" /\ rrtarget = 0

Init ==
  /\ root = [s \in Slots |-> Factory]
  /\ kern = [s \in Slots |-> [f \in Files |-> Factory]]
  /\ env = [v \in EnvVars |-> IF v = "kernel" \/ RootArg THEN 1 ELSE 0]
  /\ power = "off"
  /\ running = NotBooted
  /\ rrtarget = 0
  /\ pc = "idle"
  /\ bundle = NoBundle
  /\ file = 1
  /\ pend = NothingPending
  /\ result = "none"

-----------------------------------------------------------------------------
(***************************************************************************)
(* Boot: which root partitions the initramfs may end up with, given the    *)
(* environment and the partitions, and the boot itself.                    *)
(***************************************************************************)

\* The initramfs is in the last file; a file that is broken, or not there, is
\* not booted at all.
Initramfs(k) == kern[k][F]

KernelLoads(k) == k \in Slots /\ \A f \in Files : kern[k][f] # Broken

\* local_mount_root of the secure boot initramfs takes the first partition
\* whose os-release has the UUID of the initramfs, whatever root= says; the
\* stock one mounts root=.
BootRoot(k, params) ==
  {s \in Slots :
     /\ KernelLoads(k)
     /\ IF UuidRoot
          THEN /\ root[s] = Initramfs(k)
               /\ \A r \in Slots : r < s => root[r] # Initramfs(k)
          ELSE s = params /\ root[s] # Broken}

Boot ==
  /\ power = "off"
  /\ LET k == env["kernel"]
         found == BootRoot(k, env["params"])
     IN IF found = {}
          THEN power' = "panic" /\ UNCHANGED running
          ELSE /\ power' = "up"
               /\ \E s \in found :
                    running' = [kernel |-> k, root |-> s,
                                cmdline |-> env["params"]]
  /\ UNCHANGED <<disk, env, rrtarget, pc, bundle, file, pend, result>>

\* Mutant of PowerCycle: rrtarget survives a reboot.
MutPowerCycleKeepsTarget ==
  /\ power # "off"
  /\ power' = "off"
  /\ running' = NotBooted
  /\ pc' = "idle" /\ bundle' = NoBundle /\ file' = 1
  /\ pend' = NothingPending
  /\ result' = "none"
  /\ UNCHANGED <<disk, env, rrtarget>>

\* A reboot, or a power cut at any moment: everything but the partitions and
\* the environment is gone.
PowerCycle ==
  /\ power # "off"
  /\ power' = "off"
  /\ running' = NotBooted
  /\ rrtarget' = 0
  /\ pc' = "idle" /\ bundle' = NoBundle /\ file' = 1
  /\ pend' = NothingPending
  /\ result' = "none"
  /\ UNCHANGED <<disk, env>>

-----------------------------------------------------------------------------
(***************************************************************************)
(* The daemon.  It calls the handler of the image, then that of each file, *)
(* stops at the first that fails, and forgets the variables then.          *)
(***************************************************************************)

SetBootenv(var, value) ==
  IF Deferred
    THEN pend' = [pend EXCEPT ![var] = value] /\ UNCHANGED env
    ELSE env' = [env EXCEPT ![var] = value] /\ UNCHANGED pend

EndInstall(how) ==
  /\ pc' = "idle" /\ bundle' = NoBundle /\ file' = 1
  /\ pend' = NothingPending
  /\ result' = how

\* Mutant of CurrentRoot: the kernelparams of the environment are read in place
\* of those of the running kernel.
MutCurrentRootOfEnv ==
  IF env["params"] # 0 THEN ReadBack(env["params"])
  ELSE IF PartType = "UUID" THEN running.root ELSE 0

\* "Determine current root device": root= of /proc/cmdline, else the PARTUUID
\* that findmnt prints; the index of that in the list, 0 if it is not in it.
CurrentRoot ==
  IF running.cmdline # 0 THEN ReadBack(running.cmdline)
  ELSE IF PartType = "UUID" THEN running.root ELSE 0

\* Mutant of NextIndex: the index is not advanced.
MutNextIndexStays(current, count) == current

NextIndex(current, count) == (current % count) + 1

\* What the party offering bundles may observe: only bundles with a root
\* image, none while a reboot into another slot is pending, and no build
\* that a slot other than the one to be flashed already holds.
Offered(b) ==
  /\ "fullBundles" \in Discipline => b.images
  /\ "rebootFirst" \in Discipline => env["kernel"] = running.kernel
  /\ "freshBuilds" \in Discipline =>
       \A s \in Slots : root[s] = b.build /\ b.nroot >= 2 =>
                          s = NextIndex(CurrentRoot, b.nroot)

StartInstall(b) ==
  /\ power = "up" /\ pc = "idle"
  /\ Offered(b)
  /\ bundle' = b
  /\ pc' = IF b.images THEN "image" ELSE "file"
  /\ file' = 1
  /\ result' = "none"
  /\ UNCHANGED <<disk, env, power, running, rrtarget, pend>>

\* The installation succeeded: the boot loader environment is written.
SaveBootenv ==
  /\ pc = "save"
  /\ env' = [v \in EnvVars |-> IF pend[v] # 0 THEN pend[v] ELSE env[v]]
  /\ EndInstall("ok")
  /\ UNCHANGED <<disk, power, running, rrtarget>>

\* The daemon is killed or restarted without a reboot; its Lua state with
\* rrtarget goes with it.
RestartDaemon ==
  /\ power = "up"
  /\ rrtarget' = 0
  /\ EndInstall("none")
  /\ UNCHANGED <<disk, env, power, running>>

-----------------------------------------------------------------------------
(***************************************************************************)
(* handler_roundrobin                                                      *)
(***************************************************************************)

\* The early returns before rrtarget is touched.
RoundrobinRefuses(b) ==
  \/ b.chain = "unknown"
  \/ b.nroot < 2
  \/ CurrentRoot = 0 \/ CurrentRoot > b.nroot

RoundrobinRefuse ==
  /\ pc = "image"
  /\ RoundrobinRefuses(bundle)
  /\ EndInstall("failed")
  /\ UNCHANGED <<disk, env, power, running, rrtarget>>

\* Returns after rrtarget.index was set: the device node is not there (any
\* device may be missing), or the chained handler is rdiff_image, where the
\* code reads the misspelt image.propierties, which is nil.
RoundrobinFail ==
  /\ pc = "image"
  /\ ~ RoundrobinRefuses(bundle)
  /\ rrtarget' = NextIndex(CurrentRoot, bundle.nroot)
  /\ \/ EndInstall("failed")
     \/ bundle.chain = "rdiff_image" /\ bundle.nbase >= 2 /\ EndInstall("luaerror")
  /\ UNCHANGED <<disk, env, power, running>>

\* The chained handler starts to overwrite the target.  That rrtarget was set
\* already, "Is a reboot pending?", is only warned about.
RoundrobinFlash ==
  /\ pc = "image"
  /\ ~ RoundrobinRefuses(bundle)
  /\ bundle.chain = "raw"
  /\ LET target == NextIndex(CurrentRoot, bundle.nroot)
     IN /\ rrtarget' = target
        /\ root' = [root EXCEPT ![target] = Broken]
  /\ pc' = "flashing"
  /\ UNCHANGED <<kern, env, power, running, bundle, file, pend, result>>

\* The chained handler succeeded: root= of kernelparams is set to the target
\* if the command line has one.
RoundrobinDone ==
  /\ pc = "flashing"
  /\ root' = [root EXCEPT ![rrtarget] = bundle.build]
  /\ IF running.cmdline # 0
       THEN SetBootenv("params", rrtarget)
       ELSE UNCHANGED <<env, pend>>
  /\ pc' = "file"
  /\ UNCHANGED <<kern, power, running, rrtarget, bundle, file, result>>

\* Mutant of RoundrobinError: the error of the chained handler is ignored.
MutRoundrobinErrorIgnored ==
  /\ pc = "flashing"
  /\ pc' = "file"
  /\ UNCHANGED <<disk, env, power, running, rrtarget, bundle, file, pend, result>>

RoundrobinError ==
  /\ pc = "flashing"
  /\ EndInstall("failed")
  /\ UNCHANGED <<disk, env, power, running, rrtarget>>

-----------------------------------------------------------------------------
(***************************************************************************)
(* handler_kernelfile, called for one entry of files: after the other      *)
(***************************************************************************)

KernelfileRefuses(b) ==
  \/ rrtarget = 0
  \/ b.nkern < 2
  \/ rrtarget > b.nkern

\* Mutant of KernelfileCopy: the environment is set before the file is copied.
MutKernelfileCopyEnvFirst ==
  /\ pc = "file"
  /\ ~ KernelfileRefuses(bundle)
  /\ SetBootenv("kernel", rrtarget)
  /\ kern' = [kern EXCEPT ![rrtarget][file] = Broken]
  /\ pc' = "copying"
  /\ UNCHANGED <<root, power, running, rrtarget, bundle, file, result>>

KernelfileCopy ==
  /\ pc = "file"
  /\ ~ KernelfileRefuses(bundle)
  /\ kern' = [kern EXCEPT ![rrtarget][file] = Broken]
  /\ pc' = "copying"
  /\ UNCHANGED <<root, env, power, running, rrtarget, bundle, file, pend,
                 result>>

\* An early return of the handler, or get_device_path finding no device.
KernelfileFail ==
  /\ pc = "file"
  /\ EndInstall("failed")
  /\ UNCHANGED <<disk, env, power, running, rrtarget>>

\* Mutant of KernelfileDone: the environment is not set, as in the branch for
\* U-Boot, which is still a TODO.
MutKernelfileDoneNoEnv ==
  /\ pc = "copying"
  /\ kern' = [kern EXCEPT ![rrtarget][file] = bundle.build]
  /\ file' = file + 1
  /\ pc' = IF file = F THEN "save" ELSE "file"
  /\ UNCHANGED <<root, env, power, running, rrtarget, bundle, pend, result>>

\* kernelfile is set to the label of the slot and the name in the
\* configuration, whatever the file that was copied is called.
KernelfileDone ==
  /\ pc = "copying"
  /\ kern' = [kern EXCEPT ![rrtarget][file] = bundle.build]
  /\ SetBootenv("kernel", IF rrtarget \in Labelled THEN rrtarget ELSE Nowhere)
  /\ file' = file + 1
  /\ pc' = IF file = F THEN "save" ELSE "file"
  /\ UNCHANGED <<root, power, running, rrtarget, bundle, result>>

KernelfileError ==
  /\ pc = "copying"
  /\ EndInstall("failed")
  /\ UNCHANGED <<disk, env, power, running, rrtarget>>

-----------------------------------------------------------------------------
Handlers ==
  \/ RoundrobinRefuse \/ RoundrobinFail \/ RoundrobinFlash
  \/ RoundrobinDone \/ RoundrobinError
  \/ KernelfileCopy \/ KernelfileFail \/ KernelfileDone \/ KernelfileError

Next ==
  \/ Boot
  \/ PowerCycle
  \/ RestartDaemon
  \/ \E b \in Bundles : StartInstall(b)
  \/ Handlers
  \/ SaveBootenv

Spec == Init /\ [][Next]_vars

\* A device that is off is switched on again; nothing else is promised.
FairSpec == Spec /\ WF_vars(Boot)
-----------------------------------------------------------------------------
(***************************************************************************)
(* Properties                                                              *)
(***************************************************************************)

\* Power cut now: the boot that follows finds a root, and it, the kernel and
\* the initramfs are of one build.  The reason for having two slots and for
\* the order of the steps of the handlers and of set_bootenv.
Bootable ==
  LET k == env["kernel"]
  IN /\ BootRoot(k, env["params"]) # {}
     /\ \A s \in BootRoot(k, env["params"]) : \A f \in Files : kern[k][f] = root[s]

\* When the installation of a bundle succeeds, the next boot runs its build:
\* the index of roundrobin, the one kernelfile reuses and the two variables
\* of the environment name the same slot.
SuccessRunsBundle ==
  [][SaveBootenv => BootRoot(env'["kernel"], env'["params"]) # {}
                    /\ \A s \in BootRoot(env'["kernel"], env'["params"]) :
                         /\ root[s] = bundle.build
                         /\ \A f \in Files : kern[env'["kernel"]][f] = bundle.build]_vars

\* The mounted root partition is never overwritten, neither by a second
\* installation before the reboot nor after one that failed half-way: the
\* current root that roundrobin determines is the one that is mounted.
RootFlashSparesMounted ==
  [][\A s \in Slots : root'[s] # root[s] => s # running.root]_vars

\* "If /dev/sda5 is booted [...] the vmlinuz and initrd.img files are placed
\* on /dev/sda2", the other kernel partition: the files of the kernel that was
\* booted are left alone.
KernelCopySparesBooted ==
  [][\A s \in Slots : kern'[s] # kern[s] => s # running.kernel]_vars

\* "partition UUIDs as reported, e.g., by `blkid -s PARTUUID` are also
\* supported": a bundle whose list names the mounted root and another device is
\* not refused, so that a device which has taken one update takes the next.
UpdatesAccepted ==
  [][RoundrobinRefuse =>
       \/ bundle.chain = "unknown"
       \/ bundle.nroot < 2
       \/ running.root > bundle.nroot]_vars

\* A kernel file is only put into a slot whose root partition the handlers
\* have written completely: "Check that rrtarget is set, else the 'roundrobin'
\* handler hasn't been run".
KernelFollowsRoot ==
  [][KernelfileCopy => root[rrtarget] # Broken]_vars

\* However an update was interrupted, a device that is switched on comes up.
ComesUp == (power = "off") ~> (power = "up")

\* The handlers implement the atomic update.
Update == INSTANCE AtomicUpdate WITH
  Off <- Broken,
  installed <- Initramfs(env["kernel"]),
  current <- CASE power = "up" -> root[running.root]
               [] power = "off" -> Broken
               [] power = "panic" -> NoBundle

ImplementsAtomicUpdate == Update!FairSpec

-----------------------------------------------------------------------------
(***************************************************************************)
(* The inductive invariant behind Bootable.  It needs the discipline of    *)
(* Rules, a configuration that names the kernels the bundles bring, and    *)
(* one in which no crash can fall between two writes of the environment    *)
(* that only make sense together.                                          *)
(***************************************************************************)
SafeConfiguration ==
  /\ Discipline = Rules
  /\ Labelled = Slots
  /\ RootArg => NamesApart
  /\ Deferred \/ (UuidRoot /\ ~ RootArg /\ F = 1)

\* The slot the environment names is whole, and what the initramfs finds.
NextBootIsWhole ==
  LET k == env["kernel"]
  IN /\ k \in Slots
     /\ Initramfs(k) # Broken
     /\ root[k] = Initramfs(k)
     /\ \A f \in Files : kern[k][f] = Initramfs(k)
     /\ UuidRoot => \A s \in Slots : s < k => root[s] # Initramfs(k)
     /\ RootArg => env["params"] = k

\* The mounted root, the root= of the command line and the booted kernel are
\* of the same slot, whose root is whole.
RunningIsOneSlot ==
  power = "up" => /\ running.kernel \in Slots
                  /\ running.root = running.kernel
                  /\ root[running.root] # Broken
                  /\ RootArg => running.cmdline = running.kernel

\* Before the installation is over it has written to one slot only, not to
\* the one that is booted next, and no other slot holds its build.
InstallIsAside ==
  /\ pc # "idle" => /\ bundle.images
                    /\ pc # "save" => env["kernel"] = running.kernel
  /\ pc = "image" /\ bundle.nroot >= 2 =>
       \A s \in Slots : root[s] = bundle.build =>
                           s = NextIndex(CurrentRoot, bundle.nroot)
  /\ pc \in {"flashing", "file", "copying", "save"} =>
       /\ rrtarget \in Slots
       /\ rrtarget # running.kernel
       /\ \A s \in Slots : root[s] = bundle.build => s = rrtarget
  /\ pc \in {"file", "copying", "save"} =>
       /\ root[rrtarget] = bundle.build
       /\ \A f \in Files : f < file => kern[rrtarget][f] = bundle.build
  /\ pc \in {"idle", "image", "flashing"} => file = 1
  /\ pc = "save" => file = F + 1

\* The variables that wait to be saved name the slot that was written.
PendingNamesTarget ==
  /\ pc \in {"idle", "image", "flashing"} \/ ~ Deferred => pend = NothingPending
  /\ pc \in {"file", "copying", "save"} /\ Deferred =>
       /\ pend["params"] = IF RootArg THEN rrtarget ELSE 0
       /\ pend["kernel"] = IF file > 1 THEN rrtarget ELSE 0
  /\ pc = "save" /\ ~ Deferred => env["kernel"] = rrtarget

IInv ==
  /\ TypeOK
  /\ NextBootIsWhole
  /\ RunningIsOneSlot
  /\ InstallIsAside
  /\ PendingNamesTarget

-----------------------------------------------------------------------------
(***************************************************************************)
(* Without a reboot between installations and with any build, if only      *)
(* every bundle has a root image: the slot the environment names may be    *)
(* overwritten, but running and next slot stay one each.                   *)
(***************************************************************************)
RetryConfiguration ==
  /\ Deferred /\ ~ UuidRoot
  /\ Labelled = Slots /\ NamesApart
  /\ "fullBundles" \in Discipline

\* Both variables of the environment name one slot, and so does what runs.
VariablesInStep ==
  /\ env["params"] = env["kernel"]
  /\ power = "up" => /\ running.root = running.kernel
                     /\ running.cmdline = running.kernel

\* An installation works on another slot than the running one, and sets the
\* variables to it.
RetryIsAside ==
  /\ pc # "idle" => bundle.images
  /\ pc \in {"flashing", "file", "copying", "save"} =>
       rrtarget \in Slots /\ rrtarget # running.root
  /\ pc \in {"file", "copying", "save"} =>
       /\ root[rrtarget] = bundle.build
       /\ \A f \in Files : f < file => kern[rrtarget][f] = bundle.build
       /\ pend["params"] = rrtarget
       /\ pend["kernel"] = IF file > 1 THEN rrtarget ELSE 0
  /\ pc \in {"idle", "image", "flashing"} => file = 1 /\ pend = NothingPending
  /\ pc = "save" => file = F + 1

RetryInv == TypeOK /\ VariablesInStep /\ RetryIsAside
=============================================================================
