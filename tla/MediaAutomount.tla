---------------------------- MODULE MediaAutomount ----------------------------
(***************************************************************************)
(* Automatic mounting of removable media                                   *)
(* (recipes-srg52/srg52-customizations/files/automount): udev restarts the *)
(* unit media-automount@DEV whenever a partition comes or goes, and the    *)
(* script of the unit looks for itself whether the device node is there.   *)
(* Units of different devices run at the same time; udev handles the       *)
(* events of one device one after the other.  umount_dmenu lets a user     *)
(* take a medium off.                                                      *)
(***************************************************************************)
EXTENDS Naturals, Sequences, FiniteSets

CONSTANTS
  Devs,        \* device names: sda1, sdb1, mmcblk0p1
  Labels,      \* labels of file systems
  None,        \* no label
  Media,       \* the media there are
  FstabDevs,   \* the devices that fstab names
  Absent,      \* no medium: there is no device node
  MaxPlugs,    \* bound on insertions and removals
  Users        \* a user calls umount_dmenu

\* The directories in /media are named by a label or by a device.
Dirs == Devs \cup Labels

(***************************************************************************)
(* What blkid tells of a medium, whether a line of fstab names its UUID or *)
(* its label, and whether it can be mounted.                               *)
(***************************************************************************)
Info ==
  [label: Labels \cup {None}, uuid: BOOLEAN, fstab: SUBSET {"uuid", "label"},
   good: BOOLEAN, id: Nat]

\* fstab names a medium only by what it has.
ASSUME MediaAssumption ==
  /\ Media \subseteq Info /\ Absent \notin Media
  /\ \A m \in Media : /\ "uuid" \in m.fstab => m.uuid
                      /\ "label" \in m.fstab => m.label # None

ASSUME NamesAssumption ==
  /\ Devs \cap Labels = {} /\ None \notin Dirs /\ FstabDevs \subseteq Devs
  /\ MaxPlugs \in Nat /\ Users \in BOOLEAN

\* blkid of a device that is gone prints nothing.
Nothing == [label |-> None, uuid |-> FALSE, fstab |-> {}, good |-> FALSE, id |-> 0]

VARIABLES
  node,     \* the medium behind each device node
  mounts,   \* the mount table, the latest mount last
  dirs,     \* the directories in /media
  events,   \* for each device: udev events not yet handled
  pc,       \* of the script of each device
  info,     \* what blkid told it
  todo,     \* the directories it still has to look at
  victim,   \* the directory it found not to be a mount point
  leaving,  \* the directory umount_dmenu is about to remove
  plugs     \* insertions and removals so far

vars == <<node, mounts, dirs, events, pc, info, todo, victim, leaving, plugs>>

script == <<pc, info, todo, victim>>

TypeOK ==
  /\ node \in [Devs -> Media \cup {Absent}]
  /\ mounts \in Seq([dev: Devs, dir: Dirs, medium: Media, told: Media \cup {Nothing}])
  /\ dirs \subseteq Dirs
  /\ events \in [Devs -> 0 .. MaxPlugs]
  /\ pc \in [Devs -> {"idle", "start", "umount", "clean", "rmdir", "blkid", "mkdir",
                      "mount", "undo"}]
  /\ info \in [Devs -> Media \cup {Nothing}]
  /\ todo \in [Devs -> SUBSET Dirs]
  /\ victim \in [Devs -> Dirs \cup {None}]
  /\ leaving \in Dirs \cup {None}
  /\ plugs \in 0 .. MaxPlugs

Init ==
  /\ node = [d \in Devs |-> Absent]
  /\ mounts = <<>>
  /\ dirs = {}
  /\ events = [d \in Devs |-> 0]
  /\ pc = [d \in Devs |-> "idle"]
  /\ info = [d \in Devs |-> Nothing]
  /\ todo = [d \in Devs |-> {}]
  /\ victim = [d \in Devs |-> None]
  /\ leaving = None
  /\ plugs = 0

MountsOf(d) == {i \in DOMAIN mounts : mounts[i].dev = d}

MountsAt(dir) == {i \in DOMAIN mounts : mounts[i].dir = dir}

Mountpoint(dir) == MountsAt(dir) # {}

\* No later mount covers the i-th.
OnTop(i) == \A j \in MountsAt(mounts[i].dir) : j <= i

\* rmdir: not of a mount point, nor of what is not there.
Rmdir(dir) ==
  dirs' = IF Mountpoint(dir) THEN dirs ELSE dirs \ {dir}

Without(i) ==
  [j \in 1 .. Len(mounts) - 1 |-> IF j < i THEN mounts[j] ELSE mounts[j + 1]]

-----------------------------------------------------------------------------
(***************************************************************************)
(* The hardware and udev                                                   *)
(***************************************************************************)

\* The kernel does not give away the name of a device that is still mounted.
Insert(d, m) ==
  /\ plugs < MaxPlugs
  /\ node[d] = Absent /\ MountsOf(d) = {}
  /\ \A e \in Devs : node[e] # m
  /\ node' = [node EXCEPT ![d] = m]
  /\ events' = [events EXCEPT ![d] = @ + 1]
  /\ plugs' = plugs + 1
  /\ UNCHANGED <<mounts, dirs, script, leaving>>

Remove(d) ==
  /\ plugs < MaxPlugs
  /\ node[d] # Absent
  /\ node' = [node EXCEPT ![d] = Absent]
  /\ events' = [events EXCEPT ![d] = @ + 1]
  /\ plugs' = plugs + 1
  /\ UNCHANGED <<mounts, dirs, script, leaving>>

\* "systemctl restart" for the next event of a device, whatever it was.
Restart(d) ==
  /\ events[d] > 0
  /\ pc[d] = "idle"
  /\ events' = [events EXCEPT ![d] = @ - 1]
  /\ pc' = [pc EXCEPT ![d] = "start"]
  /\ UNCHANGED <<node, mounts, dirs, info, todo, victim, leaving, plugs>>

-----------------------------------------------------------------------------
(***************************************************************************)
(* media-automount                                                         *)
(***************************************************************************)

Goto(d, where) == pc' = [pc EXCEPT ![d] = where]

\* Mutant of CheckDevice: only an unmounted device leads to the clean-up.
MutCheckDeviceNoUmount(d) ==
  /\ pc[d] = "start"
  /\ Goto(d, IF node[d] # Absent THEN "blkid" ELSE "clean")
  /\ todo' = [todo EXCEPT ![d] = dirs]
  /\ UNCHANGED <<node, mounts, dirs, events, info, victim, leaving, plugs>>

\* [ -b $dev ], and the look into mtab.
CheckDevice(d) ==
  /\ pc[d] = "start"
  /\ Goto(d, IF node[d] # Absent THEN "blkid"
             ELSE IF MountsOf(d) # {} THEN "umount" ELSE "clean")
  /\ todo' = [todo EXCEPT ![d] = IF pc'[d] = "clean" THEN dirs ELSE {}]
  /\ UNCHANGED <<node, mounts, dirs, events, info, victim, leaving, plugs>>

\* umount refuses a file system with another one on top of it.
Umount(d) ==
  /\ pc[d] = "umount"
  /\ IF \E i \in MountsOf(d) : OnTop(i)
       THEN \E i \in MountsOf(d) : OnTop(i) /\ mounts' = Without(i)
       ELSE UNCHANGED mounts
  /\ Goto(d, "clean")
  /\ todo' = [todo EXCEPT ![d] = dirs]
  /\ UNCHANGED <<node, dirs, events, info, victim, leaving, plugs>>

\* The loop over /media, first half: is the next directory a mount point?
CleanNext(d) ==
  /\ pc[d] = "clean"
  /\ IF todo[d] = {}
       THEN Goto(d, "idle") /\ UNCHANGED <<todo, victim>>
       ELSE \E dir \in todo[d] :
              /\ todo' = [todo EXCEPT ![d] = @ \ {dir}]
              /\ IF dir \in dirs /\ ~ Mountpoint(dir)
                   THEN Goto(d, "rmdir") /\ victim' = [victim EXCEPT ![d] = dir]
                   ELSE UNCHANGED <<pc, victim>>
  /\ UNCHANGED <<node, mounts, dirs, events, info, leaving, plugs>>

\* Second half: it is removed.
CleanRmdir(d) ==
  /\ pc[d] = "rmdir"
  /\ Rmdir(victim[d])
  /\ victim' = [victim EXCEPT ![d] = None]
  /\ Goto(d, "clean")
  /\ UNCHANGED <<node, mounts, events, info, todo, leaving, plugs>>

\* Mutant of InFstab: the label is not looked up when the UUID is known.
MutInFstabUuidOnly(d, i) ==
  IF i.uuid THEN "uuid" \in i.fstab ELSE "label" \in i.fstab \/ d \in FstabDevs

\* The list of && and ||: when the UUID is found the search goes on with the
\* label, and an empty label is found everywhere.
InFstab(d, i) ==
  LET uuid  == i.uuid /\ "uuid" \in i.fstab
      label == (uuid \/ i.label # None) /\ (i.label = None \/ "label" \in i.fstab)
  IN label \/ d \in FstabDevs

Blkid(d) ==
  /\ pc[d] = "blkid"
  /\ LET i == IF node[d] = Absent THEN Nothing ELSE node[d]
     IN IF InFstab(d, i)
          THEN Goto(d, "idle") /\ UNCHANGED info
          ELSE Goto(d, "mkdir") /\ info' = [info EXCEPT ![d] = i]
  /\ UNCHANGED <<node, mounts, dirs, events, todo, victim, leaving, plugs>>

\* Mutant of Dir: a medium without a label gets no name of its own.
MutDirNoDefault(d) == info[d].label

Dir(d) == IF info[d].label # None THEN info[d].label ELSE d

Mkdir(d) ==
  /\ pc[d] = "mkdir"
  /\ dirs' = dirs \cup {Dir(d)}
  /\ Goto(d, "mount")
  /\ UNCHANGED <<node, mounts, events, info, todo, victim, leaving, plugs>>

\* A device is not mounted twice on the same directory.
MountWorks(d) ==
  /\ node[d] # Absent /\ node[d].good
  /\ Dir(d) \in dirs
  /\ MountsOf(d) \cap MountsAt(Dir(d)) = {}

Mount(d) ==
  /\ pc[d] = "mount"
  /\ IF MountWorks(d)
       THEN /\ mounts' = Append(mounts, [dev |-> d, dir |-> Dir(d), medium |-> node[d],
                                         told |-> info[d]])
            /\ Goto(d, "idle") /\ info' = [info EXCEPT ![d] = Nothing]
       ELSE Goto(d, "undo") /\ UNCHANGED <<mounts, info>>
  /\ UNCHANGED <<node, dirs, events, todo, victim, leaving, plugs>>

\* Mutant of Undo: the directory is left behind.
MutUndoKeepsDir(d) ==
  /\ pc[d] = "undo"
  /\ Goto(d, "idle") /\ info' = [info EXCEPT ![d] = Nothing]
  /\ UNCHANGED <<node, mounts, dirs, events, todo, victim, leaving, plugs>>

Undo(d) ==
  /\ pc[d] = "undo"
  /\ Rmdir(Dir(d))
  /\ Goto(d, "idle") /\ info' = [info EXCEPT ![d] = Nothing]
  /\ UNCHANGED <<node, mounts, events, todo, victim, leaving, plugs>>

Step(d) ==
  \/ CheckDevice(d) \/ Umount(d) \/ CleanNext(d) \/ CleanRmdir(d)
  \/ Blkid(d) \/ Mkdir(d) \/ Mount(d) \/ Undo(d)

-----------------------------------------------------------------------------
(***************************************************************************)
(* umount_dmenu                                                            *)
(***************************************************************************)

DmenuUmount(dir) ==
  /\ Users /\ leaving = None
  /\ \E i \in MountsAt(dir) : OnTop(i) /\ mounts' = Without(i)
  /\ leaving' = dir
  /\ UNCHANGED <<node, dirs, events, script, plugs>>

DmenuRmdir ==
  /\ leaving # None
  /\ Rmdir(leaving)
  /\ leaving' = None
  /\ UNCHANGED <<node, mounts, events, script, plugs>>

-----------------------------------------------------------------------------
Next ==
  \/ \E d \in Devs : \/ \E m \in Media : Insert(d, m)
                     \/ Remove(d)
                     \/ Restart(d)
                     \/ Step(d)
  \/ \E dir \in Dirs : DmenuUmount(dir)
  \/ DmenuRmdir

Spec == Init /\ [][Next]_vars

\* udev handles every event, and what was started is run to its end.
FairSpec ==
  /\ Spec
  /\ \A d \in Devs : WF_vars(Restart(d)) /\ WF_vars(Step(d))
  /\ WF_vars(DmenuRmdir)
-----------------------------------------------------------------------------
(***************************************************************************)
(* Properties                                                              *)
(***************************************************************************)

\* No event is waiting and nothing runs.
Quiet ==
  /\ \A d \in Devs : events[d] = 0 /\ pc[d] = "idle"
  /\ leaving = None

\* "mount the device when added": when all is quiet, every medium that can be
\* mounted is, unless the user has taken it off or fstab has it.
MountedWhenAdded ==
  Quiet /\ ~ Users =>
    \A d \in Devs : node[d] # Absent /\ node[d].good /\ node[d].fstab = {} /\ d \notin FstabDevs
                  => MountsOf(d) # {}

\* "umounting and cleaning /media": in the end /media has no directory but
\* those that something is mounted on, though the script that removes one is
\* not the script that made it.
CleanMedia == Quiet => \A dir \in dirs : Mountpoint(dir)

\* What of fstab the script misses.  "Don't manage devices that are already in
\* fstab", says its comment, and that does not hold: InFstab passes over the UUID
\* of a labelled medium.  But for such a medium, and one put in place of that
\* which blkid was asked about, nothing is mounted that fstab names.
OnlyUuidMissed ==
  \A i \in DOMAIN mounts :
    LET m == mounts[i]
    IN /\ m.dev \notin FstabDevs
       /\ m.told = m.medium =>
            m.medium.fstab = {} \/ (m.medium.fstab = {"uuid"} /\ m.medium.label # None)

\* The script of device d is on its way to a directory: it is about to mount on
\* it or to look at it, and will leave it mounted on or removed.
CleanedBy(d, dir) ==
  \/ pc[d] \in {"mount", "undo"} /\ Dir(d) = dir
  \/ pc[d] \in {"clean", "rmdir"} /\ dir \in todo[d]
  \/ pc[d] = "rmdir" /\ victim[d] = dir

Watched ==
  \A dir \in dirs :
    Mountpoint(dir) \/ leaving = dir \/ \E d \in Devs : CleanedBy(d, dir)

FstabLookedAt ==
  \A d \in Devs : pc[d] \in {"mkdir", "mount", "undo"} => ~ InFstab(d, info[d])

EventsCounted == \A d \in Devs : events[d] <= plugs

\* The inductive invariant behind TypeOK and CleanMedia: every directory that
\* nothing is mounted on has somebody on the way to it, though not the one that
\* made it, and what is about to be mounted was not found in fstab.
IInv == TypeOK /\ EventsCounted /\ Watched /\ FstabLookedAt /\ OnlyUuidMissed

\* "clean up after device removal": once its removal is announced, a medium that
\* was pulled out does not stay mounted, also if media come and go faster than
\* events are handled.  The script takes one mount off, so this is about a
\* device that is mounted once; one that was away for blkid and back for mount
\* is mounted in two places.
GhostsGo ==
  \A d \in Devs :
    (node[d] = Absent /\ events[d] > 0 /\ Cardinality(MountsOf(d)) = 1)
      ~> (MountsOf(d) = {})
=============================================================================
