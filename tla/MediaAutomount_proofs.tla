------------------------ MODULE MediaAutomount_proofs ------------------------
(***************************************************************************)
(* Proofs about MediaAutomount: types, that /media is clean when all is    *)
(* quiet, and what of fstab is missed, for any devices, media and bounds.  *)
(***************************************************************************)
EXTENDS MediaAutomount, TLAPS

Entries == [dev : Devs, dir : Dirs, medium : Media, told : Media \cup {Nothing}]

-----------------------------------------------------------------------------
(***************************************************************************)
(* The mount table.                                                        *)
(***************************************************************************)

LEMMA WithoutTyped ==
  ASSUME mounts \in Seq(Entries), NEW i \in DOMAIN mounts
  PROVE  /\ Without(i) \in Seq(Entries)
         /\ DOMAIN Without(i) = 1 .. Len(mounts) - 1
         /\ \A j \in DOMAIN Without(i) :
              Without(i)[j] = IF j < i THEN mounts[j] ELSE mounts[j + 1]
  <1>1. Len(mounts) \in Nat /\ i \in 1 .. Len(mounts) /\ DOMAIN mounts = 1 .. Len(mounts)
    OBVIOUS
  <1>2. \A j \in 1 .. Len(mounts) - 1 :
          (IF j < i THEN mounts[j] ELSE mounts[j + 1]) \in Entries
    BY <1>1
  <1>3. Len(mounts) - 1 \in Nat
    BY <1>1
  <1>4. Without(i) \in [1 .. Len(mounts) - 1 -> Entries]
    BY <1>2 DEF Without
  <1>5. Without(i) \in Seq(Entries)
    BY <1>3, <1>4
  <1> QED BY <1>4, <1>5 DEF Without

\* Where something else is mounted too, or nothing was taken off, a directory
\* stays a mount point.
LEMMA StaysMountpoint ==
  ASSUME mounts \in Seq(Entries), NEW i \in DOMAIN mounts, mounts' = Without(i),
         NEW dir, dir # mounts[i].dir, Mountpoint(dir)
  PROVE  Mountpoint(dir)'
  <1>1. PICK j \in DOMAIN mounts : mounts[j].dir = dir
    BY DEF Mountpoint, MountsAt
  <1>2. /\ Len(mounts) \in Nat /\ i \in 1 .. Len(mounts) /\ j \in 1 .. Len(mounts)
        /\ j # i
    BY <1>1
  <1> DEFINE k == IF j < i THEN j ELSE j - 1
  <1>3. k \in 1 .. Len(mounts) - 1
    BY <1>2
  <1>4. mounts'[k] = mounts[j]
    BY <1>2, <1>3 DEF Without
  <1>5. k \in DOMAIN mounts'
    BY <1>3 DEF Without
  <1> QED BY <1>1, <1>4, <1>5 DEF Mountpoint, MountsAt

\* Taking a mount off leaves no entry that was not there.
LEMMA WithoutRespects ==
  ASSUME mounts \in Seq(Entries), NEW i \in DOMAIN mounts, mounts' = Without(i),
         OnlyUuidMissed
  PROVE  OnlyUuidMissed'
  <1> SUFFICES ASSUME NEW j \in DOMAIN mounts'
      PROVE  \E k \in DOMAIN mounts : mounts'[j] = mounts[k]
    BY DEF OnlyUuidMissed
  <1>1. j \in 1 .. Len(mounts) - 1 /\ Len(mounts) \in Nat
    BY DEF Without
  <1>2. mounts'[j] = IF j < i THEN mounts[j] ELSE mounts[j + 1]
    BY <1>1 DEF Without
  <1> QED BY <1>1, <1>2

\* What the script is to mount is not in fstab, as OnlyUuidMissed says it.
LEMMA NotInFstab ==
  ASSUME NEW d \in Devs, NEW m \in Media, ~ InFstab(d, m)
  PROVE  m.fstab = {} \/ (m.fstab = {"uuid"} /\ m.label # None)
  <1>1. /\ m \in Info
        /\ "uuid" \in m.fstab => m.uuid
        /\ "label" \in m.fstab => m.label # None
    BY MediaAssumption
  <1>2. m.fstab \in SUBSET {"uuid", "label"}
    BY <1>1 DEF Info
  <1>3. "label" \notin m.fstab
    BY <1>1 DEF InFstab
  <1>4. "uuid" \in m.fstab => m.label # None
    BY <1>1 DEF InFstab
  <1> QED BY <1>2, <1>3, <1>4

-----------------------------------------------------------------------------
(***************************************************************************)
(* Types.                                                                  *)
(***************************************************************************)

\* What blkid told is of a type that names a directory.
LEMMA DirTyped ==
  ASSUME TypeOK, NEW d \in Devs
  PROVE  Dir(d) \in Dirs
  <1>1. info[d] \in Media \cup {Nothing}
    BY DEF TypeOK
  <1>2. info[d].label \in Labels \cup {None}
    BY <1>1, MediaAssumption DEF Info, Nothing
  <1> QED BY <1>2 DEF Dir, Dirs

Places == {"idle", "start", "umount", "clean", "rmdir", "blkid", "mkdir", "mount", "undo"}

LEMMA TypeInit == Init => TypeOK /\ EventsCounted
  <1> SUFFICES ASSUME Init PROVE TypeOK /\ EventsCounted
    OBVIOUS
  <1>1. MaxPlugs \in Nat
    BY NamesAssumption
  <1>2. mounts \in Seq(Entries)
    BY DEF Init
  <1> QED BY <1>1, <1>2 DEF Init, TypeOK, EventsCounted, Entries

\* The script leaves what the hardware and udev change alone.
LEMMA StepTyped ==
  ASSUME TypeOK, NEW d \in Devs, Step(d)
  PROVE  TypeOK'
  <1>0. /\ node \in [Devs -> Media \cup {Absent}] /\ mounts \in Seq(Entries)
        /\ dirs \subseteq Dirs /\ pc \in [Devs -> Places]
        /\ info \in [Devs -> Media \cup {Nothing}] /\ todo \in [Devs -> SUBSET Dirs]
        /\ victim \in [Devs -> Dirs \cup {None}]
    BY DEF TypeOK, Entries, Places
  <1> SUFFICES /\ UNCHANGED <<node, events, leaving, plugs>> /\ mounts' \in Seq(Entries)
               /\ dirs' \subseteq Dirs /\ pc' \in [Devs -> Places]
               /\ info' \in [Devs -> Media \cup {Nothing}]
               /\ todo' \in [Devs -> SUBSET Dirs]
               /\ victim' \in [Devs -> Dirs \cup {None}]
    BY DEF TypeOK, Entries, Places
  <1>1. CASE CheckDevice(d)
    BY <1>0, <1>1 DEF CheckDevice, Goto, Places
  <1>2. CASE Umount(d)
    <2>1. mounts' \in Seq(Entries)
      BY <1>0, <1>2, WithoutTyped DEF Umount, MountsOf
    <2> QED BY <1>0, <1>2, <2>1 DEF Umount, Goto, Places
  <1>3. CASE CleanNext(d)
    <2>1. CASE todo[d] = {}
      BY <1>0, <1>3, <2>1 DEF CleanNext, Goto, Places
    <2>2. CASE todo[d] # {}
      <3>1. PICK dir \in todo[d] :
              /\ todo' = [todo EXCEPT ![d] = @ \ {dir}]
              /\ IF dir \in dirs /\ ~ Mountpoint(dir)
                   THEN Goto(d, "rmdir") /\ victim' = [victim EXCEPT ![d] = dir]
                   ELSE UNCHANGED <<pc, victim>>
        BY <1>3, <2>2 DEF CleanNext
      <3>2. dir \in Dirs
        BY <1>0
      <3>3. /\ todo' \in [Devs -> SUBSET Dirs] /\ pc' \in [Devs -> Places]
            /\ victim' \in [Devs -> Dirs \cup {None}]
        BY <1>0, <3>1, <3>2 DEF Goto, Places
      <3> QED BY <1>0, <1>3, <3>3 DEF CleanNext
    <2> QED BY <2>1, <2>2
  <1>4. CASE CleanRmdir(d)
    BY <1>0, <1>4 DEF CleanRmdir, Rmdir, Goto, Places
  <1>5. CASE Blkid(d)
    BY <1>0, <1>5 DEF Blkid, Goto, Places
  <1>6. CASE Mkdir(d)
    BY <1>0, <1>6, DirTyped DEF Mkdir, Goto, Places
  <1>7. CASE Mount(d)
    <2>1. CASE MountWorks(d)
      <3>1. [dev |-> d, dir |-> Dir(d), medium |-> node[d], told |-> info[d]] \in Entries
        BY <1>0, <2>1, DirTyped DEF MountWorks, Entries
      <3>2. mounts' \in Seq(Entries)
        BY <1>0, <1>7, <2>1, <3>1 DEF Mount
      <3> QED BY <1>0, <1>7, <2>1, <3>2 DEF Mount, Goto, Places
    <2>2. CASE ~ MountWorks(d)
      BY <1>0, <1>7, <2>2 DEF Mount, Goto, Places
    <2> QED BY <2>1, <2>2
  <1>8. CASE Undo(d)
    BY <1>0, <1>8 DEF Undo, Rmdir, Goto, Places
  <1> QED BY <1>1, <1>2, <1>3, <1>4, <1>5, <1>6, <1>7, <1>8 DEF Step

LEMMA TypeStep == TypeOK /\ EventsCounted /\ [Next]_vars => TypeOK' /\ EventsCounted'
  <1> SUFFICES ASSUME TypeOK, EventsCounted, [Next]_vars
      PROVE  TypeOK' /\ EventsCounted'
    OBVIOUS
  <1>0. /\ MaxPlugs \in Nat /\ plugs \in 0 .. MaxPlugs
        /\ events \in [Devs -> 0 .. MaxPlugs] /\ node \in [Devs -> Media \cup {Absent}]
    BY NamesAssumption DEF TypeOK
  <1>1. ASSUME NEW d \in Devs, NEW m \in Media, Insert(d, m)
        PROVE  TypeOK' /\ EventsCounted'
    <2>1. /\ plugs' = plugs + 1 /\ plugs' \in 0 .. MaxPlugs
          /\ events' = [events EXCEPT ![d] = @ + 1]
      BY <1>0, <1>1 DEF Insert
    <2>2. \A e \in Devs : events'[e] \in 0 .. MaxPlugs /\ events'[e] <= plugs'
      BY <1>0, <2>1 DEF EventsCounted
    <2>3. node' \in [Devs -> Media \cup {Absent}] /\ events' \in [Devs -> 0 .. MaxPlugs]
      BY <1>0, <1>1, <2>1, <2>2 DEF Insert
    <2> QED BY <1>1, <2>1, <2>2, <2>3 DEF Insert, TypeOK, EventsCounted, script
  <1>2. ASSUME NEW d \in Devs, Remove(d)
        PROVE  TypeOK' /\ EventsCounted'
    <2>1. /\ plugs' = plugs + 1 /\ plugs' \in 0 .. MaxPlugs
          /\ events' = [events EXCEPT ![d] = @ + 1]
      BY <1>0, <1>2 DEF Remove
    <2>2. \A e \in Devs : events'[e] \in 0 .. MaxPlugs /\ events'[e] <= plugs'
      BY <1>0, <2>1 DEF EventsCounted
    <2>3. node' \in [Devs -> Media \cup {Absent}] /\ events' \in [Devs -> 0 .. MaxPlugs]
      BY <1>0, <1>2, <2>1, <2>2 DEF Remove
    <2> QED BY <1>2, <2>1, <2>2, <2>3 DEF Remove, TypeOK, EventsCounted, script
  <1>3. ASSUME NEW d \in Devs, Restart(d)
        PROVE  TypeOK' /\ EventsCounted'
    <2>1. events' = [events EXCEPT ![d] = @ - 1] /\ events[d] > 0 /\ plugs' = plugs
      BY <1>3 DEF Restart
    <2>2. \A e \in Devs : events'[e] \in 0 .. MaxPlugs /\ events'[e] <= plugs'
      BY <1>0, <2>1 DEF EventsCounted
    <2>3. events' \in [Devs -> 0 .. MaxPlugs]
      BY <1>0, <2>1, <2>2
    <2> QED BY <1>3, <2>2, <2>3 DEF Restart, TypeOK, EventsCounted
  <1>4. ASSUME NEW d \in Devs, Step(d)
        PROVE  TypeOK' /\ EventsCounted'
    <2>1. UNCHANGED <<events, plugs>>
      BY <1>4 DEF Step, CheckDevice, Umount, CleanNext, CleanRmdir, Blkid, Mkdir, Mount, Undo
    <2> QED BY <1>4, <2>1, StepTyped DEF EventsCounted
  <1>5. ASSUME NEW dir \in Dirs, DmenuUmount(dir)
        PROVE  TypeOK' /\ EventsCounted'
    <2>1. mounts' \in Seq(Entries)
      BY <1>5, WithoutTyped DEF DmenuUmount, MountsAt, TypeOK, Entries
    <2> QED BY <1>5, <2>1 DEF DmenuUmount, TypeOK, EventsCounted, script, Entries
  <1>6. CASE DmenuRmdir
    BY <1>6 DEF DmenuRmdir, Rmdir, TypeOK, EventsCounted, script
  <1>7. CASE UNCHANGED vars
    BY <1>7 DEF vars, script, TypeOK, EventsCounted
  <1> QED BY <1>1, <1>2, <1>3, <1>4, <1>5, <1>6, <1>7 DEF Next

-----------------------------------------------------------------------------
(***************************************************************************)
(* Every directory has something mounted on it or somebody on the way.     *)
(***************************************************************************)

\* A step of one script does not keep another from its directory.
LEMMA OthersWatch ==
  ASSUME TypeOK, NEW d \in Devs, Step(d), NEW e \in Devs, e # d,
         NEW dir, CleanedBy(e, dir)
  PROVE  CleanedBy(e, dir)'
  <1>0. /\ pc \in [Devs -> Places] /\ info \in [Devs -> Media \cup {Nothing}]
        /\ todo \in [Devs -> SUBSET Dirs] /\ victim \in [Devs -> Dirs \cup {None}]
    BY DEF TypeOK, Places
  <1>1. pc'[e] = pc[e]
    BY <1>0 DEF Step, CheckDevice, Umount, CleanNext, CleanRmdir, Blkid, Mkdir, Mount,
                Undo, Goto
  <1>2. info'[e] = info[e]
    BY <1>0 DEF Step, CheckDevice, Umount, CleanNext, CleanRmdir, Blkid, Mkdir, Mount,
                Undo
  <1>3. todo'[e] = todo[e]
    BY <1>0 DEF Step, CheckDevice, Umount, CleanNext, CleanRmdir, Blkid, Mkdir, Mount,
                Undo
  <1>4. victim'[e] = victim[e]
    BY <1>0 DEF Step, CheckDevice, Umount, CleanNext, CleanRmdir, Blkid, Mkdir, Mount,
                Undo
  <1> QED BY <1>1, <1>2, <1>3, <1>4 DEF CleanedBy, Dir

\* So what a script has to answer for is its own directories.
LEMMA OwnWatch ==
  ASSUME TypeOK, Watched, NEW d \in Devs, Step(d), NEW dir \in dirs,
         Mountpoint(dir) => Mountpoint(dir)',
         CleanedBy(d, dir) => Mountpoint(dir)' \/ CleanedBy(d, dir)'
  PROVE  Mountpoint(dir)' \/ leaving' = dir \/ \E e \in Devs : CleanedBy(e, dir)'
  <1>1. leaving' = leaving
    BY DEF Step, CheckDevice, Umount, CleanNext, CleanRmdir, Blkid, Mkdir, Mount, Undo
  <1>2. Mountpoint(dir) \/ leaving = dir \/ \E e \in Devs : CleanedBy(e, dir)
    BY DEF Watched
  <1>3. ASSUME NEW e \in Devs, CleanedBy(e, dir)
        PROVE  Mountpoint(dir)' \/ \E f \in Devs : CleanedBy(f, dir)'
    BY <1>3, OthersWatch
  <1> QED BY <1>1, <1>2, <1>3

LEMMA StepWatched ==
  ASSUME TypeOK, Watched, NEW d \in Devs, Step(d)
  PROVE  Watched'
  <1>0. /\ mounts \in Seq(Entries) /\ dirs \subseteq Dirs /\ pc \in [Devs -> Places]
        /\ info \in [Devs -> Media \cup {Nothing}] /\ todo \in [Devs -> SUBSET Dirs]
        /\ victim \in [Devs -> Dirs \cup {None}]
    BY DEF TypeOK, Entries, Places
  <1> SUFFICES ASSUME NEW dir \in dirs'
      PROVE  Mountpoint(dir)' \/ leaving' = dir \/ \E e \in Devs : CleanedBy(e, dir)'
    BY DEF Watched
  <1>1. CASE CheckDevice(d)
    <2>1. dir \in dirs /\ ~ CleanedBy(d, dir)
      BY <1>1 DEF CheckDevice, CleanedBy
    <2>2. Mountpoint(dir) => Mountpoint(dir)'
      BY <1>1 DEF CheckDevice, Mountpoint, MountsAt
    <2> QED BY <2>1, <2>2, OwnWatch
  <1>2. CASE Umount(d)
    <2>1. CleanedBy(d, dir)'
      BY <1>0, <1>2 DEF Umount, Goto, CleanedBy
    <2> QED BY <2>1
  <1>3. CASE CleanNext(d)
    <2>1. dir \in dirs
      BY <1>3 DEF CleanNext
    <2>2. Mountpoint(dir) => Mountpoint(dir)'
      BY <1>3 DEF CleanNext, Mountpoint, MountsAt
    <2>3. ASSUME CleanedBy(d, dir)
          PROVE  Mountpoint(dir)' \/ CleanedBy(d, dir)'
      <3>1. dir \in todo[d] /\ pc[d] = "clean"
        BY <1>3, <2>3 DEF CleanNext, CleanedBy
      <3>2. PICK next \in todo[d] :
              /\ todo' = [todo EXCEPT ![d] = @ \ {next}]
              /\ IF next \in dirs /\ ~ Mountpoint(next)
                   THEN Goto(d, "rmdir") /\ victim' = [victim EXCEPT ![d] = next]
                   ELSE UNCHANGED <<pc, victim>>
        BY <1>3, <3>1 DEF CleanNext
      <3>3. CASE dir # next
        <4>1. dir \in todo'[d]
          BY <1>0, <3>1, <3>2, <3>3
        <4>2. pc'[d] \in {"clean", "rmdir"}
          BY <1>0, <3>1, <3>2 DEF Goto
        <4> QED BY <4>1, <4>2 DEF CleanedBy
      <3>4. CASE dir = next /\ ~ Mountpoint(dir)
        <4>1. pc'[d] = "rmdir" /\ victim'[d] = dir
          BY <1>0, <2>1, <3>2, <3>4 DEF Goto
        <4> QED BY <4>1 DEF CleanedBy
      <3>5. CASE Mountpoint(dir)
        BY <2>2, <3>5
      <3> QED BY <3>3, <3>4, <3>5
    <2> QED BY <2>1, <2>2, <2>3, OwnWatch
  <1>4. CASE CleanRmdir(d)
    <2>1. dir \in dirs /\ (dir = victim[d] => Mountpoint(dir))
      BY <1>4 DEF CleanRmdir, Rmdir
    <2>2. Mountpoint(dir) => Mountpoint(dir)'
      BY <1>4 DEF CleanRmdir, Mountpoint, MountsAt
    <2>3. pc'[d] = "clean" /\ todo' = todo /\ pc[d] = "rmdir"
      BY <1>0, <1>4 DEF CleanRmdir, Goto
    <2>4. CleanedBy(d, dir) => Mountpoint(dir)' \/ CleanedBy(d, dir)'
      BY <2>1, <2>2, <2>3 DEF CleanedBy
    <2> QED BY <2>1, <2>2, <2>4, OwnWatch
  <1>5. CASE Blkid(d)
    <2>1. dir \in dirs /\ ~ CleanedBy(d, dir)
      BY <1>5 DEF Blkid, CleanedBy
    <2>2. Mountpoint(dir) => Mountpoint(dir)'
      BY <1>5 DEF Blkid, Mountpoint, MountsAt
    <2> QED BY <2>1, <2>2, OwnWatch
  <1>6. CASE Mkdir(d)
    <2>1. pc[d] = "mkdir" /\ pc'[d] = "mount" /\ info' = info /\ mounts' = mounts
      BY <1>0, <1>6 DEF Mkdir, Goto
    <2>2. CASE dir = Dir(d)
      BY <2>1, <2>2 DEF CleanedBy, Dir
    <2>3. CASE dir # Dir(d)
      <3>1. dir \in dirs
        BY <1>6, <2>3 DEF Mkdir
      <3>2. Mountpoint(dir) => Mountpoint(dir)'
        BY <2>1 DEF Mountpoint, MountsAt
      <3>3. ~ CleanedBy(d, dir)
        BY <2>1 DEF CleanedBy
      <3> QED BY <3>1, <3>2, <3>3, OwnWatch
    <2> QED BY <2>2, <2>3
  <1>7. CASE Mount(d)
    <2>1. dir \in dirs /\ pc[d] = "mount"
      BY <1>7 DEF Mount
    <2>2. CASE MountWorks(d)
      <3> DEFINE entry == [dev |-> d, dir |-> Dir(d), medium |-> node[d], told |-> info[d]]
      <3>1. mounts' = Append(mounts, entry)
        BY <1>7, <2>2 DEF Mount
      <3>2. /\ Len(mounts) \in Nat /\ DOMAIN mounts = 1 .. Len(mounts)
            /\ DOMAIN mounts' = 1 .. Len(mounts) + 1
            /\ mounts'[Len(mounts) + 1] = entry
            /\ \A i \in DOMAIN mounts : mounts'[i] = mounts[i]
        BY <1>0, <3>1
      <3>3. Mountpoint(dir) => Mountpoint(dir)'
        BY <3>2 DEF Mountpoint, MountsAt
      <3>4. entry.dir = Dir(d)
        OBVIOUS
      <3>5. dir = Dir(d) => Mountpoint(dir)'
        <4> HIDE DEF entry
        <4> QED BY <3>2, <3>4 DEF Mountpoint, MountsAt
      <3>6. CleanedBy(d, dir) => Mountpoint(dir)'
        BY <2>1, <3>5 DEF CleanedBy
      <3> QED BY <2>1, <3>3, <3>6, OwnWatch
    <2>3. CASE ~ MountWorks(d)
      <3>1. pc'[d] = "undo" /\ UNCHANGED <<mounts, info>>
        BY <1>0, <1>7, <2>3 DEF Mount, Goto
      <3>2. Mountpoint(dir) => Mountpoint(dir)'
        BY <3>1 DEF Mountpoint, MountsAt
      <3>3. CleanedBy(d, dir) => CleanedBy(d, dir)'
        BY <2>1, <3>1 DEF CleanedBy, Dir
      <3> QED BY <2>1, <3>2, <3>3, OwnWatch
    <2> QED BY <2>2, <2>3
  <1>8. CASE Undo(d)
    <2>1. dir \in dirs /\ (dir = Dir(d) => Mountpoint(dir)) /\ pc[d] = "undo"
      BY <1>8 DEF Undo, Rmdir
    <2>2. Mountpoint(dir) => Mountpoint(dir)'
      BY <1>8 DEF Undo, Mountpoint, MountsAt
    <2>3. CleanedBy(d, dir) => Mountpoint(dir)'
      BY <2>1, <2>2 DEF CleanedBy
    <2> QED BY <2>1, <2>2, <2>3, OwnWatch
  <1> QED BY <1>1, <1>2, <1>3, <1>4, <1>5, <1>6, <1>7, <1>8 DEF Step

\* What the user takes off is on his way; nobody else's directory goes.
LEMMA DmenuWatched ==
  ASSUME TypeOK, Watched, NEW dir \in Dirs, DmenuUmount(dir)
  PROVE  Watched'
  <1>1. PICK i \in MountsAt(dir) : mounts' = Without(i)
    BY DEF DmenuUmount
  <1>2. /\ i \in DOMAIN mounts /\ mounts[i].dir = dir /\ mounts \in Seq(Entries)
        /\ leaving = None /\ leaving' = dir
        /\ UNCHANGED <<dirs, pc, info, todo, victim>>
    BY <1>1 DEF MountsAt, TypeOK, Entries, DmenuUmount, script
  <1>3. ASSUME NEW other \in dirs, other # dir
        PROVE  Mountpoint(other)' \/ \E d \in Devs : CleanedBy(d, other)'
    <2>1. other # None
      BY <1>3, NamesAssumption DEF TypeOK
    <2>2. Mountpoint(other) => Mountpoint(other)'
      BY <1>1, <1>2, <1>3, StaysMountpoint
    <2>3. \A d \in Devs : CleanedBy(d, other) => CleanedBy(d, other)'
      BY <1>2 DEF CleanedBy, Dir
    <2> QED BY <1>2, <2>1, <2>2, <2>3 DEF Watched
  <1> QED BY <1>2, <1>3 DEF Watched

LEMMA WatchedStep == TypeOK /\ Watched /\ [Next]_vars => Watched'
  <1> SUFFICES ASSUME TypeOK, Watched, [Next]_vars PROVE Watched'
    OBVIOUS
  \* What neither touches the directories nor keeps a script from its own.
  <1>1. ASSUME UNCHANGED <<mounts, dirs, info, todo, victim, leaving>>,
               \A d \in Devs : pc'[d] = pc[d] \/ pc[d] = "idle"
        PROVE  Watched'
    <2>1. \A dir : Mountpoint(dir) => Mountpoint(dir)'
      BY <1>1 DEF Mountpoint, MountsAt
    <2>2. \A d \in Devs : \A dir : CleanedBy(d, dir) => CleanedBy(d, dir)'
      BY <1>1 DEF CleanedBy, Dir
    <2> QED BY <1>1, <2>1, <2>2 DEF Watched
  <1>2. ASSUME NEW d \in Devs, NEW m \in Media, Insert(d, m)
        PROVE  Watched'
    BY <1>1, <1>2 DEF Insert, script
  <1>3. ASSUME NEW d \in Devs, Remove(d)
        PROVE  Watched'
    BY <1>1, <1>3 DEF Remove, script
  <1>4. ASSUME NEW d \in Devs, Restart(d)
        PROVE  Watched'
    <2>1. \A e \in Devs : pc'[e] = pc[e] \/ pc[e] = "idle"
      BY <1>4 DEF Restart, TypeOK
    <2> QED BY <1>1, <1>4, <2>1 DEF Restart
  <1>5. CASE DmenuRmdir
    <2>1. \A dir : Mountpoint(dir) => Mountpoint(dir)'
      BY <1>5 DEF DmenuRmdir, Mountpoint, MountsAt
    <2>2. \A d \in Devs : \A dir : CleanedBy(d, dir) => CleanedBy(d, dir)'
      BY <1>5 DEF DmenuRmdir, script, CleanedBy, Dir
    <2>3. \A dir \in dirs' : dir \in dirs /\ (dir = leaving => Mountpoint(dir))
      BY <1>5 DEF DmenuRmdir, Rmdir
    <2> QED BY <2>1, <2>2, <2>3 DEF Watched
  <1>6. CASE UNCHANGED vars
    BY <1>1, <1>6 DEF vars, script
  <1> QED BY <1>2, <1>3, <1>4, <1>5, <1>6, StepWatched, DmenuWatched DEF Next

-----------------------------------------------------------------------------
(***************************************************************************)
(* fstab: what it does not have when blkid is asked is what gets mounted.  *)
(***************************************************************************)

LEMMA FstabLookedAtStep ==
  TypeOK /\ FstabLookedAt /\ [Next]_vars => FstabLookedAt'
  <1> SUFFICES ASSUME TypeOK, FstabLookedAt, [Next]_vars, NEW e \in Devs,
                      pc'[e] \in {"mkdir", "mount", "undo"}
      PROVE  ~ InFstab(e, info'[e])
    BY DEF FstabLookedAt, InFstab
  <1>0. pc \in [Devs -> Places] /\ info \in [Devs -> Media \cup {Nothing}]
    BY DEF TypeOK, Places
  <1>1. ASSUME pc[e] \in {"mkdir", "mount", "undo"}, info'[e] = info[e]
        PROVE  ~ InFstab(e, info'[e])
    BY <1>1 DEF FstabLookedAt
  <1>2. ASSUME NEW d \in Devs, NEW m \in Media, Insert(d, m)
        PROVE  ~ InFstab(e, info'[e])
    BY <1>1, <1>2 DEF Insert, script
  <1>3. ASSUME NEW d \in Devs, Remove(d)
        PROVE  ~ InFstab(e, info'[e])
    BY <1>1, <1>3 DEF Remove, script
  <1>4. ASSUME NEW d \in Devs, Restart(d)
        PROVE  ~ InFstab(e, info'[e])
    BY <1>0, <1>1, <1>4 DEF Restart
  <1>5. ASSUME NEW d \in Devs, Step(d)
        PROVE  ~ InFstab(e, info'[e])
    <2>1. CASE e # d
      <3>1. pc'[e] = pc[e] /\ info'[e] = info[e]
        BY <1>0, <1>5, <2>1 DEF Step, CheckDevice, Umount, CleanNext, CleanRmdir, Blkid,
                                Mkdir, Mount, Undo, Goto
      <3> QED BY <1>1, <3>1
    <2>2. CASE e = d
      <3>1. CASE Blkid(d)
        BY <1>0, <2>2, <3>1 DEF Blkid, Goto
      <3>2. CASE Mkdir(d) \/ Mount(d)
        BY <1>0, <1>1, <2>2, <3>2 DEF Mkdir, Mount, Goto
      <3>3. CASE CheckDevice(d) \/ Umount(d) \/ CleanNext(d) \/ CleanRmdir(d) \/ Undo(d)
        <4>1. pc'[d] \notin {"mkdir", "mount", "undo"}
          BY <1>0, <3>3 DEF CheckDevice, Umount, CleanNext, CleanRmdir, Undo, Goto
        <4> QED BY <2>2, <4>1
      <3> QED BY <1>5, <3>1, <3>2, <3>3 DEF Step
    <2> QED BY <2>1, <2>2
  <1>6. CASE (\E dir \in Dirs : DmenuUmount(dir)) \/ DmenuRmdir
    BY <1>1, <1>6 DEF DmenuUmount, DmenuRmdir, script
  <1>7. CASE UNCHANGED vars
    BY <1>1, <1>7 DEF vars, script
  <1> QED BY <1>2, <1>3, <1>4, <1>5, <1>6, <1>7 DEF Next

LEMMA FstabStep ==
  TypeOK /\ FstabLookedAt /\ OnlyUuidMissed /\ [Next]_vars => OnlyUuidMissed'
  <1> SUFFICES ASSUME TypeOK, FstabLookedAt, OnlyUuidMissed, [Next]_vars
      PROVE  OnlyUuidMissed'
    OBVIOUS
  <1>0. mounts \in Seq(Entries)
    BY DEF TypeOK, Entries
  <1>1. CASE UNCHANGED mounts
    BY <1>1 DEF OnlyUuidMissed
  <1>2. ASSUME NEW i \in DOMAIN mounts, mounts' = Without(i)
        PROVE  OnlyUuidMissed'
    BY <1>0, <1>2, WithoutRespects
  <1>3. ASSUME NEW d \in Devs, Mount(d), MountWorks(d)
        PROVE  OnlyUuidMissed'
    <2> DEFINE entry == [dev |-> d, dir |-> Dir(d), medium |-> node[d], told |-> info[d]]
    <2>1. mounts' = Append(mounts, entry)
      BY <1>3 DEF Mount
    <2>2. ~ InFstab(d, info[d]) /\ node[d] \in Media
      BY <1>3 DEF Mount, MountWorks, FstabLookedAt, TypeOK
    <2>3. d \notin FstabDevs
      BY <2>2 DEF InFstab
    <2>4. info[d] = node[d] =>
            node[d].fstab = {} \/ (node[d].fstab = {"uuid"} /\ node[d].label # None)
      BY <2>2, NotInFstab
    <2>5. \A i \in DOMAIN mounts' :
            mounts'[i] = entry \/ (i \in DOMAIN mounts /\ mounts'[i] = mounts[i])
      BY <1>0, <2>1
    <2>6. entry.dev = d /\ entry.told = info[d] /\ entry.medium = node[d]
      OBVIOUS
    <2> HIDE DEF entry
    <2> QED BY <2>3, <2>4, <2>5, <2>6 DEF OnlyUuidMissed
  <1>4. ASSUME NEW d \in Devs, Step(d)
        PROVE  OnlyUuidMissed'
    <2>1. CASE CheckDevice(d) \/ CleanNext(d) \/ CleanRmdir(d) \/ Blkid(d) \/ Mkdir(d)
               \/ Undo(d)
      BY <1>1, <2>1 DEF CheckDevice, CleanNext, CleanRmdir, Blkid, Mkdir, Undo
    <2>2. CASE Umount(d)
      BY <1>1, <1>2, <2>2 DEF Umount, MountsOf
    <2>3. CASE Mount(d)
      BY <1>1, <1>3, <2>3 DEF Mount
    <2> QED BY <1>4, <2>1, <2>2, <2>3 DEF Step
  <1>5. ASSUME NEW dir \in Dirs, DmenuUmount(dir)
        PROVE  OnlyUuidMissed'
    BY <1>2, <1>5 DEF DmenuUmount, MountsAt
  <1>6. CASE (\E d \in Devs : (\E m \in Media : Insert(d, m)) \/ Remove(d) \/ Restart(d))
             \/ DmenuRmdir \/ UNCHANGED vars
    BY <1>1, <1>6 DEF Insert, Remove, Restart, DmenuRmdir, vars
  <1> QED BY <1>4, <1>5, <1>6 DEF Next

-----------------------------------------------------------------------------
LEMMA InitInv == Init => IInv
  <1> SUFFICES ASSUME Init PROVE IInv
    OBVIOUS
  <1>1. TypeOK /\ EventsCounted
    BY TypeInit
  <1>2. Watched /\ FstabLookedAt /\ OnlyUuidMissed
    BY DEF Init, Watched, FstabLookedAt, OnlyUuidMissed
  <1> QED BY <1>1, <1>2 DEF IInv

LEMMA NextInv == IInv /\ [Next]_vars => IInv'
  BY TypeStep, WatchedStep, FstabLookedAtStep, FstabStep DEF IInv

\* The inductive invariant: every directory in /media has something mounted on
\* it or somebody on the way to it, and what a script is about to mount was not
\* in fstab when it looked.
THEOREM Invariant == Spec => []IInv
  BY InitInv, NextInv, PTL DEF Spec

\* The state of the scripts, of /media and of the mount table has its types,
\* however many media come and go.
THEOREM TypeCorrect == Spec => []TypeOK
  <1>1. IInv => TypeOK
    BY DEF IInv
  <1> QED BY Invariant, <1>1, PTL

\* media-automount and umount_dmenu leave no directory behind: when all is
\* quiet, something is mounted on each one in /media.
THEOREM MediaIsClean == Spec => []CleanMedia
  <1>1. IInv => CleanMedia
    <2> SUFFICES ASSUME IInv, Quiet, NEW dir \in dirs PROVE Mountpoint(dir)
      BY DEF CleanMedia
    <2>1. leaving # dir
      BY NamesAssumption DEF IInv, TypeOK, Quiet
    <2>2. \A d \in Devs : ~ CleanedBy(d, dir)
      BY DEF Quiet, CleanedBy
    <2> QED BY <2>1, <2>2 DEF IInv, Watched
  <1> QED BY Invariant, <1>1, PTL

\* Of all that fstab names by device, label or UUID the script mounts nothing but
\* labelled media of which fstab has the UUID only, whatever is plugged in when:
\* so far its list of && and || departs from what its comment says, no further.
THEOREM OnlyUuidsMissed == Spec => []OnlyUuidMissed
  <1>1. IInv => OnlyUuidMissed
    BY DEF IInv
  <1> QED BY Invariant, <1>1, PTL
=============================================================================
