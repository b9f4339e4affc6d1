------------------------------- MODULE Flasher -------------------------------
(***************************************************************************)
(* srg3352c_emmc_flasher.sh: a board started from an SD card puts the      *)
(* system of that card on its eMMC.  The script goes through the eMMC      *)
(* once, from erasing it to the boot script; in between, what it wrote is  *)
(* in the page cache, and flush_cache is what orders it.  Power may fail   *)
(* at any moment, commands may fail, somebody may then start the script    *)
(* again from another card, or take the card out and see what starts.      *)
(***************************************************************************)
CONSTANTS
  Builds,   \* systems an SD card may hold
  None,     \* erased: no file system, or no boot loader
  Empty,    \* a file system without the files
  Torn,     \* written in part
  Nameless  \* a boot script that names no kernel

ASSUME ContentsDiffer == /\ {None, Empty, Torn, Nameless} \cap Builds = {}
                         /\ None # Empty /\ None # Torn /\ Empty # Torn
                         /\ Nameless \notin {None, Empty, Torn}

VARIABLES
  disk,     \* what is on the eMMC
  cache,    \* what the running system sees of it, page cache included
  card,     \* the build on the SD card the board was started from
  pc        \* the script's last command, or "off", "shell" or "halted"

vars == <<disk, cache, card, pc>>

\* mmcblk1p1 (reserved), p2 (boot) and p3 (rootfs).
OnBoot == {"kernel", "boot.scr"}
OnRootfs == {"rootfs", "modules", "fstab"}
BootLoader == {"MLO", "u-boot.img"}
Items == BootLoader \cup {"table", "reserved"} \cup OnBoot \cup OnRootfs

Contents == Builds \cup {None, Empty, Torn, Nameless}

-----------------------------------------------------------------------------
(* The SD card's system and its end. *)

\* An eMMC is new or has a whole system.
Init == /\ \E c \in Builds \cup {None} : disk = [i \in Items |-> c]
        /\ cache = disk
        /\ card \in Builds
        /\ pc = "off"

\* Only a system that was started from the card goes on (lines 35-49).
PowerOn == /\ pc = "off"
           /\ pc' = "shell"
           /\ card' \in Builds
           /\ UNCHANGED <<disk, cache>>

Unflushed == {i \in Items : cache[i] # disk[i]}
Tearable == {i \in Unflushed : cache[i] # None}

\* Each write that is not flushed may be on the disk, be lost, or be there in
\* part; an erased file system can be mounted as before or not at all.
PowerCut == /\ pc # "off"
            /\ pc' = "off"
            /\ \E lost \in SUBSET Unflushed : \E torn \in SUBSET (Tearable \ lost) :
                 disk' = [i \in Items |->
                            IF i \in lost THEN disk[i]
                            ELSE IF i \in torn THEN Torn ELSE cache[i]]
            /\ cache' = disk'
            /\ UNCHANGED card

-----------------------------------------------------------------------------
(* The commands between two flushes. *)

Written(items, content) ==
  [i \in Items |-> IF i \in items THEN content ELSE cache[i]]

FlushCache == disk' = cache

\* A command fails and leaves its items in part: bash -e ends the script, or
\* write_failure does.
ByBash == "shell"
Caught == "write_failure"
Fail(items, ends) == cache' = Written(items, Torn) /\ pc' \in ends

Write(items, content, done, ends) ==
  \/ cache' = Written(items, content) /\ pc' = done
  \/ Fail(items, ends)

WriteFailure == /\ pc = "write_failure"
                /\ FlushCache
                /\ pc' = "shell"
                /\ UNCHANGED <<cache, card>>

\* What was mounted may be busy.  Of the five dd each may fail without notice;
\* what they erase of a partition is the superblock and the group descriptors,
\* and its first file stands for them here.
Erase ==
  /\ pc = "shell"
  /\ FlushCache
  /\ \/ Fail({}, {Caught})
     \/ \E erased \in SUBSET {BootLoader, {"reserved"}, {"boot.scr"}, {"rootfs"}} :
          cache' = Written(UNION erased, None) /\ pc' = "erased"
  /\ UNCHANGED card

\* sgdisk: no failure is looked at, neither of --zap-all nor of -n.
Partition ==
  /\ pc = "erased"
  /\ FlushCache
  /\ \E t \in {cache["table"], None, card} : cache' = Written({"table"}, t)
  /\ pc' = "partitioned"
  /\ UNCHANGED card

\* Mutant of Format: a failure of mkfs.ext4 is passed over as one of sgdisk is.
MutFormat(items, done) ==
  /\ FlushCache
  /\ \/ cache["table"] \in Builds /\ Write(items, Empty, done, {ByBash})
     \/ cache["table"] \notin Builds /\ cache' = cache /\ pc' = done
  /\ UNCHANGED card

\* mkfs.ext4 needs the device of the partition.  It writes its file system back
\* before it ends.
Format(items, done) ==
  /\ FlushCache
  /\ \/ cache["table"] \in Builds /\ Write(items, Empty, done, {ByBash})
     \/ cache["table"] \notin Builds /\ Fail({}, {ByBash})
  /\ UNCHANGED card

\* Mutant of FormatBoot: a second run trusts the boot partition to be empty.
MutFormatBoot ==
  pc = "p1" /\ FlushCache /\ pc' = "p2" /\ UNCHANGED <<cache, card>>

FormatReserved == pc = "partitioned" /\ Format({"reserved"}, "p1")
FormatBoot == pc = "p1" /\ Format(OnBoot, "p2")
FormatRootfs == pc = "p2" /\ Format(OnRootfs, "p3")

Copy(item, ends) == Write({item}, card, item, ends) /\ UNCHANGED card

\* copy_boot: dd conv=fsync.
CopyMLO == pc = "p3" /\ FlushCache /\ Copy("MLO", {Caught})
CopyUBoot == pc = "MLO" /\ FlushCache /\ Copy("u-boot.img", {Caught})

\* copy_rootfs: the mounts, rsync and what starts sshd-regen-keys.
CopyRootfs ==
  pc = "u-boot.img" /\ FlushCache /\ Copy("rootfs", {ByBash, Caught})
CopyModules == pc = "rootfs" /\ FlushCache /\ Copy("modules", {Caught})

\* Everything on the card's boot partition except boot.scr.
CopyKernel == pc = "modules" /\ FlushCache /\ Copy("kernel", {Caught})

\* Mutant of GenerationFstab: the kernel is not flushed.
MutGenerationFstab == pc = "kernel" /\ UNCHANGED disk /\ Copy("fstab", {ByBash})

GenerationFstab == pc = "kernel" /\ FlushCache /\ Copy("fstab", {ByBash})

\* Nothing is flushed between fstab, boot script and the reserved copy.  The
\* kernel's name comes out of a pipe, and bash -e looks at its last command
\* only: when linux-version fails or lists nothing, the script loads "/vmlinuz-".
UpdateBootScript ==
  /\ pc = "fstab"
  /\ UNCHANGED <<disk, card>>
  /\ \E script \in {card, Nameless} :
       Write({"boot.scr"}, script, "boot.scr", {ByBash})

\* The boot partition's files, whatever they are; its script stands for them.
CopyReserved ==
  /\ pc = "boot.scr"
  /\ UNCHANGED <<disk, card>>
  /\ Write({"reserved"}, cache["boot.scr"], "reserved", {Caught})

\* umount, srg52cfg, fw_setenv, sync, halt; each of the first three may fail.
Finish ==
  /\ pc = "reserved"
  /\ FlushCache
  /\ pc' \in {ByBash, Caught, "halted"}
  /\ UNCHANGED <<cache, card>>

CopyRest == CopyRootfs \/ CopyModules \/ CopyKernel \/ GenerationFstab
            \/ UpdateBootScript \/ CopyReserved \/ Finish

Next == \/ PowerOn \/ PowerCut
        \/ WriteFailure
        \/ Erase \/ Partition
        \/ FormatReserved \/ FormatBoot \/ FormatRootfs
        \/ CopyMLO \/ CopyUBoot
        \/ CopyRest

Spec == Init /\ [][Next]_vars

-----------------------------------------------------------------------------
(* Properties. *)

TypeOK == /\ disk \in [Items -> Contents]
          /\ cache \in [Items -> Contents]
          /\ card \in Builds
          /\ pc \in {"off", "shell", "halted", "write_failure", "erased",
                     "partitioned", "p1", "p2", "p3", "MLO", "u-boot.img",
                     "rootfs", "modules", "kernel", "fstab", "boot.scr",
                     "reserved"}

\* The ROM loads MLO, MLO loads U-Boot; distro_bootcmd runs the boot script,
\* which loads the kernel beside it and names the partition behind it as root.
Boots(d) == /\ \A i \in BootLoader \cup OnBoot : d[i] \in Builds
            /\ d["rootfs"] \notin {None, Empty}

SystemParts == BootLoader \cup OnBoot \cup {"rootfs", "modules"}

Whole(d) == Boots(d) => \E b \in Builds : \A i \in SystemParts : d[i] = b

\* After any history of power cuts, failed commands and repetitions, with
\* whatever cards, an eMMC that starts a system at all starts one that is
\* complete and of one build, from boot loader to kernel modules.
BootsWhole == Whole(disk)

\* A script that has halted the board has left the card's system on the eMMC,
\* flushed, and nothing of what was there: no failure of sgdisk or dd that it
\* passed over, and no earlier run that was interrupted, shows.  The boot script
\* is the exception: a kernel's name that could not be found (line 373) is not
\* noticed, and then the board is halted with an eMMC that starts nothing,
\* whatever README.rst promises in step 6.
HaltedMeansFlashed ==
  pc = "halted" =>
    /\ \A i \in Items \ {"table", "boot.scr", "reserved"} : disk[i] = card
    /\ disk["table"] \in Builds
    /\ disk["boot.scr"] \in {card, Nameless}
    /\ disk["reserved"] = disk["boot.scr"]

-----------------------------------------------------------------------------
(* The inductive invariant. *)

\* Until the boot partition is formatted, what is not on the disk yet can only
\* take something away from the system there, never mend it.
OnlyTaken ==
  /\ \A i \in BootLoader \cup OnBoot : cache[i] = disk[i] \/ cache[i] \notin Builds
  /\ cache["rootfs"] \in {disk["rootfs"], None}
  /\ cache["modules"] = disk["modules"]

\* From then on there is no boot script, or none that starts anything.
Unscripted == disk["boot.scr"] \notin Builds /\ cache["boot.scr"] \notin Builds

\* When there is one, all it leads to is on the disk.
Scripted ==
  \E b \in Builds :
    /\ \A i \in SystemParts \ {"boot.scr"} : disk[i] = b /\ cache[i] = b
    /\ cache["boot.scr"] = b
    /\ disk["boot.scr"] \in Builds => disk["boot.scr"] = b

CutIsHarmless == OnlyTaken \/ Unscripted \/ Scripted

Phases ==
  /\ pc = "off" => cache = disk
  /\ pc \in {"erased", "partitioned", "p1", "p2"} => OnlyTaken
  /\ pc = "p2" => cache["boot.scr"] \notin Builds
  /\ pc \in {"p3", "MLO", "u-boot.img", "rootfs", "modules", "kernel", "fstab"}
       => Unscripted
  /\ pc \in {"boot.scr", "reserved", "halted"} => Scripted \/ Unscripted

\* What each command leaves to the ones behind it.
FromReserved == {"reserved", "halted"}
FromScript == {"boot.scr"} \cup FromReserved
FromFstab == {"fstab"} \cup FromScript
FromKernel == {"kernel"} \cup FromFstab
FromModules == {"modules"} \cup FromKernel
FromRootfs == {"rootfs"} \cup FromModules
FromUBoot == {"u-boot.img"} \cup FromRootfs
FromMLO == {"MLO"} \cup FromUBoot
FromFormat == {"p1", "p2", "p3"} \cup FromMLO

Copied ==
  /\ pc \in FromFormat => cache["table"] \in Builds
  /\ pc \in FromMLO => cache["MLO"] = card
  /\ pc \in FromUBoot => cache["u-boot.img"] = card
  /\ pc \in FromRootfs => cache["rootfs"] = card
  /\ pc \in FromModules => cache["modules"] = card
  /\ pc \in FromKernel => cache["kernel"] = card
  /\ pc \in FromFstab => /\ cache["fstab"] = card
                         /\ \A i \in SystemParts \ {"boot.scr"} : disk[i] = card
  /\ pc \in FromScript => cache["boot.scr"] \in {card, Nameless}
  /\ pc \in FromReserved => cache["reserved"] = cache["boot.scr"]
  /\ pc = "halted" => disk = cache

\* BootsWhole and what it rests on, at every command of the script.
IInv == TypeOK /\ BootsWhole /\ CutIsHarmless /\ Phases /\ Copied
=============================================================================
