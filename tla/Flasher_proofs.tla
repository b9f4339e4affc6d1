---------------------------- MODULE Flasher_proofs ----------------------------
(* BootsWhole and HaltedMeansFlashed for any builds.                           *)
EXTENDS Flasher, TLAPS

USE DEF Items, BootLoader, OnBoot, OnRootfs, SystemParts

\* What may be on the eMMC when it is on: what was there, what was written
\* since, or a part of that.
AfterCut(d) == \A i \in Items : \/ d[i] = disk[i] \/ d[i] = cache[i]
                                \/ d[i] = Torn /\ cache[i] # None /\ cache[i] # disk[i]

\* The invariant lets power fail, and the cache be flushed.
LEMMA CutLeavesWhole ==
  ASSUME BootsWhole, CutIsHarmless, NEW d, AfterCut(d)
  PROVE  Whole(d)
  <1>0. SUFFICES ASSUME Boots(d)
                 PROVE  \E b \in Builds : \A i \in SystemParts : d[i] = b
    BY DEF Whole
  <1>1. CASE OnlyTaken
    <2>1. \A i \in BootLoader \cup OnBoot : d[i] = disk[i]
      BY <1>0, <1>1, ContentsDiffer DEF Boots, OnlyTaken, AfterCut
    <2>2. d["rootfs"] = disk["rootfs"]
      BY <1>0, <1>1 DEF Boots, OnlyTaken, AfterCut
    <2>3. d["modules"] = disk["modules"]
      BY <1>1 DEF OnlyTaken, AfterCut
    <2>4. Boots(disk)
      BY <1>0, <2>1, <2>2 DEF Boots
    <2> QED BY <2>1, <2>2, <2>3, <2>4 DEF BootsWhole, Whole
  <1>2. CASE Unscripted
    <2>1. d["boot.scr"] \in Builds
      BY <1>0 DEF Boots
    <2> QED BY <1>2, <2>1, ContentsDiffer DEF Unscripted, AfterCut
  <1>3. CASE Scripted
    <2>1. PICK b \in Builds :
            /\ \A i \in SystemParts \ {"boot.scr"} : disk[i] = b /\ cache[i] = b
            /\ cache["boot.scr"] = b
            /\ disk["boot.scr"] \in Builds => disk["boot.scr"] = b
      BY <1>3 DEF Scripted
    <2>2. d["boot.scr"] \in Builds
      BY <1>0 DEF Boots
    <2>3. d["boot.scr"] = b
      BY <2>1, <2>2, ContentsDiffer DEF AfterCut
    <2>4. \A i \in SystemParts \ {"boot.scr"} : d[i] = b
      BY <2>1 DEF AfterCut
    <2> QED BY <2>3, <2>4
  <1> QED BY <1>1, <1>2, <1>3 DEF CutIsHarmless

LEMMA FlushLeavesWhole ==
  ASSUME BootsWhole, CutIsHarmless
  PROVE  Whole(cache)
  BY CutLeavesWhole DEF AfterCut

-----------------------------------------------------------------------------
(* What the commands do to each item.                                          *)

LEMMA WrittenItems ==
  ASSUME TypeOK, NEW items \in SUBSET Items, NEW content \in Contents
  PROVE  /\ Written(items, content) \in [Items -> Contents]
         /\ \A i \in items : Written(items, content)[i] = content
         /\ \A i \in Items \ items : Written(items, content)[i] = cache[i]
  BY DEF Written, TypeOK

LEMMA TypePreserved == TypeOK /\ [Next]_vars => TypeOK'
  <1>0. SUFFICES ASSUME TypeOK, [Next]_vars
                 PROVE  TypeOK'
    OBVIOUS
  <1>1. card \in Contents /\ {None, Empty, Torn, Nameless} \subseteq Contents
    BY <1>0 DEF TypeOK, Contents
  <1>2. ASSUME NEW items \in SUBSET Items, NEW ends \in SUBSET {"shell", "write_failure"},
               Fail(items, ends)
        PROVE  /\ cache' \in [Items -> Contents]
               /\ pc' \in {"shell", "write_failure"}
    BY <1>0, <1>1, <1>2, WrittenItems DEF Fail
  <1>3. ASSUME NEW items \in SUBSET Items, NEW ends \in SUBSET {"shell", "write_failure"},
               NEW content \in Contents, NEW done,
               Write(items, content, done, ends)
        PROVE  /\ cache' \in [Items -> Contents]
               /\ pc' \in {"shell", "write_failure", done}
    BY <1>0, <1>1, <1>2, <1>3, WrittenItems DEF Write
  <1>4. ASSUME FlushCache
        PROVE  disk' \in [Items -> Contents]
    BY <1>0, <1>4 DEF FlushCache, TypeOK
  <1>5. ASSUME NEW item \in Items, NEW ends \in SUBSET {"shell", "write_failure"},
               Copy(item, ends)
        PROVE  /\ cache' \in [Items -> Contents]
               /\ pc' \in {"shell", "write_failure", item}
               /\ card' \in Builds
    BY <1>0, <1>1, <1>3, <1>5 DEF Copy, TypeOK
  <1>6. ASSUME NEW items \in SUBSET Items, NEW done, Format(items, done)
        PROVE  /\ disk' \in [Items -> Contents]
               /\ cache' \in [Items -> Contents]
               /\ pc' \in {"shell", "write_failure", done}
               /\ card' \in Builds
    <2>1. {ByBash} \in SUBSET {"shell", "write_failure"} /\ {} \in SUBSET Items
      BY DEF ByBash
    <2> QED BY <1>0, <1>1, <1>2, <1>3, <1>4, <1>6, <2>1 DEF Format, TypeOK
  <1>7. {ByBash, Caught} \in SUBSET {"shell", "write_failure"}
    BY DEF ByBash, Caught
  <1>8. CASE PowerOn
    BY <1>0, <1>8 DEF PowerOn, TypeOK
  <1>9. CASE PowerCut
    BY <1>0, <1>1, <1>9 DEF PowerCut, TypeOK
  <1>10. CASE WriteFailure
    BY <1>0, <1>4, <1>10 DEF WriteFailure, TypeOK
  <1>11. CASE Erase
    <2>1. ASSUME NEW erased \in SUBSET {BootLoader, {"reserved"}, {"boot.scr"}, {"rootfs"}}
          PROVE  UNION erased \in SUBSET Items
      OBVIOUS
    <2>2. cache' \in [Items -> Contents] /\ pc' \in {"shell", "write_failure", "erased"}
      <3>1. CASE Fail({}, {Caught})
        BY <1>2, <1>7, <3>1
      <3>2. CASE \E erased \in SUBSET {BootLoader, {"reserved"}, {"boot.scr"}, {"rootfs"}} :
                   cache' = Written(UNION erased, None) /\ pc' = "erased"
        BY <1>0, <1>1, <2>1, <3>2, WrittenItems
      <3> QED BY <1>11, <3>1, <3>2 DEF Erase
    <2> QED BY <1>0, <1>4, <1>11, <2>2 DEF Erase, TypeOK
  <1>12. CASE Partition
    <2>1. PICK t \in {cache["table"], None, card} : cache' = Written({"table"}, t)
      BY <1>12 DEF Partition
    <2>2. t \in Contents
      BY <1>0, <1>1, <2>1 DEF TypeOK
    <2>3. cache' \in [Items -> Contents]
      BY <1>0, <2>1, <2>2, WrittenItems
    <2> QED BY <1>0, <1>4, <1>12, <2>3 DEF Partition, TypeOK
  <1>13. CASE FormatReserved \/ FormatBoot \/ FormatRootfs
    BY <1>6, <1>13 DEF FormatReserved, FormatBoot, FormatRootfs, TypeOK
  <1>14. CASE CopyMLO \/ CopyUBoot
    BY <1>4, <1>5, <1>7, <1>14 DEF CopyMLO, CopyUBoot, TypeOK
  <1>15. CASE CopyRootfs \/ CopyModules \/ CopyKernel
    BY <1>4, <1>5, <1>7, <1>15 DEF CopyRootfs, CopyModules, CopyKernel, TypeOK
  <1>16. CASE GenerationFstab
    BY <1>4, <1>5, <1>7, <1>16 DEF GenerationFstab, TypeOK
  <1>17. CASE UpdateBootScript \/ CopyReserved
    <2>1. cache["boot.scr"] \in Contents
      BY <1>0 DEF TypeOK
    <2>2. {ByBash} \in SUBSET {"shell", "write_failure"}
          /\ {Caught} \in SUBSET {"shell", "write_failure"}
      BY DEF ByBash, Caught
    <2> QED BY <1>0, <1>1, <1>3, <1>17, <2>1, <2>2
            DEF UpdateBootScript, CopyReserved, TypeOK
  <1>18. CASE Finish
    BY <1>0, <1>4, <1>7, <1>18 DEF Finish, TypeOK
  <1>19. CASE UNCHANGED vars
    BY <1>0, <1>19 DEF vars, TypeOK
  <1> QED BY <1>0, <1>8, <1>9, <1>10, <1>11, <1>12, <1>13, <1>14, <1>15, <1>16,
             <1>17, <1>18, <1>19 DEF Next, CopyRest

-----------------------------------------------------------------------------
(* The invariant.                                                              *)

Ends == {"shell", "write_failure"}

\* Where the script has not come to, Phases and Copied say nothing.
LEMMA Ended ==
  ASSUME pc' \in Ends, CutIsHarmless'
  PROVE  Phases' /\ Copied'
  BY DEF Ends, Phases, Copied, FromFormat, FromMLO, FromUBoot, FromRootfs,
         FromModules, FromKernel, FromFstab, FromScript, FromReserved

\* Every command but two begins with what was written so far on the disk.
LEMMA Flushed ==
  ASSUME BootsWhole, CutIsHarmless, FlushCache
  PROVE  BootsWhole'
  <1>1. Whole(cache)
    BY FlushLeavesWhole
  <1> QED BY <1>1 DEF FlushCache, BootsWhole, Whole, Boots

\* Before a partition table is there.
LEMMA EraseKeeps ==
  ASSUME IInv, TypeOK', Erase
  PROVE  (BootsWhole /\ CutIsHarmless /\ Phases /\ Copied)'
  <1>1. BootsWhole'
    BY Flushed DEF IInv, Erase
  <1>2. \/ pc' \in Ends /\ \A i \in Items : cache'[i] = cache[i]
        \/ /\ pc' = "erased"
           /\ \A i \in Items : cache'[i] = cache[i] \/ cache'[i] = None
           /\ cache'["modules"] = cache["modules"]
    <2>1. CASE Fail({}, {Caught})
      BY <2>1, WrittenItems DEF IInv, Fail, Caught, Ends, Contents
    <2>2. CASE \E erased \in SUBSET {BootLoader, {"reserved"}, {"boot.scr"}, {"rootfs"}} :
                 cache' = Written(UNION erased, None) /\ pc' = "erased"
      <3>1. PICK erased \in SUBSET {BootLoader, {"reserved"}, {"boot.scr"}, {"rootfs"}} :
              cache' = Written(UNION erased, None)
        BY <2>2
      <3>2. UNION erased \in SUBSET Items /\ "modules" \notin UNION erased
        OBVIOUS
      <3> DEFINE items == UNION erased
      <3>3. cache' = Written(items, None) /\ items \in SUBSET Items /\ None \in Contents
        BY <3>1, <3>2 DEF Contents
      <3> HIDE DEF items
      <3>4. \A i \in Items : cache'[i] = IF i \in items THEN None ELSE cache[i]
        BY <3>3, WrittenItems DEF IInv
      <3> QED BY <2>2, <3>2, <3>4 DEF items
    <2> QED BY <2>1, <2>2 DEF Erase
  <1>3. OnlyTaken'
    BY <1>2, ContentsDiffer DEF OnlyTaken, Erase, FlushCache
  <1>4. CutIsHarmless'
    BY <1>3 DEF CutIsHarmless
  <1>5. CASE pc' \in Ends
    BY <1>1, <1>4, <1>5, Ended
  <1>6. CASE pc' = "erased"
    BY <1>1, <1>3, <1>4, <1>6
    DEF Phases, Copied, FromFormat, FromMLO, FromUBoot, FromRootfs,
        FromModules, FromKernel, FromFstab, FromScript, FromReserved
  <1> QED BY <1>2, <1>5, <1>6

LEMMA PartitionKeeps ==
  ASSUME IInv, TypeOK', Partition
  PROVE  (BootsWhole /\ CutIsHarmless /\ Phases /\ Copied)'
  <1>1. BootsWhole'
    BY Flushed DEF IInv, Partition
  <1>2. \A i \in Items \ {"table"} : cache'[i] = cache[i]
    <2>1. PICK t \in {cache["table"], None, card} : cache' = Written({"table"}, t)
      BY DEF Partition
    <2>2. t \in Contents
      BY <2>1 DEF IInv, TypeOK, Contents
    <2> QED BY <2>1, <2>2, WrittenItems DEF IInv
  <1>3. OnlyTaken'
    BY <1>2 DEF OnlyTaken, Partition, FlushCache
  <1> QED BY <1>1, <1>3
          DEF Partition, CutIsHarmless, Phases, Copied, FromFormat, FromMLO,
              FromUBoot, FromRootfs, FromModules, FromKernel, FromFstab,
              FromScript, FromReserved

\* What mkfs leaves of the items, and of the others.
LEMMA Formatted ==
  ASSUME IInv, NEW items \in SUBSET Items, NEW done, Format(items, done)
  PROVE  /\ FlushCache
         /\ \A i \in Items : \/ cache'[i] = cache[i]
                             \/ i \in items /\ cache'[i] \in {Empty, Torn}
         /\ \/ pc' = "shell"
            \/ /\ pc' = done
               /\ cache["table"] \in Builds
               /\ \A i \in items : cache'[i] = Empty
  <1>1. {Empty, Torn} \subseteq Contents
    BY DEF Contents
  <1>2. CASE cache["table"] \in Builds /\ Write(items, Empty, done, {ByBash})
    BY <1>1, <1>2, WrittenItems DEF IInv, Format, Write, Fail, ByBash
  <1>3. CASE Fail({}, {ByBash})
    BY <1>1, <1>3, WrittenItems DEF IInv, Format, Fail, ByBash
  <1> QED BY <1>2, <1>3 DEF Format

LEMMA FormatKeeps ==
  ASSUME IInv, TypeOK', FormatReserved \/ FormatBoot \/ FormatRootfs
  PROVE  (BootsWhole /\ CutIsHarmless /\ Phases /\ Copied)'
  <1>1. BootsWhole'
    BY Flushed DEF IInv, FormatReserved, FormatBoot, FormatRootfs, Format
  <1>2. ASSUME FormatReserved
        PROVE  OnlyTaken' /\ (pc' = "p1" => cache'["table"] \in Builds)
               /\ pc' \in {"shell", "p1"}
    BY <1>2, Formatted DEF FormatReserved, FlushCache, OnlyTaken
  <1>3. ASSUME FormatBoot
        PROVE  /\ OnlyTaken' /\ pc' \in {"shell", "p2"}
               /\ pc' = "p2" => /\ cache'["table"] \in Builds
                                /\ cache'["boot.scr"] \notin Builds
    BY <1>3, Formatted, ContentsDiffer DEF FormatBoot, FlushCache, OnlyTaken
  <1>4. ASSUME FormatRootfs
        PROVE  /\ Unscripted' /\ pc' \in {"shell", "p3"}
               /\ pc' = "p3" => cache'["table"] \in Builds
    BY <1>4, Formatted DEF FormatRootfs, FlushCache, Unscripted, IInv, Phases
  <1> QED BY <1>1, <1>2, <1>3, <1>4
          DEF CutIsHarmless, Phases, Copied, FromFormat, FromMLO, FromUBoot,
              FromRootfs, FromModules, FromKernel, FromFstab, FromScript,
              FromReserved

\* What a copy leaves.
LEMMA ItemWritten ==
  ASSUME IInv, NEW item \in Items, NEW ends \in SUBSET Ends, NEW content \in Contents,
         Write({item}, content, item, ends)
  PROVE  /\ \A i \in Items \ {item} : cache'[i] = cache[i]
         /\ \/ pc' = item /\ cache'[item] = content
            \/ pc' \in Ends /\ cache'[item] = Torn
  <1>1. {content, Torn} \subseteq Contents
    BY DEF Contents
  <1> HIDE DEF Items
  <1>2. ASSUME NEW c \in {content, Torn}, cache' = Written({item}, c)
        PROVE  cache'[item] = c /\ \A i \in Items \ {item} : cache'[i] = cache[i]
    BY <1>1, <1>2, WrittenItems DEF IInv
  <1> QED BY <1>2 DEF Write, Fail

LEMMA ItemCopied ==
  ASSUME IInv, NEW item \in Items, NEW ends \in SUBSET Ends, Copy(item, ends)
  PROVE  /\ \A i \in Items \ {item} : cache'[i] = cache[i]
         /\ card' = card
         /\ \/ pc' = item /\ cache'[item] = card
            \/ pc' \in Ends /\ cache'[item] = Torn
  BY ItemWritten DEF Copy, IInv, TypeOK, Contents

\* The copies that leave the boot script alone: none of them can make the eMMC
\* start, and the item is there for those behind.
LEMMA CopyKeeps ==
  ASSUME IInv, TypeOK',
         CopyMLO \/ CopyUBoot \/ CopyRootfs \/ CopyModules \/ CopyKernel
           \/ GenerationFstab
  PROVE  (BootsWhole /\ CutIsHarmless /\ Phases /\ Copied)'
  <1>1. FlushCache
    BY DEF CopyMLO, CopyUBoot, CopyRootfs, CopyModules, CopyKernel, GenerationFstab
  <1>2. BootsWhole'
    BY <1>1, Flushed DEF IInv
  <1>3. {Caught} \in SUBSET Ends /\ {ByBash} \in SUBSET Ends
        /\ {ByBash, Caught} \in SUBSET Ends
    BY DEF Caught, ByBash, Ends
  <1>4. PICK item \in Items \ {"table", "boot.scr", "reserved"} :
          /\ \A i \in Items \ {item} : cache'[i] = cache[i]
          /\ card' = card
          /\ \/ pc' = item /\ cache'[item] = card
             \/ pc' \in Ends /\ cache'[item] = Torn
          /\ <<pc, item>> \in {<<"p3", "MLO">>, <<"MLO", "u-boot.img">>,
                               <<"u-boot.img", "rootfs">>, <<"rootfs", "modules">>,
                               <<"modules", "kernel">>, <<"kernel", "fstab">>}
    BY <1>3, ItemCopied
    DEF CopyMLO, CopyUBoot, CopyRootfs, CopyModules, CopyKernel, GenerationFstab
  <1>5. Unscripted'
    BY <1>1, <1>4 DEF IInv, Phases, Unscripted, FlushCache
  <1>6. CASE pc' \in Ends
    BY <1>2, <1>5, <1>6, Ended DEF CutIsHarmless
  <1>7. CASE pc' = item /\ cache'[item] = card
    <2>1. Copied'
      <3>1. cache'["table"] \in Builds
        BY <1>4 DEF IInv, Copied, FromFormat, FromMLO, FromUBoot, FromRootfs,
               FromModules, FromKernel
      <3>2. /\ pc' \in FromMLO => cache'["MLO"] = card'
            /\ pc' \in FromUBoot => cache'["u-boot.img"] = card'
            /\ pc' \in FromRootfs => cache'["rootfs"] = card'
            /\ pc' \in FromModules => cache'["modules"] = card'
            /\ pc' \in FromKernel => cache'["kernel"] = card'
            /\ pc' \in FromFstab => cache'["fstab"] = card'
        BY <1>4, <1>7
        DEF IInv, Copied, FromMLO, FromUBoot, FromRootfs, FromModules,
            FromKernel, FromFstab, FromScript, FromReserved
      <3>3. pc' \in FromFstab => \A i \in SystemParts \ {"boot.scr"} : disk'[i] = card'
        BY <1>1, <1>4, <1>7
        DEF IInv, Copied, FlushCache, FromMLO, FromUBoot, FromRootfs, FromModules,
            FromKernel, FromFstab, FromScript, FromReserved
      <3> QED BY <1>4, <1>7, <3>1, <3>2, <3>3 DEF Copied, FromScript, FromReserved
    <2> QED BY <1>2, <1>4, <1>5, <1>7, <2>1 DEF Phases, CutIsHarmless
  <1> QED BY <1>4, <1>6, <1>7

\* The boot script comes when all it leads to is on the disk, or starts nothing.
LEMMA ScriptKeeps ==
  ASSUME IInv, TypeOK', UpdateBootScript \/ CopyReserved
  PROVE  (BootsWhole /\ CutIsHarmless /\ Phases /\ Copied)'
  <1>1. BootsWhole'
    BY DEF IInv, BootsWhole, Whole, Boots, UpdateBootScript, CopyReserved
  <1>2. {Caught} \in SUBSET Ends /\ {ByBash} \in SUBSET Ends
    BY DEF Caught, ByBash, Ends
  <1>3. pc \in FromFstab /\ pc \in FromFormat /\ disk' = disk /\ pc # "halted"
    BY DEF UpdateBootScript, CopyReserved, FromFormat, FromMLO, FromUBoot,
           FromRootfs, FromModules, FromKernel, FromFstab, FromScript
  <1>4. \A i \in SystemParts \ {"boot.scr"} : disk[i] = card /\ cache[i] = card
    BY <1>3 DEF IInv, Copied, FromFormat, FromMLO, FromUBoot, FromRootfs,
           FromModules, FromKernel, FromFstab, FromScript, FromReserved
  <1>5. card \in Builds
    BY DEF IInv, TypeOK
  <1>6. CASE UpdateBootScript
    <2>0. PICK script \in {card, Nameless} :
            Write({"boot.scr"}, script, "boot.scr", {ByBash})
      BY <1>6 DEF UpdateBootScript
    <2>1. /\ \A i \in Items \ {"boot.scr"} : cache'[i] = cache[i]
          /\ card' = card
          /\ \/ pc' = "boot.scr" /\ cache'["boot.scr"] = script
             \/ pc' \in Ends /\ cache'["boot.scr"] = Torn
      BY <1>2, <1>5, <1>6, <2>0, ItemWritten DEF UpdateBootScript, Contents
    <2>2. disk["boot.scr"] \notin Builds
      BY <1>6 DEF IInv, Phases, Unscripted, UpdateBootScript
    <2>3. CASE pc' \in Ends
      <3>1. Unscripted'
        BY <1>3, <2>1, <2>2, <2>3, ContentsDiffer DEF Unscripted, Ends
      <3> QED BY <1>1, <2>3, <3>1, Ended DEF CutIsHarmless
    <2>4. CASE pc' = "boot.scr" /\ cache'["boot.scr"] = script
      <3>1. Scripted' \/ Unscripted'
        <4>1. CASE script = card
          BY <1>3, <1>4, <1>5, <2>1, <2>2, <2>4, <4>1 DEF Scripted
        <4>2. CASE script = Nameless
          BY <1>3, <2>2, <2>4, <4>2, ContentsDiffer DEF Unscripted
        <4> QED BY <4>1, <4>2
      <3>2. Copied'
        BY <1>3, <1>4, <2>1, <2>4
        DEF IInv, Copied, FromFormat, FromMLO, FromUBoot, FromRootfs,
            FromModules, FromKernel, FromFstab, FromScript, FromReserved
      <3> QED BY <1>1, <2>4, <3>1, <3>2 DEF Phases, CutIsHarmless
    <2> QED BY <2>1, <2>3, <2>4
  <1>7. CASE CopyReserved
    <2>1. /\ \A i \in Items \ {"reserved"} : cache'[i] = cache[i]
          /\ card' = card
          /\ \/ pc' = "reserved" /\ cache'["reserved"] = cache["boot.scr"]
             \/ pc' \in Ends /\ cache'["reserved"] = Torn
      BY <1>2, <1>7, ItemWritten DEF CopyReserved, IInv, TypeOK
    <2>2. Scripted \/ Unscripted
      BY <1>7 DEF IInv, Phases, CopyReserved
    <2>3. Scripted' \/ Unscripted'
      BY <1>3, <2>1, <2>2 DEF Scripted, Unscripted
    <2>4. CASE pc' \in Ends
      BY <1>1, <2>3, <2>4, Ended DEF CutIsHarmless
    <2>5. CASE pc' = "reserved" /\ cache'["reserved"] = cache["boot.scr"]
      <3>1. Copied'
        BY <1>3, <1>4, <1>7, <2>1, <2>5
        DEF IInv, Copied, CopyReserved, FromFormat, FromMLO, FromUBoot, FromRootfs,
            FromModules, FromKernel, FromFstab, FromScript, FromReserved
      <3> QED BY <1>1, <2>3, <2>5, <3>1 DEF Phases, CutIsHarmless
    <2> QED BY <2>1, <2>4, <2>5
  <1> QED BY <1>6, <1>7

LEMMA FinishKeeps ==
  ASSUME IInv, TypeOK', Finish
  PROVE  (BootsWhole /\ CutIsHarmless /\ Phases /\ Copied)'
  <1>1. BootsWhole'
    BY Flushed DEF IInv, Finish
  <1>2. Scripted' \/ Unscripted'
    BY DEF IInv, Phases, Finish, FlushCache, Scripted, Unscripted
  <1>3. Copied'
    BY DEF IInv, Copied, Finish, FlushCache, ByBash, Caught, FromFormat, FromMLO,
           FromUBoot, FromRootfs, FromModules, FromKernel, FromFstab, FromScript,
           FromReserved
  <1> QED BY <1>1, <1>2, <1>3 DEF Finish, ByBash, Caught, Phases, CutIsHarmless

LEMMA PowerKeeps ==
  ASSUME IInv, TypeOK', PowerOn \/ PowerCut \/ WriteFailure
  PROVE  (BootsWhole /\ CutIsHarmless /\ Phases /\ Copied)'
  <1>1. CASE PowerOn
    <2>1. OnlyTaken'
      BY <1>1 DEF IInv, Phases, PowerOn, OnlyTaken
    <2> QED BY <1>1, <2>1, Ended
            DEF IInv, PowerOn, Ends, BootsWhole, Whole, Boots, CutIsHarmless
  <1>2. CASE PowerCut
    <2>1. AfterCut(disk')
      BY <1>2 DEF PowerCut, Unflushed, Tearable, AfterCut
    <2>2. Whole(disk')
      BY <2>1, CutLeavesWhole DEF IInv
    <2>3. OnlyTaken' /\ pc' = "off" /\ cache' = disk'
      BY <1>2 DEF PowerCut, OnlyTaken
    <2> QED BY <2>2, <2>3
            DEF BootsWhole, Whole, Boots, CutIsHarmless, Phases, Copied, FromFormat,
                FromMLO, FromUBoot, FromRootfs, FromModules, FromKernel,
                FromFstab, FromScript, FromReserved
  <1>3. CASE WriteFailure
    <2>1. BootsWhole'
      BY <1>3, Flushed DEF IInv, WriteFailure
    <2>2. OnlyTaken'
      BY <1>3 DEF WriteFailure, FlushCache, OnlyTaken
    <2> QED BY <1>3, <2>1, <2>2, Ended DEF WriteFailure, Ends, CutIsHarmless
  <1> QED BY <1>1, <1>2, <1>3

LEMMA InvariantStep == IInv /\ [Next]_vars => IInv'
  <1>0. SUFFICES ASSUME IInv, [Next]_vars
                 PROVE  IInv'
    OBVIOUS
  <1>1. TypeOK'
    BY <1>0, TypePreserved DEF IInv
  <1>2. CASE UNCHANGED vars
    BY <1>0, <1>2
    DEF vars, IInv, TypeOK, BootsWhole, Whole, Boots, CutIsHarmless, OnlyTaken,
        Unscripted, Scripted, Phases, Copied
  <1> QED BY <1>0, <1>1, <1>2, PowerKeeps, EraseKeeps, PartitionKeeps, FormatKeeps,
             CopyKeeps, ScriptKeeps, FinishKeeps
          DEF Next, CopyRest, IInv

LEMMA InvariantInit == Init => IInv
  <1>0. SUFFICES ASSUME Init
                 PROVE  IInv
    OBVIOUS
  <1>1. PICK c \in Builds \cup {None} : disk = [i \in Items |-> c]
    BY <1>0 DEF Init
  <1>2. TypeOK
    BY <1>0, <1>1 DEF Init, TypeOK, Contents
  <1>3. BootsWhole
    BY <1>1, ContentsDiffer DEF BootsWhole, Whole, Boots
  <1>4. OnlyTaken
    BY <1>0 DEF Init, OnlyTaken
  <1> QED BY <1>0, <1>2, <1>3, <1>4
          DEF Init, IInv, CutIsHarmless, Phases, Copied, FromFormat, FromMLO,
              FromUBoot, FromRootfs, FromModules, FromKernel, FromFstab,
              FromScript, FromReserved

-----------------------------------------------------------------------------
\* At every command, with whatever is still in the page cache, a power cut
\* leaves nothing that starts half a system.
THEOREM Invariant == Spec => []IInv
  BY InvariantInit, InvariantStep, PTL DEF Spec

\* What starts from the eMMC is complete and of one build, for any number of
\* builds, power cuts, failed commands and repetitions.
THEOREM NoHalfSystem == Spec => []BootsWhole
  <1>1. IInv => BootsWhole
    BY DEF IInv
  <1> QED BY <1>1, Invariant, PTL

\* On a board that the script has halted everything of the eMMC but the boot
\* script, and the copy of it, is the card's, for any number of earlier runs that
\* were cut short; the script is the card's or names no kernel.
THEOREM Flashed == Spec => []HaltedMeansFlashed
  <1>1. IInv => HaltedMeansFlashed
    BY DEF IInv, Copied, HaltedMeansFlashed, FromFormat, FromMLO, FromUBoot,
           FromRootfs, FromModules, FromKernel, FromFstab, FromScript, FromReserved
  <1> QED BY <1>1, Invariant, PTL
=============================================================================
