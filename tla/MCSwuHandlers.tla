---------------------------- MODULE MCSwuHandlers ----------------------------
(***************************************************************************)
(* Instances of SwuHandlers for TLC: two slots as in both sw-description   *)
(* files, three builds, and bundles that meet every branch of the handlers.*)
(***************************************************************************)
EXTENDS SwuHandlers

CONSTANTS b0, b1, b2

MCBuilds == {b0, b1, b2}

Good(b) == [build |-> b, images |-> TRUE, chain |-> "raw",
            nroot |-> N, nkern |-> N, nbase |-> 0]

\* Complete bundles, for all the slots or for the first two of them.
GoodBundles == {[Good(b) EXCEPT !.nroot = n] : b \in MCBuilds, n \in 2 .. N}

\* Bundles whose sw-description the handlers refuse somewhere, and one that
\* only brings kernel files.
FaultyBundles ==
  {[Good(b1) EXCEPT !.chain = "unknown"],
   [Good(b1) EXCEPT !.nroot = 1],
   [Good(b1) EXCEPT !.nkern = 1],
   [Good(b1) EXCEPT !.chain = "rdiff_image", !.nbase = N]}

KernelOnly == {[Good(b2) EXCEPT !.images = FALSE, !.nroot = 0]}

AllBundles == GoodBundles \cup FaultyBundles \cup KernelOnly

\* The device names of the handlers' own example, and two PARTUUIDs of which
\* the second one begins with a character of "/dev/".
DiskNames == <<<<"s", "4">>, <<"s", "5">>>>

PartUuids == <<<<"f", "2">>, <<"d", "2">>>>

AllRules == {"fullBundles", "rebootFirst", "freshBuilds"}
=============================================================================
