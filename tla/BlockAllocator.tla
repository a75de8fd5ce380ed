--------------------------- MODULE BlockAllocator ---------------------------
(***************************************************************************)
(* What CMPage promises: a page of `all' blocks hands out blocks that      *)
(* nobody has, refuses only when every block is handed out, and takes back *)
(* what it handed out.  MPage.tla, the free list of the code, implements   *)
(* it.                                                                     *)
(***************************************************************************)
EXTENDS Naturals

CONSTANT MaxBlocks    \* the largest number of blocks of a page

VARIABLES
    all,              \* the number of blocks of the page
    live,             \* the blocks that are handed out
    ret               \* the last result of Allocate, 0 for none

avars == <<all, live, ret>>

AInit == all \in 1..MaxBlocks /\ live = {} /\ ret = 0

AAllocate ==
    /\ \/ \E b \in (1..all) \ live : live' = live \cup {b} /\ ret' = b
       \/ live = 1..all /\ ret' = 0 /\ UNCHANGED live
    /\ UNCHANGED all

AFree == \E b \in live : live' = live \ {b} /\ UNCHANGED <<all, ret>>

\* An unused page may be cut into blocks of another size.
AReset == live = {} /\ all' \in 1..MaxBlocks /\ UNCHANGED <<live, ret>>

\* All blocks are taken back at once, unless all of them are handed out.
AClear == live # 1..all /\ live' = {} /\ UNCHANGED <<all, ret>>

ANext == AAllocate \/ AFree \/ AReset \/ AClear

ASpec == AInit /\ [][ANext]_avars
=============================================================================
