-------------------------------- MODULE Heap --------------------------------
(***************************************************************************)
(* What CMPageMgr, CMPool and COPool promise their users: every block      *)
(* handed out is one that nobody has, and it stays the user's until that   *)
(* user frees it.  PageMgr.tla, the page lists of the code, implements it. *)
(***************************************************************************)
CONSTANTS
    Blocks,           \* all the blocks there can ever be
    None              \* no block

VARIABLES
    held,             \* the blocks users have
    ret               \* the last result of Allocate

hvars == <<held, ret>>

HInit == held = {} /\ ret = None

HAllocate == \E b \in Blocks \ held : held' = held \cup {b} /\ ret' = b

HFree == \E b \in held : held' = held \ {b} /\ UNCHANGED ret

HNext == HAllocate \/ HFree

HSpec == HInit /\ [][HNext]_hvars
=============================================================================
