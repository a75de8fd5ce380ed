------------------------------ MODULE PageMgr ------------------------------
(***************************************************************************)
(* CMPageMgr and the CSameSizeMPageMgr it keeps for every aligned block    *)
(* size (source/memory/mpagemgr.cpp).  CMPool is a CMPageMgr behind a      *)
(* mutex; COPool is one CSameSizeMPageMgr, that is the instance with one   *)
(* request, behind a mutex.                                                *)
(*                                                                         *)
(* A page is what BlockAllocator.tla promises of CMPage: it hands out any  *)
(* block of its own that nobody has.  A page is named by its memory; the   *)
(* memory of a deleted page may come back from malloc.  A block is a page  *)
(* and a number.  Addresses count from a multiple of every alignment.      *)
(*                                                                         *)
(* Bounds: at most |Pages| pages at a time, whose memory starts at one of  *)
(* Starts; PageBytes and PointerBytes are DEFAULT_PAGESIZE and the size of *)
(* a pointer.                                                              *)
(***************************************************************************)
EXTENDS Naturals, Sequences, FiniteSets, Functions

CONSTANTS
    Pages,            \* the memory malloc can return
    Requests,         \* the (block_size, align_size) users ask for
    RecycleSize,      \* m_recycle_size
    PageBytes,        \* DEFAULT_PAGESIZE
    PointerBytes,     \* sizeof(FreeBlock*)
    Starts,           \* where the memory of a page starts, as malloc aligns it
    None              \* the null page

ASSUME NoneAssumption == None \notin Pages
ASSUME RecycleAssumption == RecycleSize \in Nat \ {0}
ASSUME BytesAssumption == PageBytes \in Nat \ {0} /\ PointerBytes \in Nat \ {0}
ASSUME StartsAssumption == Starts \subseteq Nat
ASSUME RequestsAssumption == Requests \subseteq [size: Nat \ {0}, align: Nat \ {0}]
\* The alignments and the size of a pointer are powers of two, the smaller of
\* which divides the larger.
ASSUME AlignAssumption ==
    \A r \in Requests : r.align < PointerBytes => PointerBytes % r.align = 0

-----------------------------------------------------------------------------
(* The arithmetic of a page *)

RoundUp(n, a) == IF n % a = 0 THEN n ELSE n + a - (n % a)

AlignedSize(r) ==
    LET n == RoundUp(r.size, r.align)
    IN  IF n < PointerBytes THEN PointerBytes ELSE n

Sizes == {AlignedSize(r) : r \in Requests}

TooBig(size, al) == size + al - 1 > PageBytes

MemoryBytes(size, al) == IF TooBig(size, al) THEN size + al - 1 ELSE PageBytes

\* Mutant: no room is left for the alignment of the first block.
BlockCountUnfilled(size, al) ==
    IF TooBig(size, al) THEN 1 ELSE PageBytes \div size

BlockCount(size, al) ==
    IF TooBig(size, al) THEN 1 ELSE (PageBytes - (al - 1)) \div size

-----------------------------------------------------------------------------
VARIABLES
    align,            \* per size: m_align_size of its manager, 0 if there is none
    using,            \* per size: m_using_pages
    free,             \* per size: m_free_pages
    cur,              \* per size: m_cur_allocpage
    all,              \* m_all_pages
    start,            \* per page: m_memory
    cut,              \* per page: m_block_size
    out,              \* per page: the blocks users have
    owner,            \* m_using_map: pointer -> manager and page
    ret               \* the last result of Allocate

vars == <<align, using, free, cur, all, start, cut, out, owner, ret>>

lists == <<using, free, cur>>
memory == <<all, start, cut>>

Init ==
    /\ align = [s \in Sizes |-> 0]
    /\ using = [s \in Sizes |-> {}]
    /\ free = [s \in Sizes |-> <<>>]
    /\ cur = [s \in Sizes |-> None]
    /\ all = {}
    /\ start = [p \in Pages |-> 0]
    /\ cut = [p \in Pages |-> 0]
    /\ out = [p \in Pages |-> {}]
    /\ owner = [q \in {} |-> None]
    /\ ret = None

\* The blocks of a page of the given manager, and where they are.
BlocksOf(s) == 1..BlockCount(s, align[s])
Intact(p) == out[p] = {}
UsedUp(s, p) == out[p] = BlocksOf(s)
Address(p, b) == RoundUp(start[p], align[cut[p]]) + (b - 1) * cut[p]

\* CMPage::Free takes back what lies in the page and is aligned.
Accepts(p, b) ==
    /\ Address(p, b) < start[p] + cut[p] * BlockCount(cut[p], align[cut[p]])
    /\ Address(p, b) % align[cut[p]] = 0

-----------------------------------------------------------------------------
(* CMPageMgr::Allocate *)

\* The manager of a size is made by the first request for it, and keeps that
\* request's alignment.
AlignOf(r) ==
    IF align[AlignedSize(r)] = 0 THEN r.align ELSE align[AlignedSize(r)]

\* Mutant: a block that is in use is handed out.
HandOutAny(s, p, blocks, taken) ==
    \E b \in blocks :
        /\ out' = [out EXCEPT ![p] = taken \cup {b}]
        /\ owner' = [q \in DOMAIN owner \cup {<<p, b>>} |->
                        IF q = <<p, b>> THEN [mgr |-> s, page |-> p] ELSE owner[q]]
        /\ ret' = <<p, b>>

\* A block of page p, of the manager of size s, goes to a user; taken are the
\* blocks of the page that users have already.
HandOut(s, p, blocks, taken) ==
    \E b \in blocks \ taken :
        /\ out' = [out EXCEPT ![p] = taken \cup {b}]
        /\ owner' = [q \in DOMAIN owner \cup {<<p, b>>} |->
                        IF q = <<p, b>> THEN [mgr |-> s, page |-> p] ELSE owner[q]]
        /\ ret' = <<p, b>>

HandOutOf(s, p) == HandOut(s, p, BlocksOf(s), out[p])

CurrentServes(s) == cur[s] # None /\ ~UsedUp(s, cur[s])
Serving(s) == {p \in using[s] : ~UsedUp(s, p)}
Recyclable(s) == free[s] # <<>> /\ Intact(Head(free[s]))

AllocateFromCurrent(s) ==
    /\ CurrentServes(s)
    /\ HandOutOf(s, cur[s])
    /\ UNCHANGED <<align, lists, memory>>

\* m_using_pages.Find: which of several pages is a matter of addresses.
AllocateFromUsing(s) ==
    /\ ~CurrentServes(s)
    /\ \E p \in Serving(s) : cur' = [cur EXCEPT ![s] = p] /\ HandOutOf(s, p)
    /\ UNCHANGED <<align, using, free, memory>>

\* Mutant: the recycled page is not put among the used ones.
AllocateFromFreeUninserted(s) ==
    /\ ~CurrentServes(s) /\ Serving(s) = {} /\ Recyclable(s)
    /\ cur' = [cur EXCEPT ![s] = Head(free[s])]
    /\ free' = [free EXCEPT ![s] = Tail(@)]
    /\ HandOutOf(s, Head(free[s]))
    /\ UNCHANGED <<align, using, memory>>

\* m_free_pages.Pop and Reset, which refuses a page that is not intact.
AllocateFromFree(s) ==
    /\ ~CurrentServes(s) /\ Serving(s) = {} /\ Recyclable(s)
    /\ cur' = [cur EXCEPT ![s] = Head(free[s])]
    /\ free' = [free EXCEPT ![s] = Tail(@)]
    /\ using' = [using EXCEPT ![s] = @ \cup {Head(free[s])}]
    /\ HandOutOf(s, Head(free[s]))
    /\ UNCHANGED <<align, memory>>

\* Mutant: only the current page is looked at before a new one is made.
AllocateNewEagerly(r) ==
    LET s == AlignedSize(r) IN
    /\ ~CurrentServes(s)
    /\ align' = [align EXCEPT ![s] = AlignOf(r)]
    /\ \E p \in Pages \ all, a \in Starts :
        /\ all' = all \cup {p}
        /\ start' = [start EXCEPT ![p] = a]
        /\ cut' = [cut EXCEPT ![p] = s]
        /\ cur' = [cur EXCEPT ![s] = p]
        /\ using' = [using EXCEPT ![s] = @ \cup {p}]
        /\ HandOut(s, p, 1..BlockCount(s, AlignOf(r)), {})
    /\ UNCHANGED free

\* new CMPage.  A page of m_free_pages that Reset refused is dropped.
AllocateNew(r) ==
    LET s == AlignedSize(r) IN
    /\ ~CurrentServes(s) /\ Serving(s) = {} /\ ~Recyclable(s)
    /\ align' = [align EXCEPT ![s] = AlignOf(r)]
    /\ free' = [free EXCEPT ![s] = IF @ = <<>> THEN @ ELSE Tail(@)]
    /\ \E p \in Pages \ all, a \in Starts :
        /\ all' = all \cup {p}
        /\ start' = [start EXCEPT ![p] = a]
        /\ cut' = [cut EXCEPT ![p] = s]
        /\ cur' = [cur EXCEPT ![s] = p]
        /\ using' = [using EXCEPT ![s] = @ \cup {p}]
        /\ HandOut(s, p, 1..BlockCount(s, AlignOf(r)), {})

Allocate(r) ==
    LET s == AlignedSize(r) IN
    \/ AllocateFromCurrent(s)
    \/ AllocateFromUsing(s)
    \/ AllocateFromFree(s)
    \/ AllocateNew(r)

-----------------------------------------------------------------------------
(* CMPageMgr::Free *)

\* The user gives back <<p, b>>: the map forgets it and the page takes it.
TakeBack(p, b) ==
    /\ <<p, b>> \in DOMAIN owner
    /\ owner' = Restrict(owner, DOMAIN owner \ {<<p, b>>})
    /\ out' = [out EXCEPT ![p] = IF Accepts(p, b) THEN @ \ {b} ELSE @]
    /\ UNCHANGED ret

\* The page is still in use, or it is the current one.
FreeKeeps(p, b) ==
    /\ TakeBack(p, b)
    /\ out'[p] # {} \/ cur[owner[<<p, b>>].mgr] = p
    /\ UNCHANGED <<align, lists, memory>>

Retires(p, b) ==
    /\ TakeBack(p, b)
    /\ out'[p] = {}
    /\ cur[owner[<<p, b>>].mgr] # p

\* Mutant: one page too many is kept.
FreeRecyclesOneMore(p, b) ==
    LET s == owner[<<p, b>>].mgr IN
    /\ Retires(p, b)
    /\ Len(free[s]) <= RecycleSize
    /\ using' = [using EXCEPT ![s] = @ \ {p}]
    /\ free' = [free EXCEPT ![s] = Append(@, p)]
    /\ UNCHANGED <<align, cur, memory>>

\* The page waits in m_free_pages ...
FreeRecycles(p, b) ==
    LET s == owner[<<p, b>>].mgr IN
    /\ Retires(p, b)
    /\ Len(free[s]) < RecycleSize
    /\ using' = [using EXCEPT ![s] = @ \ {p}]
    /\ free' = [free EXCEPT ![s] = Append(@, p)]
    /\ UNCHANGED <<align, cur, memory>>

\* ... or goes back to the system.
FreeDeletes(p, b) ==
    LET s == owner[<<p, b>>].mgr IN
    /\ Retires(p, b)
    /\ Len(free[s]) >= RecycleSize
    /\ using' = [using EXCEPT ![s] = @ \ {p}]
    /\ all' = all \ {p}
    /\ UNCHANGED <<align, free, cur, start, cut>>

Free(p, b) == FreeKeeps(p, b) \/ FreeRecycles(p, b) \/ FreeDeletes(p, b)

-----------------------------------------------------------------------------
Next ==
    \/ \E r \in Requests : Allocate(r)
    \/ \E p \in Pages, b \in 1..PageBytes : Free(p, b)

Spec == Init /\ [][Next]_vars

-----------------------------------------------------------------------------
(* Properties *)

Listed(s) == using[s] \cup Range(free[s])

TypeOK ==
    /\ align \in [Sizes -> {0} \cup {r.align : r \in Requests}]
    /\ using \in [Sizes -> SUBSET Pages]
    /\ free \in [Sizes -> Seq(Pages)]
    /\ cur \in [Sizes -> Pages \cup {None}]
    /\ all \subseteq Pages
    /\ start \in [Pages -> Starts \cup {0}]
    /\ cut \in [Pages -> Sizes \cup {0}]
    /\ out \in [Pages -> SUBSET Nat]
    /\ DOMAIN owner \subseteq Pages \X Nat
    /\ ret \in (Pages \X Nat) \cup {None}
    /\ \A q \in DOMAIN owner : owner[q] \in [mgr: Sizes, page: Pages]

\* Every page that is not deleted is in exactly one list of exactly one
\* manager, once, cut to that manager's size; no list and no current page
\* names a deleted page (FreeToPage deletes, AllocateFromPage moves between
\* the lists).
PagesAccounted ==
    /\ all = UNION {Listed(s) : s \in Sizes}
    /\ \A s \in Sizes :
        /\ \A p \in Listed(s) : cut[p] = s
        /\ using[s] \cap Range(free[s]) = {}
        /\ IsInjective(free[s])
        /\ cur[s] # None => cur[s] \in using[s]

\* The map from pointers to pages knows exactly the blocks that users have,
\* each with the page it lies in and the manager of that page: none is
\* forgotten, so none leaks, and none is left of a deleted page.
MapIsExact ==
    /\ DOMAIN owner = {q \in all \X UNION {out[p] : p \in all} : q[2] \in out[q[1]]}
    /\ \A q \in DOMAIN owner : owner[q] = [mgr |-> cut[q[1]], page |-> q[1]]
    /\ \A p \in Pages \ all : out[p] = {}

\* Memory that nobody uses is bounded: per size at most RecycleSize waiting
\* pages and the current one are without a used block, however the blocks
\* were freed.
IdleIsBounded ==
    \A s \in Sizes :
        /\ Len(free[s]) <= RecycleSize
        /\ \A p \in using[s] : Intact(p) => p = cur[s]
        /\ \A i \in DOMAIN free[s] : Intact(free[s][i])

\* Every block of a page starts on the alignment of its manager and ends
\* inside the page's memory, wherever malloc put it, and CMPage::Free will
\* take it back.
BlocksWellPlaced ==
    \A s \in Sizes : \A p \in Listed(s) : \A b \in BlocksOf(s) :
        /\ Address(p, b) % align[s] = 0
        /\ Address(p, b) + s <= start[p] + MemoryBytes(s, align[s])
        /\ Accepts(p, b)

\* Everything has its type, no page is lost and no pointer is left behind, idle
\* memory is bounded and every block is where it belongs.
Inv == TypeOK /\ PagesAccounted /\ MapIsExact /\ IdleIsBounded /\ BlocksWellPlaced

\* A new page is made only when no page of that size has a block left.
GrowsOnlyWhenFull ==
    [][\A p \in all' \ all :
        \A o \in all : cut[o] = cut'[p] => UsedUp(cut[o], o)]_vars

\* The blocks that users have, each with its page.
Held == {q \in all \X (1..PageBytes) : q[2] \in out[q[1]]}

\* The page lists are a heap: no block is handed out twice, none is taken
\* from its user by the recycling of pages.
HeapOfPages == INSTANCE Heap WITH
    Blocks <- Pages \X (1..PageBytes),
    held <- Held
ImplementsHeap == HeapOfPages!HSpec

=============================================================================
