------------------------------- MODULE MPage -------------------------------
(***************************************************************************)
(* The free list of CMPage (source/memory/mpage.cpp:47-80, 122-222).       *)
(*                                                                         *)
(* A page is m_allblock_num blocks, 1..all here, and pointers are block    *)
(* numbers: 0 is NULL, anything above all points outside the page.  The    *)
(* link to the next free block lies in the block itself, so the user of a  *)
(* block overwrites it, and memory fresh from malloc holds anything.  The  *)
(* list is built lazily: a link that is NULL means "the block that follows *)
(* in memory".  How sizes and alignment cut the page into blocks is not    *)
(* modelled here.                                                          *)
(***************************************************************************)
EXTENDS Naturals, Sequences, FiniteSets

CONSTANT MaxBlocks    \* the largest number of blocks of a page

ASSUME BlocksAssumption == MaxBlocks \in Nat \ {0}

Blocks == 1..MaxBlocks
Words == 0..(MaxBlocks + 1)   \* what a block's first word may hold

VARIABLES
    all,              \* m_allblock_num
    num,              \* m_freeblock_num
    head,             \* m_freeblock_head
    next,             \* FreeBlock::next of every block, whatever it holds
    live,             \* history: the blocks handed out and not given back
    ret,              \* history: the last result of Allocate
    chain,            \* history: the free blocks in the order they will be handed out
    frontier          \* history: the highest block ever made head of the list

vars == <<all, num, head, next, live, ret, chain, frontier>>

\* The blocks m..n, in order.
Run(m, n) == [i \in 1..(n + 1 - m) |-> m + i - 1]

\* Memory from malloc, the link of the first block written.
Memory == {m \in [Blocks -> Words] : m[1] = 0}

\* create: the head is the first block and only its link is written.
Create(n) ==
    /\ all' = n
    /\ num' = n
    /\ head' = 1
    /\ next' \in Memory
    /\ chain' = Run(1, n)
    /\ frontier' = 1

Init ==
    /\ all \in Blocks
    /\ num = all
    /\ head = 1
    /\ next \in Memory
    /\ live = {}
    /\ ret = 0
    /\ chain = Run(1, all)
    /\ frontier = 1

-----------------------------------------------------------------------------
(* allocateblock *)

AllocateNone ==
    /\ num = 0
    /\ ret' = 0
    /\ UNCHANGED <<all, num, head, next, live, chain, frontier>>

\* The last free block: its link is not looked at.
AllocateLast ==
    /\ num = 1
    /\ ret' = head
    /\ live' = live \cup {head}
    /\ num' = 0
    /\ head' = 0
    /\ chain' = Tail(chain)
    /\ UNCHANGED <<all, next, frontier>>

\* A block that was never handed out: the head moves to the block behind it.
AllocateFresh ==
    /\ num > 1
    /\ next[head] = 0
    /\ ret' = head
    /\ live' = live \cup {head}
    /\ num' = num - 1
    /\ head' = head + 1
    /\ next' = [next EXCEPT ![head + 1] = 0]
    /\ chain' = Tail(chain)
    /\ frontier' = head + 1
    /\ UNCHANGED all

\* A block that was handed out and given back: the head moves along its link.
AllocateLinked ==
    /\ num > 1
    /\ next[head] # 0
    /\ ret' = head
    /\ live' = live \cup {head}
    /\ num' = num - 1
    /\ head' = next[head]
    /\ chain' = Tail(chain)
    /\ UNCHANGED <<all, next, frontier>>

-----------------------------------------------------------------------------
(* Free, Clear, Reset *)

\* Mutant: the link of a returned block skips the head.
FreeSkipsHead(b) ==
    /\ b \in live
    /\ next' = IF num > 0 THEN [next EXCEPT ![b] = next[head]] ELSE next
    /\ head' = b
    /\ num' = num + 1
    /\ live' = live \ {b}
    /\ chain' = <<b>> \o chain
    /\ UNCHANGED <<all, ret, frontier>>

\* Mutant: the count is not kept.
FreeUncounted(b) ==
    /\ b \in live
    /\ next' = IF num > 0 THEN [next EXCEPT ![b] = head] ELSE next
    /\ head' = b
    /\ num' = IF num = 0 THEN 1 ELSE num
    /\ live' = live \ {b}
    /\ chain' = <<b>> \o chain
    /\ UNCHANGED <<all, ret, frontier>>

\* Mutant: the link is not written.
FreeUnlinked(b) ==
    /\ b \in live
    /\ head' = b
    /\ num' = num + 1
    /\ live' = live \ {b}
    /\ chain' = <<b>> \o chain
    /\ UNCHANGED <<all, next, ret, frontier>>

\* Free of a block that was handed out.  If the page was used up the link of
\* the block is left as its user wrote it.
Free(b) ==
    /\ b \in live
    /\ next' = IF num > 0 THEN [next EXCEPT ![b] = head] ELSE next
    /\ head' = b
    /\ num' = num + 1
    /\ live' = live \ {b}
    /\ chain' = <<b>> \o chain
    /\ UNCHANGED <<all, ret, frontier>>

\* Clear does nothing to a page that is used up.
Clear ==
    /\ num # 0
    /\ num' = all
    /\ head' = 1
    /\ next' = [next EXCEPT ![1] = 0]
    /\ live' = {}
    /\ chain' = Run(1, all)
    /\ frontier' = 1
    /\ UNCHANGED <<all, ret>>

\* Reset of an unused page to blocks of another size.
Reset ==
    /\ num = all
    /\ \E n \in Blocks : Create(n)
    /\ UNCHANGED <<live, ret>>

\* The user of a block writes over the link in it.
UserWrite(b) ==
    /\ b \in live
    /\ \E w \in Words : next' = [next EXCEPT ![b] = w]
    /\ UNCHANGED <<all, num, head, live, ret, chain, frontier>>

Allocate == AllocateNone \/ AllocateLast \/ AllocateFresh \/ AllocateLinked

Next == Allocate \/ (\E b \in live : Free(b) \/ UserWrite(b)) \/ Clear \/ Reset

Spec == Init /\ [][Next]_vars

-----------------------------------------------------------------------------
(* Properties *)

\* Types.  The count never passes the number of blocks and the head stays in
\* the page: no underflow of --m_freeblock_num, no block behind the last.
TypeOK ==
    /\ all \in Blocks
    /\ num \in 0..all
    /\ head \in 0..all
    /\ next \in [Blocks -> Words]
    /\ live \subseteq 1..all
    /\ ret \in 0..MaxBlocks
    /\ chain \in Seq(Blocks)
    /\ frontier \in 1..all

\* As long as the page is not used up its head is a block of the page that
\* nobody has, whatever users wrote into their blocks: the list never runs
\* into a block in use or off the end of the page.
HeadIsFree == num > 0 => head \in (1..all) \ live

\* No block is lost: those that are not handed out are all still counted.
AllBlocksCounted == num + Cardinality(live) = all

\* What users, the links and the count say of the page agrees.
Inv == TypeOK /\ HeadIsFree /\ AllBlocksCounted

\* The free list with its lazy links is an allocator of blocks.
Alloc == INSTANCE BlockAllocator
ImplementsAllocator == Alloc!ASpec

\* The free list itself: the chain is every free block once, starting at the
\* head, and the code finds it: a written link leads to the next block of the
\* chain, and from the highest block ever handed to the head on (the frontier)
\* a NULL link means the block that follows in memory.  Links of users and
\* leftovers of malloc are never followed (allocateblock, freeblock).
ChainIsFreeBlocks ==
    /\ Len(chain) = num
    /\ num > 0 => head = chain[1]
    /\ {chain[i] : i \in 1..num} = (1..all) \ live
    /\ \A i, j \in 1..num : chain[i] = chain[j] => i = j

Linked(b) == b <= frontier /\ next[b] # 0

ChainIsLinked ==
    /\ live \subseteq 1..frontier
    /\ num > 0 => chain[1] <= frontier
    /\ \A i \in 1..(num - 1) :
          IF Linked(chain[i])
          THEN chain[i + 1] = next[chain[i]] /\ chain[i + 1] <= frontier
          ELSE chain[i] >= frontier /\ chain[i + 1] = chain[i] + 1

FreeListIsSound == ChainIsFreeBlocks /\ ChainIsLinked
=============================================================================
