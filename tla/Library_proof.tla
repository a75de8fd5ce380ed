--------------------------- MODULE Library_proof ---------------------------
(***************************************************************************)
(* Proofs about the parts of the library that have nothing to do with each *)
(* other, which MCLibrary puts together for TLC (LibraryIsItsParts: what is *)
(* proved of a part holds in the whole): the free list of CMPage           *)
(* (MPage.tla) for pages of any number of blocks, the counts of CPPRef     *)
(* (RefPtr.tla) for any objects and pointers, the UDP socket               *)
(* (UdpSocket.tla) for any buffers and bounds, UINTAdd, UINTSub and        *)
(* GenRandUINT (UIntMath.tla) for integers of any width, MD5Update and     *)
(* MD5Final (Md5.tla) for blocks and words of any size, CIOBuffer          *)
(* (IOBuffer.tla) for bytes, buffers, values and orders of any size, the   *)
(* calendar (Calendar.tla) for any zones and times of the years in which   *)
(* every fourth is a leap year, and SplitString (SplitString.tla) for any  *)
(* strings.                                                                *)
(*                                                                         *)
(* The free list.  HeadIsFree is not inductive: why the next head is free  *)
(* is a fact about the links, and which links are meant is a fact about    *)
(* where the head has been.  FreeListInv adds FreeListIsSound, the whole   *)
(* list, to it, and AllBlocksCounted, without which Free could push the    *)
(* count past the number of blocks.  An Allocate takes the first block of  *)
(* the chain (lemma ChainLosesHead), a Free puts one before it (lemma      *)
(* ChainGains), and what remains in each action is that the links still    *)
(* spell the chain.                                                        *)
(*                                                                         *)
(* The counts.  Both RefPtr and UdpSocket count the places at which a      *)
(* function has a value; the lemmas about CountOf say what one more place, *)
(* one less and another value in a place do to that number.                *)
(*                                                                         *)
(* MD5.  The invariant says what a context holds: the count, the blocks    *)
(* and the rest of one sequence of bytes, the message so far (Holds).      *)
(* UpdateHolds is the step: whatever a context holds, MD5Update adds its   *)
(* input to it.  MD5Final is two such steps, so it needs no other argument *)
(* than that its padding is the one the standard asks for (PadLengthFits). *)
(* That the place in the block can be read off the low word alone, however *)
(* often it has wrapped, is IndexOfCounts.                                 *)
(*                                                                         *)
(* CIOBuffer.  While no exception has left half a value written or read    *)
(* the bytes in the buffer are the values written, laid out one after the  *)
(* other (Laid), and the reader is at the end of the last value it read    *)
(* (Faithful).  A write lays one more value (LaidMore); a read finds the   *)
(* next one where it is (NextHeld), in the form it was written in, because *)
(* the bytes of a number are its digits (MemoryBack), whatever the orders  *)
(* of the two machines, and the form of a length can be told from its      *)
(* first byte (LengthAtHeld).                                              *)
(*                                                                         *)
(* What is computed by recursion, numbers from bytes and strings from      *)
(* pieces, is a function on 0..n that satisfies its equation.  Such a      *)
(* function exists (Recursion), and that it is what the lemmas say is      *)
(* shown for the least n for which it would not be (Induction): the        *)
(* library's theorems about induction take an operator, which the provers  *)
(* cannot instantiate, these take the set of numbers for which a fact      *)
(* holds.                                                                  *)
(*                                                                         *)
(* The calendar.  Every second of a year is of one day of one month only   *)
(* (DateIs), because years and months begin later and later (YearsGrow,    *)
(* MonthsAre); what localtime_r writes is that day (TimeIsDated), and what *)
(* a function of utility.cpp returns is, by LookedUp, the day meant, or,   *)
(* for the end of a year, the one YearsEndEarly names.                     *)
(***************************************************************************)
EXTENDS MCLibrary, FiniteSetTheorems, SequenceTheorems, WellFoundedInduction, TLAPS

-----------------------------------------------------------------------------
(* The free list of CMPage *)

FreeListInv == TypeOK /\ AllBlocksCounted /\ FreeListIsSound

-----------------------------------------------------------------------------
(* The chain *)

\* A chain over all blocks of a page, in order.
LEMMA RunIsChain ==
    ASSUME NEW n \in Blocks
    PROVE  /\ Run(1, n) \in Seq(Blocks)
           /\ Len(Run(1, n)) = n
           /\ \A i \in 1..n : Run(1, n)[i] = i
<1>1. n \in Nat /\ \A i \in 1..n : i \in Blocks
  BY BlocksAssumption DEF Blocks
<1>2. Run(1, n) = [i \in 1..n |-> i]
  BY <1>1 DEF Run
<1>3. Run(1, n) \in [1..n -> Blocks]
  BY <1>1, <1>2
<1>4. Run(1, n) \in Seq(Blocks)
  BY <1>1, <1>3, SeqDef
<1>5. Len(Run(1, n)) = n
  BY <1>1, <1>3, <1>4, LenProperties
<1> QED
  BY <1>1, <1>2, <1>4, <1>5

\* The first block leaves the chain: the others move up by one place.
LEMMA TailOfChain ==
    ASSUME FreeListInv, num > 0, chain' = Tail(chain)
    PROVE  /\ chain' \in Seq(Blocks)
           /\ Len(chain') = num - 1
           /\ \A i \in 1..(num - 1) : chain'[i] = chain[i + 1]
<1>1. chain \in Seq(Blocks) /\ Len(chain) = num /\ num \in Nat
  BY BlocksAssumption DEF FreeListInv, TypeOK, FreeListIsSound, ChainIsFreeBlocks, Blocks
<1> QED
  BY <1>1

\* A block goes in front of the chain: the others move down by one place.
LEMMA PushOnChain ==
    ASSUME FreeListInv, NEW b \in Blocks, chain' = <<b>> \o chain
    PROVE  /\ chain' \in Seq(Blocks)
           /\ Len(chain') = num + 1
           /\ chain'[1] = b
           /\ \A i \in 2..(num + 1) : chain'[i] = chain[i - 1]
<1>1. chain \in Seq(Blocks) /\ Len(chain) = num /\ num \in Nat
  BY BlocksAssumption DEF FreeListInv, TypeOK, FreeListIsSound, ChainIsFreeBlocks, Blocks
<1> QED
  BY <1>1

\* Allocate hands out the first block of the chain, which is the head.
LEMMA ChainLosesHead ==
    ASSUME FreeListInv, num > 0, chain' = Tail(chain), num' = num - 1, all' = all,
           live' = live \cup {head}, num' > 0 => head' = chain'[1]
    PROVE  ChainIsFreeBlocks'
<1>1. /\ Len(chain') = num - 1
      /\ \A i \in 1..(num - 1) : chain'[i] = chain[i + 1]
  BY TailOfChain
<1>2. /\ num \in Nat /\ all \in Nat
      /\ head = chain[1]
      /\ {chain[i] : i \in 1..num} = (1..all) \ live
      /\ \A i, j \in 1..num : chain[i] = chain[j] => i = j
  BY BlocksAssumption DEF FreeListInv, TypeOK, FreeListIsSound, ChainIsFreeBlocks, Blocks
<1>3. {chain'[i] : i \in 1..num'} = (1..all') \ live'
  <2>1. ASSUME NEW i \in 1..num'
        PROVE  chain'[i] \in (1..all') \ live'
    <3>1. chain'[i] = chain[i + 1] /\ i + 1 \in 1..num /\ 1 \in 1..num
      BY <1>1, <1>2
    <3>2. chain[i + 1] # chain[1]
      BY <1>2, <3>1
    <3> QED
      BY <1>2, <3>1, <3>2
  <2>2. ASSUME NEW b \in (1..all') \ live'
        PROVE  b \in {chain'[i] : i \in 1..num'}
    <3>1. PICK j \in 1..num : b = chain[j]
      BY <1>2
    <3>2. j # 1
      BY <1>2, <3>1
    <3>3. j - 1 \in 1..num' /\ chain'[j - 1] = chain[j]
      BY <1>1, <1>2, <3>1, <3>2
    <3> QED
      BY <3>1, <3>3
  <2>3. {chain'[i] : i \in 1..num'} \subseteq (1..all') \ live'
    BY <2>1
  <2>4. (1..all') \ live' \subseteq {chain'[i] : i \in 1..num'}
    BY <2>2
  <2> QED
    BY <2>3, <2>4, Zenon
<1>4. \A i, j \in 1..num' : chain'[i] = chain'[j] => i = j
  <2> SUFFICES ASSUME NEW i \in 1..num', NEW j \in 1..num', chain'[i] = chain'[j]
               PROVE  i = j
    OBVIOUS
  <2>1. i + 1 \in 1..num /\ j + 1 \in 1..num /\ chain[i + 1] = chain[j + 1]
    BY <1>1, <1>2
  <2> QED
    BY <1>2, <2>1
<1> QED
  BY <1>1, <1>3, <1>4 DEF ChainIsFreeBlocks

\* Free puts a block that was handed out in front of the chain.
LEMMA ChainGains ==
    ASSUME FreeListInv, NEW b \in live, chain' = <<b>> \o chain, num' = num + 1,
           all' = all, live' = live \ {b}, head' = b
    PROVE  ChainIsFreeBlocks'
<1>1. b \in Blocks /\ b \in 1..all
  BY BlocksAssumption DEF FreeListInv, TypeOK, Blocks
<1>2. /\ Len(chain') = num + 1
      /\ chain'[1] = b
      /\ \A i \in 2..(num + 1) : chain'[i] = chain[i - 1]
  BY <1>1, PushOnChain
<1>3. /\ num \in Nat /\ all \in Nat
      /\ {chain[i] : i \in 1..num} = (1..all) \ live
      /\ \A i, j \in 1..num : chain[i] = chain[j] => i = j
  BY BlocksAssumption DEF FreeListInv, TypeOK, FreeListIsSound, ChainIsFreeBlocks, Blocks
<1>4. \A i \in 2..(num + 1) : chain'[i] \in (1..all) \ live
  <2> SUFFICES ASSUME NEW i \in 2..(num + 1)
               PROVE  chain'[i] \in (1..all) \ live
    OBVIOUS
  <2>1. i - 1 \in 1..num /\ chain'[i] = chain[i - 1]
    BY <1>2, <1>3
  <2> QED
    BY <1>3, <2>1
<1>5. {chain'[i] : i \in 1..num'} = (1..all') \ live'
  <2>1. ASSUME NEW i \in 1..num'
        PROVE  chain'[i] \in (1..all') \ live'
    <3>1. i = 1 \/ i \in 2..(num + 1)
      BY <1>3
    <3> QED
      BY <1>1, <1>2, <1>4, <3>1
  <2>2. ASSUME NEW c \in (1..all') \ live'
        PROVE  c \in {chain'[i] : i \in 1..num'}
    <3>1. CASE c = b
      BY <1>2, <1>3, <3>1
    <3>2. CASE c # b
      <4>1. PICK j \in 1..num : c = chain[j]
        BY <1>3, <3>2
      <4>2. j + 1 \in 2..(num + 1) /\ (j + 1) - 1 = j
        BY <1>3, <4>1
      <4>3. chain'[j + 1] = chain[j]
        BY <1>2, <4>2
      <4>4. j + 1 \in 1..num'
        BY <1>3, <4>1
      <4> QED
        BY <4>1, <4>3, <4>4
    <3> QED
      BY <3>1, <3>2
  <2>3. {chain'[i] : i \in 1..num'} \subseteq (1..all') \ live'
    BY <2>1
  <2>4. (1..all') \ live' \subseteq {chain'[i] : i \in 1..num'}
    BY <2>2
  <2> QED
    BY <2>3, <2>4, Zenon
<1>6. \A i, j \in 1..num' : chain'[i] = chain'[j] => i = j
  <2> SUFFICES ASSUME NEW i \in 1..num', NEW j \in 1..num', chain'[i] = chain'[j]
               PROVE  i = j
    OBVIOUS
  <2>1. (i = 1 \/ i \in 2..(num + 1)) /\ (j = 1 \/ j \in 2..(num + 1))
    BY <1>3
  <2>2. CASE i = 1 \/ j = 1
    BY <1>2, <1>4, <2>1, <2>2
  <2>3. CASE i \in 2..(num + 1) /\ j \in 2..(num + 1)
    <3>1. i - 1 \in 1..num /\ j - 1 \in 1..num /\ chain[i - 1] = chain[j - 1]
      BY <1>2, <1>3, <2>3
    <3>2. i - 1 = j - 1
      BY <1>3, <3>1
    <3> QED
      BY <2>3, <1>3, <3>2
  <2> QED
    BY <2>1, <2>2, <2>3
<1> QED
  BY <1>2, <1>3, <1>5, <1>6 DEF ChainIsFreeBlocks

\* Clear and Reset start over with the run of all blocks.
LEMMA ChainStartsOver ==
    ASSUME NEW n \in Blocks, all' = n, num' = n, head' = 1, live' = {},
           chain' = Run(1, n), frontier' = 1, next'[1] = 0
    PROVE  chain' \in Seq(Blocks) /\ FreeListIsSound'
<1>1. /\ chain' \in Seq(Blocks)
      /\ Len(chain') = n
      /\ \A i \in 1..n : chain'[i] = i
  BY RunIsChain
<1>2. n \in Nat /\ n >= 1
  BY BlocksAssumption DEF Blocks
<1>3. ChainIsFreeBlocks'
  <2>1. {chain'[i] : i \in 1..n} \subseteq 1..n
    BY <1>1
  <2>2. 1..n \subseteq {chain'[i] : i \in 1..n}
    BY <1>1
  <2>3. {chain'[i] : i \in 1..num'} = (1..all') \ live'
    BY <2>1, <2>2, Zenon
  <2> QED
    BY <1>1, <1>2, <2>3 DEF ChainIsFreeBlocks
<1>4. ChainIsLinked'
  BY <1>1, <1>2 DEF ChainIsLinked, Linked
<1> QED
  BY <1>1, <1>3, <1>4 DEF FreeListIsSound

-----------------------------------------------------------------------------
(* The invariant *)

\* What the actions use of the invariant about the numbers ...
LEMMA NumbersOfBlocks ==
    ASSUME FreeListInv
    PROVE  /\ all \in Nat /\ num \in Nat /\ frontier \in Nat
           /\ num <= all /\ frontier <= all
           /\ 1..all \subseteq Blocks /\ live \subseteq 1..all
           /\ live \subseteq 1..frontier
BY BlocksAssumption
   DEF FreeListInv, TypeOK, FreeListIsSound, ChainIsLinked, Blocks

\* ... about the head ...
LEMMA HeadOfChain ==
    ASSUME FreeListInv, num > 0
    PROVE  /\ head = chain[1] /\ head \in Nat /\ head \in 1..all
           /\ head \notin live /\ head <= frontier
<1>1. num \in Nat /\ 1 \in 1..num /\ all \in Nat
  BY NumbersOfBlocks
<1> QED
  BY <1>1 DEF FreeListInv, FreeListIsSound, ChainIsFreeBlocks, ChainIsLinked

\* ... and about a block of the chain.
LEMMA BlockOfChain ==
    ASSUME FreeListInv, NEW i \in 1..num
    PROVE  /\ chain[i] \in Nat /\ chain[i] \in 1..all /\ chain[i] \in Blocks
           /\ chain[i] \notin live
           /\ next[chain[i]] \in Nat
           /\ i > 1 => chain[i] # chain[1]
<1>1. all \in Nat /\ num \in Nat /\ 1..all \subseteq Blocks /\ 1 \in 1..num
  BY NumbersOfBlocks
<1>2. chain[i] \in (1..all) \ live
  BY DEF FreeListInv, FreeListIsSound, ChainIsFreeBlocks
<1>3. i > 1 => chain[i] # chain[1]
  BY <1>1 DEF FreeListInv, FreeListIsSound, ChainIsFreeBlocks
<1>4. next[chain[i]] \in Nat
  BY BlocksAssumption, <1>1, <1>2 DEF FreeListInv, TypeOK, Words
<1> QED
  BY <1>1, <1>2, <1>3, <1>4

\* The count is at least one as long as a block is handed out, and the set of
\* blocks that are handed out is finite.
LEMMA LiveIsFinite ==
    ASSUME FreeListInv
    PROVE  /\ IsFiniteSet(live) /\ Cardinality(live) \in Nat
           /\ num + Cardinality(live) = all
<1>1. all \in Nat /\ live \subseteq 1..all
  BY NumbersOfBlocks
<1>2. IsFiniteSet(1..all)
  BY <1>1, FS_Interval
<1>3. IsFiniteSet(live)
  BY <1>1, <1>2, FS_Subset
<1> QED
  BY <1>3, FS_CardinalityType DEF FreeListInv, AllBlocksCounted

\* A block that nobody had is handed out, or one is given back.
LEMMA CountTaken ==
    ASSUME FreeListInv, num > 0, num' = num - 1, all' = all, live' = live \cup {head}
    PROVE  AllBlocksCounted'
<1>1. head \notin live /\ num \in Nat /\ all \in Nat
  BY NumbersOfBlocks, HeadOfChain
<1>2. Cardinality(live') = Cardinality(live) + 1
  BY <1>1, LiveIsFinite, FS_AddElement
<1> QED
  BY <1>1, <1>2, LiveIsFinite DEF AllBlocksCounted

LEMMA CountGiven ==
    ASSUME FreeListInv, NEW b \in live, num' = num + 1, all' = all, live' = live \ {b}
    PROVE  AllBlocksCounted' /\ num' <= all'
<1>1. num \in Nat /\ all \in Nat
  BY NumbersOfBlocks
<1>2. /\ IsFiniteSet(live') /\ Cardinality(live') \in Nat
      /\ Cardinality(live') = Cardinality(live) - 1
  BY LiveIsFinite, FS_RemoveElement, FS_CardinalityType
<1> QED
  BY <1>1, <1>2, LiveIsFinite DEF AllBlocksCounted

\* The first state of a page.
LEMMA InitInv == Init => FreeListInv
<1> SUFFICES ASSUME Init PROVE FreeListInv
  OBVIOUS
<1>1. /\ all \in Blocks /\ all \in Nat /\ all >= 1
      /\ next \in [Blocks -> Words] /\ next[1] = 0
  BY BlocksAssumption DEF Init, Memory, Blocks
<1>2. /\ chain \in Seq(Blocks)
      /\ Len(chain) = all
      /\ \A i \in 1..all : chain[i] = i
  BY <1>1, RunIsChain DEF Init
<1>3. TypeOK
  BY BlocksAssumption, <1>1, <1>2 DEF Init, TypeOK, Blocks
<1>4. {chain[i] : i \in 1..num} = (1..all) \ live
  <2>1. {chain[i] : i \in 1..all} \subseteq 1..all
    BY <1>2
  <2>2. 1..all \subseteq {chain[i] : i \in 1..all}
    BY <1>2
  <2>3. {chain[i] : i \in 1..all} = 1..all
    BY <2>1, <2>2, Zenon
  <2> QED
    BY <2>3 DEF Init
<1>5. ChainIsFreeBlocks
  BY <1>1, <1>2, <1>4 DEF Init, ChainIsFreeBlocks
<1>6. ChainIsLinked
  BY <1>1, <1>2 DEF Init, ChainIsLinked, Linked
<1>7. AllBlocksCounted
  BY <1>1, FS_EmptySet DEF Init, AllBlocksCounted
<1> QED
  BY <1>3, <1>5, <1>6, <1>7 DEF FreeListInv, FreeListIsSound

LEMMA LastInv == FreeListInv /\ AllocateLast => FreeListInv'
<1> SUFFICES ASSUME FreeListInv, AllocateLast PROVE FreeListInv'
  OBVIOUS
<1>1. /\ num = 1 /\ num' = num - 1 /\ num' = 0 /\ live' = live \cup {head} /\ all' = all
      /\ frontier' = frontier /\ head' = 0 /\ chain' = Tail(chain)
  BY DEF AllocateLast
<1>2. /\ num > 0 /\ head \in 1..all /\ head \in 1..frontier /\ all \in Nat
      /\ live \subseteq 1..frontier
  BY <1>1, NumbersOfBlocks, HeadOfChain
<1>3. chain' \in Seq(Blocks)
  BY <1>1, <1>2, TailOfChain
<1>4. ChainIsFreeBlocks'
  BY <1>1, <1>2, ChainLosesHead
<1>5. TypeOK'
  BY BlocksAssumption, <1>2, <1>3 DEF FreeListInv, TypeOK, AllocateLast, Blocks
<1>6. ChainIsLinked'
  BY <1>1, <1>2 DEF ChainIsLinked
<1>7. AllBlocksCounted'
  BY <1>1, <1>2, CountTaken
<1> QED
  BY <1>4, <1>5, <1>6, <1>7 DEF FreeListInv, FreeListIsSound

LEMMA FreshInv == FreeListInv /\ AllocateFresh => FreeListInv'
<1> SUFFICES ASSUME FreeListInv, AllocateFresh PROVE FreeListInv'
  OBVIOUS
<1>1. /\ num > 1 /\ num' = num - 1 /\ all' = all /\ live' = live \cup {head}
      /\ head' = head + 1 /\ frontier' = head + 1 /\ next' = [next EXCEPT ![head + 1] = 0]
      /\ chain' = Tail(chain) /\ next[head] = 0 /\ ret' = head
  BY DEF AllocateFresh
<1>2. /\ num \in Nat /\ all \in Nat /\ frontier \in Nat /\ num <= all
      /\ num > 0 /\ num' \in Nat /\ num' > 0
      /\ 1..all \subseteq Blocks /\ live \subseteq 1..frontier /\ live \subseteq 1..all
  BY <1>1, NumbersOfBlocks
<1>3. head = chain[1] /\ head \in Nat /\ head \in 1..all /\ head <= frontier
  BY <1>2, HeadOfChain
\* A NULL link that is followed is the link of the frontier.
<1>4. head = frontier /\ chain[2] = head + 1 /\ head + 1 \in 1..all
  <2>1. 1 \in 1..(num - 1) /\ 2 \in 1..num
    BY <1>1, <1>2
  <2>2. ~Linked(chain[1])
    BY <1>1, <1>3 DEF Linked
  <2>3. chain[1] >= frontier /\ chain[1 + 1] = chain[1] + 1
    BY <2>1, <2>2 DEF FreeListInv, FreeListIsSound, ChainIsLinked
  <2>4. chain[2] \in 1..all
    BY <2>1, BlockOfChain
  <2> QED
    BY <1>2, <1>3, <2>3, <2>4
<1>5. /\ chain' \in Seq(Blocks)
      /\ \A i \in 1..(num - 1) : chain'[i] = chain[i + 1]
  BY <1>1, <1>2, TailOfChain
<1>6. chain'[1] = head'
  <2>1. 1 \in 1..(num - 1) /\ 1 + 1 = 2
    BY <1>1, <1>2
  <2> QED
    BY <1>1, <1>4, <1>5, <2>1
<1>7. ChainIsFreeBlocks'
  BY <1>1, <1>2, <1>6, ChainLosesHead
<1>8. /\ next' \in [Blocks -> Words]
      /\ \A b \in Blocks : b # head + 1 => next'[b] = next[b]
      /\ next'[head + 1] = 0
  BY BlocksAssumption, <1>1, <1>2, <1>4 DEF FreeListInv, TypeOK, Words
<1>9. TypeOK'
  <2>1. all' \in Blocks /\ num' \in 0..all'
    BY <1>1, <1>2 DEF FreeListInv, TypeOK
  <2>2. head' \in 0..all' /\ frontier' \in 1..all' /\ live' \subseteq 1..all'
    BY <1>1, <1>2, <1>3, <1>4
  <2>3. ret' \in Blocks
    BY <1>1, <1>2, <1>3
  <2>4. ret' \in 0..MaxBlocks
    BY BlocksAssumption, <2>3 DEF Blocks
  <2> QED
    BY <1>5, <1>8, <2>1, <2>2, <2>4 DEF TypeOK
<1>10. ASSUME NEW i \in 1..(num' - 1)
       PROVE  IF Linked(chain[i])'
              THEN chain'[i + 1] = next'[chain'[i]] /\ chain'[i + 1] <= frontier'
              ELSE chain'[i] >= frontier' /\ chain'[i + 1] = chain'[i] + 1
  <2> DEFINE c == chain[i + 1]
             d == chain[(i + 1) + 1]
  <2>1. /\ i \in 1..(num - 1) /\ i + 1 \in 1..(num - 1)
        /\ i + 1 \in 1..num /\ i + 1 > 1
    BY <1>1, <1>2
  <2>2. chain'[i] = c /\ chain'[i + 1] = d
    BY <1>5, <2>1
  <2>3. c \in Blocks /\ c \in Nat /\ next[c] \in Nat /\ c # head
    BY <1>3, <2>1, BlockOfChain
  <2>4. IF Linked(c) THEN d = next[c] /\ d <= frontier ELSE c >= frontier /\ d = c + 1
    BY <2>1 DEF FreeListInv, FreeListIsSound, ChainIsLinked
  <2> HIDE DEF c, d
  <2>5. IF c <= frontier /\ next[c] # 0
        THEN d = next[c] /\ d <= frontier ELSE c >= frontier /\ d = c + 1
    BY <2>4 DEF Linked
  <2>6. c = head + 1 => next'[c] = 0
    BY <1>8
  <2>7. c # head + 1 => next'[c] = next[c]
    BY <1>8, <2>3
  <2>8. IF c <= head + 1 /\ next'[c] # 0
        THEN d = next'[c] /\ d <= head + 1 ELSE c >= head + 1 /\ d = c + 1
    <3>1. CASE c <= frontier /\ next[c] # 0
      <4>1. d = next[c] /\ d <= frontier /\ d \in Nat /\ c # head + 1
        BY <1>3, <1>4, <2>3, <2>5, <3>1
      <4> QED
        BY <1>3, <1>4, <2>3, <2>7, <3>1, <4>1
    <3>2. CASE ~(c <= frontier /\ next[c] # 0)
      <4>1. c >= head + 1 /\ d = c + 1
        BY <1>3, <1>4, <2>3, <2>5, <3>2
      <4> QED
        BY <1>3, <2>3, <2>6, <4>1
    <3> QED
      BY <3>1, <3>2
  <2> QED
    BY <1>1, <2>2, <2>8 DEF Linked
<1>11. ChainIsLinked'
  <2>1. live' \subseteq 1..frontier'
    BY <1>1, <1>2, <1>3, <1>4
  <2>2. chain'[1] <= frontier'
    <3>1. chain'[1] = frontier'
      BY <1>1, <1>6
    <3>2. frontier' \in Nat
      BY <1>3 DEF AllocateFresh
    <3> QED
      BY <3>1, <3>2
  <2> QED
    BY <1>10, <2>1, <2>2 DEF ChainIsLinked
<1>12. AllBlocksCounted'
  BY <1>1, <1>2, CountTaken
<1> QED
  BY <1>7, <1>9, <1>11, <1>12 DEF FreeListInv, FreeListIsSound

LEMMA LinkedInv == FreeListInv /\ AllocateLinked => FreeListInv'
<1> SUFFICES ASSUME FreeListInv, AllocateLinked PROVE FreeListInv'
  OBVIOUS
<1>1. /\ num > 1 /\ num' = num - 1 /\ all' = all /\ live' = live \cup {head}
      /\ head' = next[head] /\ frontier' = frontier /\ next' = next
      /\ chain' = Tail(chain) /\ next[head] # 0 /\ ret' = head
  BY DEF AllocateLinked
<1>2. /\ num \in Nat /\ all \in Nat /\ frontier \in Nat /\ num <= all
      /\ num > 0 /\ num' \in Nat /\ num' > 0
      /\ 1..all \subseteq Blocks /\ live \subseteq 1..frontier /\ live \subseteq 1..all
  BY <1>1, NumbersOfBlocks
<1>3. head = chain[1] /\ head \in Nat /\ head \in 1..all /\ head <= frontier
  BY <1>2, HeadOfChain
\* A link that is followed was written by Free.
<1>4. chain[2] = head' /\ head' <= frontier /\ head' \in 1..all
  <2>1. 1 \in 1..(num - 1) /\ 2 \in 1..num
    BY <1>1, <1>2
  <2>2. Linked(chain[1])
    BY <1>1, <1>3 DEF Linked
  <2>3. chain[1 + 1] = next[chain[1]] /\ chain[1 + 1] <= frontier
    BY <2>1, <2>2 DEF FreeListInv, FreeListIsSound, ChainIsLinked
  <2>4. chain[2] \in 1..all
    BY <2>1, BlockOfChain
  <2> QED
    BY <1>1, <1>3, <2>3, <2>4
<1>5. /\ chain' \in Seq(Blocks)
      /\ \A i \in 1..(num - 1) : chain'[i] = chain[i + 1]
  BY <1>1, <1>2, TailOfChain
<1>6. chain'[1] = head'
  <2>1. 1 \in 1..(num - 1) /\ 1 + 1 = 2
    BY <1>1, <1>2
  <2> QED
    BY <1>4, <1>5, <2>1
<1>7. ChainIsFreeBlocks'
  BY <1>1, <1>2, <1>6, ChainLosesHead
<1>8. TypeOK'
  <2>1. all' \in Blocks /\ num' \in 0..all' /\ next' \in [Blocks -> Words]
    BY <1>1, <1>2 DEF FreeListInv, TypeOK
  <2>2. head' \in 0..all' /\ frontier' \in 1..all' /\ live' \subseteq 1..all'
    <3>1. all' = all /\ frontier' = frontier /\ live' = live \cup {head}
      BY <1>1
    <3>2. frontier \in 1..all
      BY DEF FreeListInv, TypeOK
    <3>3. live' \subseteq 1..all' /\ frontier' \in 1..all'
      BY <1>2, <1>3, <3>1, <3>2
    <3>4. head' \in 0..all'
      BY <1>2, <1>4, <3>1
    <3> QED
      BY <3>3, <3>4
  <2>3. ret' \in Blocks
    BY <1>1, <1>2, <1>3
  <2>4. ret' \in 0..MaxBlocks
    BY BlocksAssumption, <2>3 DEF Blocks
  <2> QED
    BY <1>5, <2>1, <2>2, <2>4 DEF TypeOK
<1>9. ASSUME NEW i \in 1..(num' - 1)
      PROVE  IF Linked(chain[i])'
             THEN chain'[i + 1] = next'[chain'[i]] /\ chain'[i + 1] <= frontier'
             ELSE chain'[i] >= frontier' /\ chain'[i + 1] = chain'[i] + 1
  <2>1. i \in 1..(num - 1) /\ i + 1 \in 1..(num - 1)
    BY <1>1, <1>2
  <2>2. chain'[i] = chain[i + 1] /\ chain'[i + 1] = chain[(i + 1) + 1]
    BY <1>5, <2>1
  <2>3. IF Linked(chain[i + 1])
        THEN /\ chain[(i + 1) + 1] = next[chain[i + 1]]
             /\ chain[(i + 1) + 1] <= frontier
        ELSE /\ chain[i + 1] >= frontier
             /\ chain[(i + 1) + 1] = chain[i + 1] + 1
    BY <2>1 DEF FreeListInv, FreeListIsSound, ChainIsLinked
  <2> QED
    BY <1>1, <2>2, <2>3 DEF Linked
<1>10. ChainIsLinked'
  <2>1. live' \subseteq 1..frontier'
    <3>1. frontier' = frontier /\ live' = live \cup {head}
      BY <1>1
    <3>2. head \in 1..frontier /\ live \subseteq 1..frontier
      BY <1>2, <1>3
    <3> QED
      BY <3>1, <3>2, Zenon
  <2>2. chain'[1] <= frontier'
    BY <1>1, <1>4, <1>6
  <2> QED
    BY <1>9, <2>1, <2>2 DEF ChainIsLinked
<1>11. AllBlocksCounted'
  BY <1>1, <1>2, CountTaken
<1> QED
  BY <1>7, <1>8, <1>10, <1>11 DEF FreeListInv, FreeListIsSound

LEMMA FreeInv == ASSUME NEW b \in live, FreeListInv, Free(b) PROVE FreeListInv'
<1>1. /\ num' = num + 1 /\ all' = all /\ live' = live \ {b}
      /\ head' = b /\ frontier' = frontier /\ ret' = ret
      /\ next' = IF num > 0 THEN [next EXCEPT ![b] = head] ELSE next
      /\ chain' = <<b>> \o chain
  BY DEF Free
<1>2. /\ num \in Nat /\ all \in Nat /\ frontier \in Nat /\ num <= all
      /\ 1..all \subseteq Blocks /\ live \subseteq 1..frontier /\ live \subseteq 1..all
      /\ b \in Blocks /\ b \in Nat /\ b <= frontier /\ b \in 1..all
  BY NumbersOfBlocks
<1>3. /\ chain' \in Seq(Blocks)
      /\ Len(chain') = num + 1
      /\ chain'[1] = b
      /\ \A i \in 2..(num + 1) : chain'[i] = chain[i - 1]
  BY <1>1, <1>2, PushOnChain
<1>4. ChainIsFreeBlocks'
  BY <1>1, ChainGains
<1>5. /\ next' \in [Blocks -> Words]
      /\ num > 0 => next'[b] = head
      /\ \A c \in Blocks : c # b => next'[c] = next[c]
  <2>1. CASE num > 0
    <3>1. head \in Words
      BY BlocksAssumption, <1>2, <2>1, HeadOfChain DEF Words, Blocks
    <3> QED
      BY <1>1, <1>2, <2>1, <3>1 DEF FreeListInv, TypeOK
  <2>2. CASE ~(num > 0)
    BY <1>1, <2>2 DEF FreeListInv, TypeOK
  <2> QED
    BY <2>1, <2>2
<1>6. AllBlocksCounted' /\ num' <= all'
  BY <1>1, CountGiven
<1>7. TypeOK'
  <2>1. all' \in Blocks /\ ret' \in 0..MaxBlocks /\ frontier' \in 1..all'
    BY <1>1 DEF FreeListInv, TypeOK
  <2>2. num' \in 0..all' /\ head' \in 0..all' /\ live' \subseteq 1..all'
    BY <1>1, <1>2, <1>6
  <2> QED
    BY <1>3, <1>5, <2>1, <2>2 DEF TypeOK
<1>8. ASSUME NEW i \in 1..(num' - 1)
      PROVE  IF Linked(chain[i])'
             THEN chain'[i + 1] = next'[chain'[i]] /\ chain'[i + 1] <= frontier'
             ELSE chain'[i] >= frontier' /\ chain'[i + 1] = chain'[i] + 1
  <2>1. i \in Nat /\ i >= 1 /\ i <= num /\ num > 0
    BY <1>1, <1>2
  <2>2. CASE i = 1
    <3>1. 2 \in 2..(num + 1) /\ 2 - 1 = 1 /\ 1 + 1 = 2
      BY <1>2, <2>1
    <3>2. chain'[i] = b /\ chain'[i + 1] = chain[1]
      BY <1>3, <2>2, <3>1
    <3>3. chain[1] = head /\ head <= frontier /\ head \in Nat /\ head \in 1..all
      BY <2>1, HeadOfChain
    <3>4. head # 0
      BY <1>2, <3>3
    <3>5. next'[b] = head
      BY <1>5, <2>1
    <3> QED
      BY <1>1, <1>2, <3>2, <3>3, <3>4, <3>5 DEF Linked
  <2>3. CASE i > 1
    <3>1. /\ i \in 2..(num + 1) /\ i + 1 \in 2..(num + 1) /\ (i + 1) - 1 = i
          /\ i - 1 \in 1..(num - 1) /\ i - 1 \in 1..num /\ (i - 1) + 1 = i
      BY <1>2, <2>1, <2>3
    <3>2. chain'[i] = chain[i - 1] /\ chain'[i + 1] = chain[i]
      BY <1>3, <3>1
    <3>3. IF Linked(chain[i - 1])
          THEN chain[i] = next[chain[i - 1]] /\ chain[i] <= frontier
          ELSE chain[i - 1] >= frontier /\ chain[i] = chain[i - 1] + 1
      BY <3>1 DEF FreeListInv, FreeListIsSound, ChainIsLinked
    <3>4. chain[i - 1] \in Blocks /\ chain[i - 1] # b
      BY <3>1, BlockOfChain
    <3>5. next'[chain[i - 1]] = next[chain[i - 1]]
      BY <1>5, <3>4
    <3> QED
      BY <1>1, <3>2, <3>3, <3>5 DEF Linked
  <2> QED
    BY <2>1, <2>2, <2>3
<1>9. ChainIsLinked'
  <2>1. live' \subseteq 1..frontier' /\ chain'[1] <= frontier'
    BY <1>1, <1>2, <1>3
  <2> QED
    BY <1>8, <2>1 DEF ChainIsLinked
<1> QED
  BY <1>4, <1>6, <1>7, <1>9 DEF FreeListInv, FreeListIsSound

\* Whatever a user writes into a block is not in the free list.
LEMMA UserWriteInv == ASSUME NEW b \in live, FreeListInv, UserWrite(b) PROVE FreeListInv'
<1>1. PICK w \in Words : next' = [next EXCEPT ![b] = w]
  BY DEF UserWrite
<1>2. /\ all' = all /\ num' = num /\ head' = head /\ live' = live /\ ret' = ret
      /\ chain' = chain /\ frontier' = frontier
  BY DEF UserWrite
<1>3. /\ next' \in [Blocks -> Words]
      /\ \A c \in Blocks : c # b => next'[c] = next[c]
  BY <1>1 DEF FreeListInv, TypeOK
<1>4. TypeOK' /\ AllBlocksCounted' /\ ChainIsFreeBlocks'
  BY <1>2, <1>3 DEF FreeListInv, TypeOK, AllBlocksCounted, FreeListIsSound, ChainIsFreeBlocks
<1>5. ASSUME NEW i \in 1..(num - 1)
      PROVE  next'[chain[i]] = next[chain[i]]
  <2>1. i \in 1..num
    BY NumbersOfBlocks
  <2>2. chain[i] \in Blocks /\ chain[i] # b
    BY <2>1, BlockOfChain
  <2> QED
    BY <1>3, <2>2
<1>6. ChainIsLinked'
  BY <1>2, <1>5 DEF FreeListInv, FreeListIsSound, ChainIsLinked, Linked
<1> QED
  BY <1>4, <1>6 DEF FreeListInv, FreeListIsSound

LEMMA ClearInv == FreeListInv /\ Clear => FreeListInv'
<1> SUFFICES ASSUME FreeListInv, Clear PROVE FreeListInv'
  OBVIOUS
<1>1. /\ all \in Blocks /\ all \in Nat /\ 1 \in Blocks /\ 1 \in 1..all
      /\ next \in [Blocks -> Words] /\ 0 \in Words
  BY BlocksAssumption DEF FreeListInv, TypeOK, Blocks, Words
<1>2. next' \in [Blocks -> Words] /\ next'[1] = 0
  BY <1>1 DEF Clear
<1>3. chain' \in Seq(Blocks) /\ FreeListIsSound'
  BY <1>1, <1>2, ChainStartsOver DEF Clear
<1>4. TypeOK'
  BY <1>1, <1>2, <1>3 DEF FreeListInv, TypeOK, Clear
<1>5. AllBlocksCounted'
  BY <1>1, FS_EmptySet DEF Clear, AllBlocksCounted
<1> QED
  BY <1>3, <1>4, <1>5 DEF FreeListInv

\* An unused page has no block handed out.
LEMMA ResetInv == FreeListInv /\ Reset => live = {} /\ FreeListInv'
<1> SUFFICES ASSUME FreeListInv, Reset PROVE live = {} /\ FreeListInv'
  OBVIOUS
<1>1. PICK n \in Blocks : Create(n)
  BY DEF Reset
<1>2. live = {}
  <2>1. num = all /\ all \in Nat
    BY NumbersOfBlocks DEF Reset
  <2>2. Cardinality(live) = 0 /\ IsFiniteSet(live)
    BY <2>1, LiveIsFinite
  <2> QED
    BY <2>2, FS_EmptySet
<1>3. /\ all' = n /\ num' = n /\ head' = 1 /\ live' = {} /\ ret' = ret
      /\ chain' = Run(1, n) /\ frontier' = 1
      /\ next' \in [Blocks -> Words] /\ next'[1] = 0
      /\ n \in Nat /\ 1 \in 1..n
  BY BlocksAssumption, <1>1, <1>2 DEF Reset, Create, Memory, Blocks
<1>4. chain' \in Seq(Blocks) /\ FreeListIsSound'
  BY <1>3, ChainStartsOver
<1>5. TypeOK'
  BY <1>3, <1>4 DEF FreeListInv, TypeOK
<1>6. AllBlocksCounted'
  BY <1>3, FS_EmptySet DEF AllBlocksCounted
<1> QED
  BY <1>2, <1>4, <1>5, <1>6 DEF FreeListInv

LEMMA NextInv == FreeListInv /\ [Next]_vars => FreeListInv'
<1> SUFFICES ASSUME FreeListInv, [Next]_vars PROVE FreeListInv'
  OBVIOUS
<1>1. CASE AllocateNone
  <2>1. /\ num' = num /\ all' = all /\ head' = head /\ next' = next /\ live' = live
        /\ chain' = chain /\ frontier' = frontier /\ ret' = 0 /\ 0 \in 0..MaxBlocks
    BY BlocksAssumption, <1>1 DEF AllocateNone
  <2>2. TypeOK'
    BY <2>1 DEF FreeListInv, TypeOK
  <2>3. AllBlocksCounted' /\ FreeListIsSound'
    BY <2>1 DEF FreeListInv, AllBlocksCounted, FreeListIsSound, ChainIsFreeBlocks,
                ChainIsLinked, Linked
  <2> QED
    BY <2>2, <2>3 DEF FreeListInv
<1>2. CASE AllocateLast
  BY <1>2, LastInv
<1>3. CASE AllocateFresh
  BY <1>3, FreshInv
<1>4. CASE AllocateLinked
  BY <1>4, LinkedInv
<1>5. ASSUME NEW b \in live, Free(b) PROVE FreeListInv'
  BY <1>5, FreeInv
<1>6. ASSUME NEW b \in live, UserWrite(b) PROVE FreeListInv'
  BY <1>6, UserWriteInv
<1>7. CASE Clear
  BY <1>7, ClearInv
<1>8. CASE Reset
  BY <1>8, ResetInv
<1>9. CASE UNCHANGED vars
  BY <1>9 DEF vars, FreeListInv, TypeOK, AllBlocksCounted, FreeListIsSound,
              ChainIsFreeBlocks, ChainIsLinked, Linked
<1> QED
  BY <1>1, <1>2, <1>3, <1>4, <1>5, <1>6, <1>7, <1>8, <1>9 DEF Next, Allocate

\* The invariant holds in every state of every page.
THEOREM FreeListInductive == Spec => []FreeListInv
<1> QED
  BY InitInv, NextInv, PTL DEF Spec

\* The count stays between zero and the number of blocks and the head inside
\* the page (TypeOK), whatever is allocated, freed or written by users.
THEOREM PageTypeCorrect == Spec => []TypeOK
<1>1. FreeListInv => TypeOK
  BY DEF FreeListInv
<1> QED
  BY <1>1, FreeListInductive, PTL

\* Allocate of a page that is not used up returns a block of the page that
\* nobody has (HeadIsFree).
THEOREM NextBlockIsFree == Spec => []HeadIsFree
<1>1. FreeListInv => HeadIsFree
  <2> SUFFICES ASSUME FreeListInv, num > 0 PROVE head \in (1..all) \ live
    BY DEF HeadIsFree
  <2> QED
    BY HeadOfChain
<1> QED
  BY <1>1, FreeListInductive, PTL

\* No block is ever lost: a block is handed out or counted as free
\* (AllBlocksCounted).
THEOREM NoBlockIsLost == Spec => []AllBlocksCounted
<1>1. FreeListInv => AllBlocksCounted
  BY DEF FreeListInv
<1> QED
  BY <1>1, FreeListInductive, PTL

\* All of it together (Inv), for pages of any number of blocks.
THEOREM PageIsSound == Spec => []Inv
<1> QED
  BY PageTypeCorrect, NextBlockIsFree, NoBlockIsLost, PTL DEF Inv

-----------------------------------------------------------------------------
(* The refinement *)

\* When the count is zero every block is handed out, and only then.
LEMMA UsedUp == ASSUME FreeListInv PROVE num = 0 <=> live = 1..all
<1>1. all \in Nat /\ num \in Nat /\ live \subseteq 1..all
  BY NumbersOfBlocks
<1>2. IsFiniteSet(1..all) /\ Cardinality(1..all) = all
  BY <1>1, FS_Interval
<1>3. ASSUME num = 0 PROVE live = 1..all
  <2>1. Cardinality(1..all) = Cardinality(live)
    BY <1>1, <1>2, <1>3, LiveIsFinite
  <2> QED
    BY <1>1, <1>2, <2>1, FS_Subset
<1>4. ASSUME live = 1..all PROVE num = 0
  BY <1>1, <1>2, <1>4, LiveIsFinite
<1> QED
  BY <1>3, <1>4

\* Every step of the free list is a step of the allocator or changes nothing
\* the allocator knows.
LEMMA StepRefines == FreeListInv /\ [Next]_vars => [Alloc!ANext]_(Alloc!avars)
<1> SUFFICES ASSUME FreeListInv, [Next]_vars PROVE Alloc!ANext \/ UNCHANGED Alloc!avars
  OBVIOUS
<1> USE DEF Alloc!avars
<1>1. CASE AllocateNone
  BY <1>1, UsedUp DEF AllocateNone, Alloc!ANext, Alloc!AAllocate
<1>2. ASSUME num > 0, live' = live \cup {head}, ret' = head, all' = all
      PROVE  Alloc!ANext
  BY <1>2, HeadOfChain DEF Alloc!ANext, Alloc!AAllocate
<1>3. CASE AllocateLast
  BY <1>2, <1>3 DEF AllocateLast
<1>4. CASE AllocateFresh
  BY <1>2, <1>4, NumbersOfBlocks DEF AllocateFresh
<1>5. CASE AllocateLinked
  BY <1>2, <1>5, NumbersOfBlocks DEF AllocateLinked
<1>6. ASSUME NEW b \in live, Free(b) PROVE Alloc!ANext
  BY <1>6 DEF Free, Alloc!ANext, Alloc!AFree
<1>7. ASSUME NEW b \in live, UserWrite(b) PROVE UNCHANGED Alloc!avars
  BY <1>7 DEF UserWrite
<1>8. CASE Clear
  BY <1>8, UsedUp DEF Clear, Alloc!ANext, Alloc!AClear
<1>9. CASE Reset
  <2>1. live = {} /\ live' = live /\ ret' = ret
    BY <1>9, ResetInv DEF Reset
  <2>2. all' \in 1..MaxBlocks
    BY <1>9 DEF Reset, Create, Blocks
  <2> QED
    BY <2>1, <2>2 DEF Alloc!ANext, Alloc!AReset
<1>10. CASE UNCHANGED vars
  BY <1>10 DEF vars
<1> QED
  BY <1>1, <1>3, <1>4, <1>5, <1>6, <1>7, <1>8, <1>9, <1>10 DEF Next, Allocate

\* The free list with its lazy links implements the allocator of blocks
\* (ImplementsAllocator), for pages of any number of blocks.
THEOREM PageImplementsAllocator == Spec => ImplementsAllocator
<1>1. Init => Alloc!AInit
  BY DEF Init, Alloc!AInit, Blocks
<1> QED
  BY <1>1, StepRefines, FreeListInductive, PTL DEF Spec, ImplementsAllocator, Alloc!ASpec

-----------------------------------------------------------------------------
(* Integers of any width: no step of the three functions wraps *)

\* UINTAdd adds what it says, and as much as it can.
LEMMA AddIsExact ==
    ASSUME NEW b \in UInt, NEW src \in 0..b, NEW add \in UInt
    PROVE  /\ UINTAdd(src, add, b).by \in 0..add
           /\ UINTAdd(src, add, b).value = src + UINTAdd(src, add, b).by
           /\ src + add <= b => UINTAdd(src, add, b).value = src + add
           /\ src + add > b => UINTAdd(src, add, b).value = b
<1> USE WidthAssumption DEF UInt, Result, Wrap
<1>1. CASE src >= b
  BY <1>1 DEF UINTAdd
<1>2. CASE src < b /\ b < add
  BY <1>2 DEF UINTAdd
<1>3. CASE src < b /\ b >= add /\ src > b - add
  BY <1>3 DEF UINTAdd
<1>4. CASE src < b /\ b >= add /\ src <= b - add
  BY <1>4 DEF UINTAdd
<1> QED BY <1>1, <1>2, <1>3, <1>4

\* UINTSub takes what it says, and never more than there is.
LEMMA SubIsExact ==
    ASSUME NEW b \in UInt, NEW src \in 0..b, NEW sub \in UInt
    PROVE  /\ UINTSub(src, sub, b).by \in 0..src
           /\ UINTSub(src, sub, b).value = src - UINTSub(src, sub, b).by
BY WidthAssumption DEF UInt, Result, Wrap, UINTSub

LEMMA RemainderRange ==
    ASSUME NEW a \in Nat, NEW n \in Nat \ {0}
    PROVE  a % n \in 0..(n - 1)
OBVIOUS

\* The value stays within its bounds and the account is right, whatever is added
\* and taken, for every width.
THEOREM AccountsBalance == UIntSpec => []AccountBalances
<1>1. UIntInit => AccountBalances
  BY WidthAssumption DEF UIntInit, AccountBalances, UInt
<1>2. ASSUME AccountBalances, [UIntNext]_uintvars
      PROVE  AccountBalances'
  <2>1. CASE Add
    <3>1. PICK add \in UInt : /\ value' = UINTAdd(value, add, max).value
                              /\ account' = account + UINTAdd(value, add, max).by
      BY <2>1 DEF Add
    <3>2. max' = max /\ max \in UInt /\ value \in 0..max /\ account = value
      BY <1>2, <2>1 DEF Add, AccountBalances
    <3>3. value' \in 0..max
      BY <3>1, <3>2, AddIsExact DEF UInt
    <3> QED BY <3>1, <3>2, <3>3, AddIsExact DEF AccountBalances
  <2>2. CASE Sub
    <3>1. PICK sub \in UInt : /\ value' = UINTSub(value, sub, max).value
                              /\ account' = account - UINTSub(value, sub, max).by
      BY <2>2 DEF Sub
    <3>2. max' = max /\ max \in UInt /\ value \in 0..max /\ account = value
      BY <1>2, <2>2 DEF Sub, AccountBalances
    <3>3. value' \in 0..max
      BY <3>1, <3>2, SubIsExact DEF UInt
    <3> QED BY <3>1, <3>2, <3>3, SubIsExact DEF AccountBalances
  <2>3. CASE UNCHANGED <<max, value, account>>
    BY <1>2, <2>3 DEF AccountBalances
  <2> QED BY <1>2, <2>1, <2>2, <2>3 DEF UIntNext, Draw, uintvars
<1> QED BY <1>1, <1>2, PTL DEF UIntSpec

\* Random values are in the range asked for.
THEOREM DrawsInRange == UIntSpec => []DrawnInRange
<1> DEFINE Drawn == \E lo, hi, random \in UInt :
                       drawn = [from |-> lo, to |-> hi, got |-> GenRandUINT(lo, hi, random)]
<1>1. Drawn => DrawnInRange
  <2> SUFFICES ASSUME NEW lo \in UInt, NEW hi \in UInt, NEW random \in UInt,
                      drawn = [from |-> lo, to |-> hi, got |-> GenRandUINT(lo, hi, random)]
               PROVE  DrawnInRange
    OBVIOUS
  <2> USE WidthAssumption DEF UInt, Wrap, GenRandUINT, DrawnInRange
  <2>1. CASE lo > hi
    <3>1. random % (lo - hi) \in 0..(lo - hi - 1)
      BY <2>1, RemainderRange
    <3> QED BY <2>1, <3>1
  <2>2. CASE lo = hi
    BY <2>2
  <2>3. CASE lo < hi
    <3>1. random % (hi - lo) \in 0..(hi - lo - 1)
      BY <2>3, RemainderRange
    <3> QED BY <2>3, <3>1
  <2>4. lo > hi \/ lo = hi \/ lo < hi
    BY DEF UInt
  <2> HIDE DEF UInt, Wrap, GenRandUINT, DrawnInRange
  <2> QED BY <2>1, <2>2, <2>3, <2>4
<1>2. UIntInit => Drawn
  <2>1. 0 \in UInt /\ GenRandUINT(0, 0, 0) = 0
    BY WidthAssumption DEF UInt, GenRandUINT
  <2> QED BY <2>1 DEF UIntInit
<1>3. Drawn /\ [UIntNext]_uintvars => Drawn'
  BY DEF UIntNext, Add, Sub, Draw, uintvars
<1> HIDE DEF Drawn
<1> QED BY <1>1, <1>2, <1>3, PTL DEF UIntSpec

-----------------------------------------------------------------------------
(* How often a function has a value: pointers to an object, jobs for it, and  *)
(* the places at which a buffer waits                                         *)

At(f, v) == {x \in DOMAIN f : f[x] = v}
CountOf(f, v) == Cardinality(At(f, v))

LEMMA OneIs == One(TRUE) = 1 /\ One(FALSE) = 0 /\ \A b : One(b) \in {0, 1}
BY DEF One

LEMMA CountType ==
    ASSUME NEW f, IsFiniteSet(DOMAIN f), NEW v
    PROVE  /\ IsFiniteSet(At(f, v)) /\ CountOf(f, v) \in Nat
           /\ CountOf(f, v) = 0 <=> \A x \in DOMAIN f : f[x] # v
<1>1. IsFiniteSet(At(f, v))
  BY FS_Subset DEF At
<1>2. At(f, v) = {} <=> \A x \in DOMAIN f : f[x] # v
  BY DEF At
<1>3. CountOf(f, v) = 0 <=> At(f, v) = {}
  BY <1>1, FS_EmptySet DEF CountOf
<1>4. CountOf(f, v) \in Nat
  BY <1>1, FS_CardinalityType DEF CountOf
<1> QED BY <1>1, <1>2, <1>3, <1>4

\* One more argument adds its value.
LEMMA CountGains ==
    ASSUME NEW f, NEW g, NEW y, IsFiniteSet(DOMAIN f), y \notin DOMAIN f,
           DOMAIN g = DOMAIN f \cup {y}, \A x \in DOMAIN f : g[x] = f[x], NEW v
    PROVE  CountOf(g, v) = CountOf(f, v) + One(g[y] = v)
<1>1. IsFiniteSet(At(f, v)) /\ CountOf(f, v) \in Nat
  BY CountType
<1>2. CASE g[y] = v
  <2>1. At(g, v) = At(f, v) \cup {y} /\ y \notin At(f, v)
    BY <1>2 DEF At
  <2>2. Cardinality(At(f, v) \cup {y}) = Cardinality(At(f, v)) + 1
    BY <1>1, <2>1, FS_AddElement
  <2> QED BY <1>2, <2>1, <2>2, OneIs DEF CountOf
<1>3. CASE g[y] # v
  <2>1. At(g, v) = At(f, v)
    BY <1>3 DEF At
  <2>2. One(g[y] = v) = 0
    BY <1>3 DEF One
  <2> QED BY <1>1, <2>1, <2>2 DEF CountOf
<1> QED BY <1>2, <1>3

\* One argument less takes its value away.
LEMMA CountLoses ==
    ASSUME NEW f, NEW y \in DOMAIN f, IsFiniteSet(DOMAIN f), NEW v
    PROVE  CountOf(Without(f, y), v) = CountOf(f, v) - One(f[y] = v)
<1> DEFINE g == Without(f, y)
<1>1. /\ DOMAIN g = DOMAIN f \ {y} /\ \A x \in DOMAIN g : f[x] = g[x]
  BY DEF Without, Restrict
<1>2. IsFiniteSet(DOMAIN g)
  BY <1>1, FS_RemoveElement
<1> HIDE DEF g
<1>3. DOMAIN f = DOMAIN g \cup {y} /\ y \notin DOMAIN g /\ \A x \in DOMAIN g : f[x] = g[x]
  BY <1>1
<1>4. CountOf(f, v) = CountOf(g, v) + One(f[y] = v)
  BY ONLY <1>2, <1>3, CountGains
<1>5. CountOf(g, v) \in Nat /\ One(f[y] = v) \in {0, 1}
  BY <1>2, CountType, OneIs
<1> QED BY <1>4, <1>5 DEF g

\* A new value in the place of an old one.
LEMMA CountChanges ==
    ASSUME NEW f, NEW y \in DOMAIN f, IsFiniteSet(DOMAIN f), NEW w, NEW v
    PROVE  CountOf([f EXCEPT ![y] = w], v) = CountOf(f, v) - One(f[y] = v) + One(w = v)
<1> DEFINE g == [f EXCEPT ![y] = w]
           h == Without(f, y)
<1>1. /\ DOMAIN h = DOMAIN f \ {y} /\ \A x \in DOMAIN h : f[x] = h[x]
      /\ DOMAIN g = DOMAIN f /\ g[y] = w /\ \A x \in DOMAIN h : g[x] = h[x]
  BY DEF Without, Restrict
<1>2. IsFiniteSet(DOMAIN h)
  BY <1>1, FS_RemoveElement
<1>3. CountOf(h, v) = CountOf(f, v) - One(f[y] = v)
  BY CountLoses
<1> HIDE DEF g, h
<1>4. DOMAIN g = DOMAIN h \cup {y} /\ y \notin DOMAIN h
  BY <1>1
<1>5. CountOf(g, v) = CountOf(h, v) + One(w = v)
  BY <1>1, <1>2, <1>4, CountGains
<1> QED BY <1>3, <1>5 DEF g

LEMMA SeqIs ==
    ASSUME NEW S, NEW s \in Seq(S)
    PROVE  Len(s) \in Nat /\ DOMAIN s = 1..Len(s) /\ IsFiniteSet(DOMAIN s)
<1>1. Len(s) \in Nat /\ DOMAIN s = 1..Len(s)
  BY LenProperties
<1> QED BY <1>1, FS_Interval

LEMMA CountAppend ==
    ASSUME NEW S, NEW s \in Seq(S), NEW e \in S, NEW v
    PROVE  CountOf(Append(s, e), v) = CountOf(s, v) + One(e = v)
<1> DEFINE g == Append(s, e)
<1>1. Len(s) \in Nat /\ DOMAIN s = 1..Len(s) /\ IsFiniteSet(DOMAIN s)
  BY SeqIs
<1>2. /\ DOMAIN g = 1..(Len(s) + 1) /\ g[Len(s) + 1] = e
      /\ \A i \in 1..Len(s) : g[i] = s[i]
  BY AppendProperties, LenProperties
<1> HIDE DEF g
<1> DEFINE n == Len(s) + 1
<1>3. /\ IsFiniteSet(DOMAIN s) /\ n \notin DOMAIN s
      /\ DOMAIN g = DOMAIN s \cup {n} /\ \A i \in DOMAIN s : g[i] = s[i]
  BY <1>1, <1>2
<1> HIDE DEF n
<1>4. CountOf(g, v) = CountOf(s, v) + One(g[n] = v)
  BY ONLY <1>3, CountGains
<1> QED BY <1>2, <1>4 DEF g, n

LEMMA CountTail ==
    ASSUME NEW S, NEW s \in Seq(S), s # <<>>, NEW v
    PROVE  CountOf(Tail(s), v) = CountOf(s, v) - One(Head(s) = v)
<1>1. /\ Tail(s) \in Seq(S) /\ Len(Tail(s)) = Len(s) - 1
      /\ \A i \in 1..Len(Tail(s)) : Tail(s)[i] = s[i + 1]
      /\ Head(s) = s[1]
  BY HeadTailProperties
<1>2. /\ Len(s) \in Nat \ {0} /\ DOMAIN s = 1..Len(s)
      /\ DOMAIN Tail(s) = 1..(Len(s) - 1)
      /\ IsFiniteSet(DOMAIN s) /\ IsFiniteSet(DOMAIN Tail(s))
  <2>1. Len(s) # 0
    BY EmptySeq
  <2>2. Len(s) \in Nat /\ DOMAIN s = 1..Len(s) /\ IsFiniteSet(DOMAIN s)
    BY SeqIs
  <2>3. DOMAIN Tail(s) = 1..Len(Tail(s)) /\ IsFiniteSet(DOMAIN Tail(s))
    BY <1>1, SeqIs
  <2> QED BY <1>1, <2>1, <2>2, <2>3
<1> DEFINE A == At(Tail(s), v)
           B == At(s, v) \ {1}
           f == [i \in A |-> i + 1]
<1>3. f \in Bijection(A, B)
  <2>1. \A i \in A : i + 1 \in B
    BY <1>1, <1>2 DEF At
  <2>2. \A j \in B : j - 1 \in A /\ (j - 1) + 1 = j
    BY <1>1, <1>2 DEF At
  <2>3. \A i, j \in A : f[i] = f[j] => i = j
    BY <1>2 DEF At
  <2>4. f \in [A -> B] /\ \A j \in B : \E i \in A : f[i] = j
    BY <2>1, <2>2
  <2> QED BY <2>3, <2>4 DEF Bijection, Injection, Surjection, IsInjective
<1>4. IsFiniteSet(A) /\ IsFiniteSet(At(s, v))
  BY <1>2, CountType
<1>5. Cardinality(B) = Cardinality(A)
  <2>1. ExistsBijection(A, B)
    BY <1>3 DEF ExistsBijection
  <2> HIDE DEF A, B
  <2> QED BY <1>4, <2>1, FS_Bijection
<1>6. 1 \in At(s, v) <=> Head(s) = v
  BY <1>1, <1>2 DEF At
<1>7. Cardinality(B) = Cardinality(At(s, v)) - One(Head(s) = v)
  <2>1. CASE Head(s) = v
    BY <1>4, <1>6, <2>1, FS_RemoveElement DEF One
  <2>2. CASE Head(s) # v
    <3>1. B = At(s, v)
      BY <1>6, <2>2
    <3>2. Cardinality(B) \in Nat
      BY <1>4, <3>1, FS_CardinalityType
    <3>3. One(Head(s) = v) = 0
      BY <2>2 DEF One
    <3> HIDE DEF B
    <3> QED BY <3>1, <3>2, <3>3
  <2> QED BY <2>1, <2>2
<1> QED BY <1>5, <1>7 DEF CountOf

LEMMA CountNone == \A v : CountOf(<<>>, v) = 0
<1>1. DOMAIN <<>> = {}
  BY EmptySeq
<1>2. \A v : At(<<>>, v) = {}
  BY <1>1 DEF At
<1> QED BY <1>2, FS_EmptySet DEF CountOf

LEMMA CountOne ==
    ASSUME NEW S, NEW a \in S
    PROVE  /\ <<a>> \in Seq(S) /\ DOMAIN <<a>> = {1} /\ <<a>>[1] = a
           /\ \A v : CountOf(<<a>>, v) = One(a = v)
<1> DEFINE s == <<a>>
<1>1. s \in Seq(S) /\ DOMAIN s = {1} /\ s[1] = a
  OBVIOUS
<1> HIDE DEF s
<1>2. ASSUME NEW v PROVE CountOf(s, v) = One(a = v)
  <2>1. CASE a = v
    <3>1. At(s, v) = {1}
      BY <1>1, <2>1 DEF At
    <3> QED BY <2>1, <3>1, FS_Singleton DEF CountOf, One
  <2>2. CASE a # v
    <3>1. At(s, v) = {}
      BY <1>1, <2>2 DEF At
    <3> QED BY <2>2, <3>1, FS_EmptySet DEF CountOf, One
  <2> QED BY <2>1, <2>2
<1> QED BY <1>1, <1>2 DEF s

LEMMA CountCons ==
    ASSUME NEW S, NEW a \in S, NEW t \in Seq(S)
    PROVE  /\ <<a>> \o t \in Seq(S) /\ DOMAIN (<<a>> \o t) = 1..(Len(t) + 1)
           /\ (<<a>> \o t)[1] = a
           /\ \A i \in 2..(Len(t) + 1) : (<<a>> \o t)[i] = t[i - 1]
           /\ \A v : CountOf(<<a>> \o t, v) = CountOf(t, v) + One(a = v)
<1> DEFINE s == <<a>> \o t
<1>1. <<a>> \in Seq(S) /\ Len(<<a>>) = 1 /\ <<a>>[1] = a
  OBVIOUS
<1>2. Len(t) \in Nat /\ IsFiniteSet(DOMAIN t) /\ DOMAIN t = 1..Len(t)
  BY SeqIs
<1>3. /\ s \in Seq(S) /\ Len(s) = Len(t) + 1
      /\ \A i \in 1..(Len(t) + 1) : s[i] = IF i <= 1 THEN <<a>>[i] ELSE t[i - 1]
  BY <1>1, <1>2, ConcatProperties
<1>4. DOMAIN s = 1..(Len(t) + 1) /\ s[1] = a /\ \A i \in 2..(Len(t) + 1) : s[i] = t[i - 1]
  <2>1. DOMAIN s = 1..(Len(t) + 1)
    BY <1>3, SeqIs
  <2> HIDE DEF s
  <2> QED BY <1>1, <1>2, <1>3, <2>1
<1> HIDE DEF s
<1>5. s # <<>> /\ Head(s) = a
  <2>1. s # <<>>
    BY <1>2, <1>3, EmptySeq
  <2> QED BY <1>3, <1>4, <2>1, HeadTailProperties
<1>6. Tail(s) = t
  <2>1. Tail(s) \in Seq(S) /\ Len(Tail(s)) = Len(t) /\ \A i \in 1..Len(Tail(s)) : Tail(s)[i] = s[i + 1]
    BY <1>2, <1>3, <1>5, HeadTailProperties
  <2>2. \A i \in 1..Len(t) : Tail(s)[i] = t[i]
    BY <1>2, <1>4, <2>1
  <2> QED BY <1>2, <2>1, <2>2, SeqEqual
<1>7. ASSUME NEW v PROVE CountOf(s, v) = CountOf(t, v) + One(a = v)
  <2>1. CountOf(t, v) = CountOf(s, v) - One(a = v)
    <3>1. CountOf(Tail(s), v) = CountOf(s, v) - One(Head(s) = v)
      BY <1>3, <1>5, CountTail
    <3> QED BY <1>5, <1>6, <3>1
  <2>2. CountOf(s, v) \in Nat
    BY <1>3, SeqIs, CountType
  <2>3. One(a = v) \in Nat
    BY DEF One
  <2> DEFINE o == One(a = v)
  <2> HIDE DEF o
  <2> QED BY <2>1, <2>2, <2>3 DEF o
<1> QED BY <1>3, <1>4, <1>7 DEF s

-----------------------------------------------------------------------------
(* The pointers.  What is still to do makes up for the difference between the  *)
(* counts and the holders, a Retain comes before everything else that is to    *)
(* do, and what is alive is counted.                                           *)

PtrOp(op, o) == [op |-> op, of |-> o]
PtrOps == [op : {"retain", "release"}, of : Objects]

HeldBy(o) == One(o \in creators) + CountOf(local, o) + CountOf(member, o)

PtrTypes ==
    /\ mref \in [Objects -> Nat]
    /\ made \subseteq Objects /\ gone \subseteq made
    /\ local \in [DOMAIN local -> Objects \cup {Null}] /\ DOMAIN local \subseteq Locals
    /\ member \in [Alive -> Objects \cup {Null}]
    /\ todo \in Seq(PtrOps)

PtrBalanced ==
    \A o \in Objects : mref[o] + CountOf(todo, PtrOp("retain", o))
                         = HeldBy(o) + CountOf(todo, PtrOp("release", o))

AliveIsCounted == \A o \in Objects : o \in Alive <=> mref[o] # 0
RetainsFirst == \A i \in DOMAIN todo : todo[i].op = "retain" => i = 1
ToDoIsAlive == \A i \in DOMAIN todo : todo[i].of \in Alive

ReachIsAlive ==
    /\ creators \subseteq Alive
    /\ \A l \in DOMAIN local : local[l] \in Alive \cup {Null}
    /\ \A m \in DOMAIN member : member[m] \in Alive \cup {Null}

PtrAll ==
    /\ PtrTypes /\ PtrBalanced /\ AliveIsCounted
    /\ RetainsFirst /\ ToDoIsAlive /\ ReachIsAlive

LEMMA PtrFinite ==
    ASSUME PtrTypes
    PROVE  /\ IsFiniteSet(DOMAIN local) /\ IsFiniteSet(DOMAIN member) /\ IsFiniteSet(DOMAIN todo)
           /\ \A v : CountOf(local, v) \in Nat /\ CountOf(member, v) \in Nat /\ CountOf(todo, v) \in Nat
<1>1. IsFiniteSet(DOMAIN local)
  BY ObjectsAssumption, FS_Subset DEF PtrTypes
<1>2. IsFiniteSet(DOMAIN member)
  <2>1. DOMAIN member \subseteq Objects
    BY DEF PtrTypes, Alive
  <2> QED BY <2>1, ObjectsAssumption, FS_Subset
<1>3. IsFiniteSet(DOMAIN todo)
  BY SeqIs DEF PtrTypes
<1> QED BY <1>1, <1>2, <1>3, CountType

\* What the invariant says of the property that is checked.
LEMMA PtrAllHolds == PtrAll => HeldExactly
<1> SUFFICES ASSUME PtrAll PROVE HeldExactly
  OBVIOUS
<1>1. \A v : CountOf(local, v) \in Nat /\ CountOf(member, v) \in Nat /\ CountOf(todo, v) \in Nat
  BY PtrFinite DEF PtrAll
<1>2. \A o \in Objects : /\ Pointers(o) = CountOf(local, o) + CountOf(member, o)
                         /\ ToDo("retain", o) = CountOf(todo, PtrOp("retain", o))
                         /\ ToDo("release", o) = CountOf(todo, PtrOp("release", o))
  BY DEF Pointers, ToDo, CountOf, At, PtrOp
<1>3. RefsBalanced
  <2>1. ASSUME NEW o \in Objects
        PROVE  mref[o] + ToDo("retain", o)
                 = (IF o \in creators THEN 1 ELSE 0) + Pointers(o) + ToDo("release", o)
    <3> DEFINE a == CountOf(local, o)
               b == CountOf(member, o)
               c == IF o \in creators THEN 1 ELSE 0
    <3>1. mref[o] + ToDo("retain", o) = c + a + b + ToDo("release", o)
      BY <1>2 DEF PtrAll, PtrBalanced, HeldBy, One
    <3>2. Pointers(o) = a + b /\ c \in Nat /\ a \in Nat /\ b \in Nat /\ ToDo("release", o) \in Nat
      BY <1>1, <1>2
    <3> HIDE DEF a, b, c
    <3>3. c + a + b + ToDo("release", o) = c + Pointers(o) + ToDo("release", o)
      BY <3>2
    <3> QED BY <3>1, <3>3 DEF c
  <2> QED BY <2>1 DEF RefsBalanced
<1>4. HeldIsAlive
  BY DEF PtrAll, ToDoIsAlive, ReachIsAlive, HeldIsAlive, InReach
<1>5. UnheldIsDestroyed
  <2> SUFFICES ASSUME todo = <<>>, NEW o \in made \ creators, Pointers(o) = 0
               PROVE  o \in gone
    BY DEF UnheldIsDestroyed
  <2>1. o \in Objects /\ mref[o] \in Nat
    BY DEF PtrAll, PtrTypes
  <2>2. ToDo("retain", o) = 0 /\ ToDo("release", o) = 0
    BY <1>2, <2>1, CountNone
  <2>3. mref[o] = 0
    BY <1>3, <2>1, <2>2 DEF RefsBalanced
  <2> QED BY <2>1, <2>3 DEF PtrAll, AliveIsCounted, Alive
<1> QED BY <1>3, <1>4, <1>5 DEF HeldExactly

LEMMA RetainIs ==
    ASSUME NEW p \in Objects \cup {Null}
    PROVE  /\ Retain(p) \in Seq(PtrOps) /\ Release(p) \in Seq(PtrOps)
           /\ Retain(Null) = <<>> /\ Release(Null) = <<>>
           /\ Retain(Null) \o Release(p) = Release(p) /\ Retain(p) \o Release(Null) = Retain(p)
<1>1. p # Null => PtrOp("retain", p) \in PtrOps /\ PtrOp("release", p) \in PtrOps
  BY DEF PtrOp, PtrOps
<1>2. /\ p # Null => Retain(p) = <<PtrOp("retain", p)>> /\ Release(p) = <<PtrOp("release", p)>>
      /\ p = Null => Retain(p) = <<>> /\ Release(p) = <<>>
      /\ Retain(Null) = <<>> /\ Release(Null) = <<>>
  BY DEF Retain, Release, PtrOp
<1>3. Retain(p) \in Seq(PtrOps) /\ Release(p) \in Seq(PtrOps)
  <2> DEFINE a == PtrOp("retain", p)
             b == PtrOp("release", p)
  <2> HIDE DEF a, b
  <2>1. p # Null => a \in PtrOps /\ b \in PtrOps /\ Retain(p) = <<a>> /\ Release(p) = <<b>>
    BY <1>1, <1>2 DEF a, b
  <2>2. CASE p = Null
    BY <1>2, <2>2
  <2>3. CASE p # Null
    <3>1. a \in PtrOps /\ b \in PtrOps
      BY <2>1, <2>3
    <3>2. <<a>> \in Seq(PtrOps) /\ <<b>> \in Seq(PtrOps)
      BY <3>1, CountOne
    <3> QED BY <2>1, <2>3, <3>2
  <2> QED BY <2>2, <2>3
<1> QED BY <1>2, <1>3, ConcatEmptySeq

\* What an operation leaves to do: at most one Retain, and then at most one Release.
LEMMA ToDoCounts ==
    ASSUME NEW p \in Objects \cup {Null}, NEW q \in Objects \cup {Null}
    PROVE  /\ Retain(p) \o Release(q) \in Seq(PtrOps)
           /\ \A o \in Objects :
                  /\ CountOf(Retain(p) \o Release(q), PtrOp("retain", o)) = One(p = o)
                  /\ CountOf(Retain(p) \o Release(q), PtrOp("release", o)) = One(q = o)
           /\ \A i \in DOMAIN (Retain(p) \o Release(q)) :
                  /\ (Retain(p) \o Release(q))[i].op = "retain" => i = 1
                  /\ (Retain(p) \o Release(q))[i].of \in {p, q}
                  /\ (Retain(p) \o Release(q))[i].of \in Objects
<1> DEFINE s == Retain(p) \o Release(q)
<1>s. s = Retain(p) \o Release(q)
  OBVIOUS
<1> HIDE DEF s
<1> SUFFICES /\ s \in Seq(PtrOps)
             /\ \A o \in Objects : /\ CountOf(s, PtrOp("retain", o)) = One(p = o)
                                   /\ CountOf(s, PtrOp("release", o)) = One(q = o)
             /\ \A i \in DOMAIN s : /\ s[i].op = "retain" => i = 1
                                    /\ s[i].of \in {p, q} /\ s[i].of \in Objects
  BY DEF s
<1> DEFINE a == PtrOp("retain", p)
           b == PtrOp("release", q)
<1>1. /\ p # Null => a \in PtrOps
      /\ q # Null => b \in PtrOps
      /\ \A o \in Objects : /\ (a = PtrOp("retain", o)) <=> (p = o)
                            /\ (b = PtrOp("release", o)) <=> (q = o)
                            /\ a # PtrOp("release", o)
                            /\ b # PtrOp("retain", o)
  BY DEF PtrOp, PtrOps
<1>2. /\ \A o \in Objects : (p = Null => One(p = o) = 0) /\ (q = Null => One(q = o) = 0)
      /\ \A o \in Objects : One(a = PtrOp("retain", o)) = One(p = o) /\ One(a = PtrOp("release", o)) = 0
      /\ \A o \in Objects : One(b = PtrOp("release", o)) = One(q = o) /\ One(b = PtrOp("retain", o)) = 0
      /\ \A o \in Objects : One(p = o) \in Nat /\ One(q = o) \in Nat
  BY <1>1, NullAssumption DEF One
<1>3. a.op = "retain" /\ a.of = p /\ b.op = "release" /\ b.of = q
  BY DEF PtrOp
<1> DEFINE t == Release(q)
<1>4. t \in Seq(PtrOps) /\ s \in Seq(PtrOps)
  <2>1. <<a>> \in Seq(PtrOps) \/ p = Null
    BY <1>1
  <2>2. <<b>> \in Seq(PtrOps) \/ q = Null
    BY <1>1
  <2>3. Retain(p) \in Seq(PtrOps) /\ t \in Seq(PtrOps)
    BY <2>1, <2>2 DEF Retain, Release, PtrOp
  <2> QED BY <1>s, <2>3, ConcatProperties
<1>5. /\ \A i \in DOMAIN t : t[i] = b /\ q # Null
      /\ \A o \in Objects : /\ CountOf(t, PtrOp("retain", o)) = 0
                            /\ CountOf(t, PtrOp("release", o)) = One(q = o)
  <2>1. CASE q = Null
    <3>1. t = <<>> /\ DOMAIN t = {}
      BY <2>1, EmptySeq DEF Release
    <3>2. \A v : CountOf(t, v) = 0
      BY <3>1, CountNone
    <3> QED BY <1>2, <2>1, <3>1, <3>2
  <2>2. CASE q # Null
    <3>1. t = <<b>> /\ b \in PtrOps
      BY <1>1, <2>2 DEF Release, PtrOp
    <3> HIDE DEF b, t
    <3>2. DOMAIN t = {1} /\ t[1] = b /\ \A v : CountOf(t, v) = One(b = v)
      BY <3>1, CountOne
    <3>3. \A o \in Objects : /\ CountOf(t, PtrOp("retain", o)) = One(b = PtrOp("retain", o))
                             /\ CountOf(t, PtrOp("release", o)) = One(b = PtrOp("release", o))
      BY <3>2
    <3> QED BY <1>2, <2>2, <3>2, <3>3
  <2> QED BY <2>1, <2>2
<1>6. CASE p = Null
  <2>1. s = t
    BY <1>s, <1>4, <1>6, ConcatEmptySeq DEF Retain
  <2> HIDE DEF a, b, t
  <2>2. \A i \in DOMAIN s : s[i].op = "release" /\ s[i].of = q /\ q \in Objects
    BY <1>3, <1>5, <2>1
  <2>3. ASSUME NEW o \in Objects
        PROVE  /\ CountOf(s, PtrOp("retain", o)) = One(p = o)
               /\ CountOf(s, PtrOp("release", o)) = One(q = o)
    <3>1. One(p = o) = 0
      BY <1>6, NullAssumption DEF One
    <3> QED BY <1>5, <2>1, <3>1
  <2> QED BY <1>4, <2>2, <2>3
<1>7. CASE p # Null
  <2>1. s = <<a>> \o t /\ a \in PtrOps
    BY <1>s, <1>1, <1>7 DEF Retain, PtrOp
  <2>2. Len(t) \in Nat /\ DOMAIN t = 1..Len(t)
    BY <1>4, SeqIs
  <2> HIDE DEF a, b, t
  <2>3. /\ DOMAIN s = 1..(Len(t) + 1) /\ s[1] = a
        /\ \A i \in 2..(Len(t) + 1) : s[i] = t[i - 1]
        /\ \A v : CountOf(s, v) = CountOf(t, v) + One(a = v)
    BY <1>4, <2>1, CountCons
  <2>4. ASSUME NEW i \in DOMAIN s
        PROVE  /\ s[i].op = "retain" => i = 1
               /\ s[i].of \in {p, q} /\ s[i].of \in Objects
    <3>1. CASE i = 1
      BY <1>3, <1>7, <2>3, <3>1
    <3>2. CASE i # 1
      <4>1. i \in 2..(Len(t) + 1) /\ i - 1 \in DOMAIN t
        BY <2>2, <2>3, <3>2
      <4>2. s[i] = b /\ q # Null
        BY <1>5, <2>3, <4>1
      <4> QED BY <1>3, <4>2
    <3> QED BY <3>1, <3>2
  <2>5. ASSUME NEW o \in Objects
        PROVE  /\ CountOf(s, PtrOp("retain", o)) = One(p = o)
               /\ CountOf(s, PtrOp("release", o)) = One(q = o)
    <3> DEFINE x == One(p = o)
               y == One(q = o)
    <3>1. /\ CountOf(s, PtrOp("retain", o)) = 0 + One(a = PtrOp("retain", o))
          /\ CountOf(s, PtrOp("release", o)) = y + One(a = PtrOp("release", o))
      BY <1>5, <2>3
    <3>2. /\ One(a = PtrOp("retain", o)) = x /\ One(a = PtrOp("release", o)) = 0
          /\ x \in Nat /\ y \in Nat
      BY <1>2
    <3> HIDE DEF x, y
    <3>3. CountOf(s, PtrOp("retain", o)) = x /\ CountOf(s, PtrOp("release", o)) = y
      BY <3>1, <3>2
    <3> QED BY <3>3 DEF x, y
  <2> QED BY <1>3, <1>4, <1>7, <2>4, <2>5
<1> QED BY <1>6, <1>7

\* What the steps of the users have in common: they change who holds what, and
\* leave a Retain of what is held now and a Release of what was.
LEMMA UserPtrStep ==
    ASSUME PtrAll, todo = <<>>, PtrTypes', ReachIsAlive',
           UNCHANGED <<mref, made, gone>>,
           NEW p \in Alive \cup {Null}, NEW q \in Alive \cup {Null},
           todo' = Retain(p) \o Release(q),
           \A o \in Objects : HeldBy(o)' + One(q = o) = HeldBy(o) + One(p = o)
    PROVE  PtrAll'
<1>1. Alive' = Alive /\ Alive \subseteq Objects
  BY DEF Alive, PtrAll, PtrTypes
<1>2. p \in Objects \cup {Null} /\ q \in Objects \cup {Null}
  BY <1>1
<1>3. /\ \A o \in Objects : /\ CountOf(todo', PtrOp("retain", o)) = One(p = o)
                            /\ CountOf(todo', PtrOp("release", o)) = One(q = o)
      /\ \A i \in DOMAIN todo' : /\ todo'[i].op = "retain" => i = 1
                                 /\ todo'[i].of \in {p, q} /\ todo'[i].of \in Objects
  <2> DEFINE s == Retain(p) \o Release(q)
  <2> HIDE DEF s
  <2>1. /\ \A o \in Objects : /\ CountOf(s, PtrOp("retain", o)) = One(p = o)
                              /\ CountOf(s, PtrOp("release", o)) = One(q = o)
        /\ \A i \in DOMAIN s : /\ s[i].op = "retain" => i = 1
                               /\ s[i].of \in {p, q} /\ s[i].of \in Objects
    <3>1. \A i \in DOMAIN s : /\ s[i].op = "retain" => i = 1
                             /\ s[i].of \in {p, q} /\ s[i].of \in Objects
      BY <1>2, ToDoCounts DEF s
    <3>2. ASSUME NEW o \in Objects
          PROVE  /\ CountOf(s, PtrOp("retain", o)) = One(p = o)
                 /\ CountOf(s, PtrOp("release", o)) = One(q = o)
      BY <1>2, ToDoCounts DEF s
    <3> QED BY <3>1, <3>2
  <2>2. todo' = s
    BY DEF s
  <2> QED BY ONLY <2>1, <2>2
<1>4. PtrBalanced'
  <2> SUFFICES ASSUME NEW o \in Objects
               PROVE  mref'[o] + CountOf(todo', PtrOp("retain", o))
                        = HeldBy(o)' + CountOf(todo', PtrOp("release", o))
    BY DEF PtrBalanced
  <2>1. mref'[o] = HeldBy(o)
    <3>1. mref[o] + 0 = HeldBy(o) + 0
      BY CountNone DEF PtrAll, PtrBalanced
    <3>2. HeldBy(o) \in Nat /\ mref[o] \in Nat
      <4>1. CountOf(local, o) \in Nat /\ CountOf(member, o) \in Nat /\ One(o \in creators) \in Nat
        BY PtrFinite DEF PtrAll, One
      <4> QED BY <4>1 DEF HeldBy, PtrAll, PtrTypes
    <3> QED BY <3>1, <3>2
  <2>2. HeldBy(o)' + One(q = o) = HeldBy(o) + One(p = o)
    OBVIOUS
  <2>3. CountOf(todo', PtrOp("retain", o)) = One(p = o) /\ CountOf(todo', PtrOp("release", o)) = One(q = o)
    BY <1>3
  <2> QED BY ONLY <2>1, <2>2, <2>3
<1>5. AliveIsCounted'
  BY <1>1 DEF PtrAll, AliveIsCounted
<1>6. RetainsFirst'
  BY <1>3 DEF RetainsFirst
<1>7. ToDoIsAlive'
  <2>1. \A i \in DOMAIN todo' : todo'[i].of \in Alive
    BY <1>3, NullAssumption
  <2> QED BY <1>1, <2>1 DEF ToDoIsAlive
<1> QED BY <1>4, <1>5, <1>6, <1>7 DEF PtrAll

\* What is in reach is alive, and so it is an object.
LEMMA ReachAlive ==
    ASSUME PtrAll
    PROVE  InReach \subseteq Alive /\ Alive \subseteq Objects
BY DEF PtrAll, ReachIsAlive, InReach, Alive, PtrTypes

LEMMA MakeStep ==
    ASSUME PtrAll, NEW o \in Objects, Make(o)
    PROVE  PtrAll'
<1>1. /\ todo = <<>> /\ o \notin made /\ made' = made \cup {o} /\ creators' = creators \cup {o}
      /\ mref' = [mref EXCEPT ![o] = 1] /\ member' = With(member, o, Null)
      /\ UNCHANGED <<gone, local, todo>>
  BY DEF Make
<1>2. o \notin Alive /\ Alive' = Alive \cup {o} /\ Alive \subseteq Objects /\ o \notin creators
  BY <1>1 DEF PtrAll, PtrTypes, ReachIsAlive, Alive
<1>3. /\ member \in [Alive -> Objects \cup {Null}]
      /\ member' \in [Alive \cup {o} -> Objects \cup {Null}] /\ member'[o] = Null
      /\ \A m \in Alive : member'[m] = member[m]
  <2>1. member \in [Alive -> Objects \cup {Null}]
    BY DEF PtrAll, PtrTypes
  <2>2. Null \in Objects \cup {Null} /\ o \notin Alive
    BY <1>2
  <2> DEFINE g == With(member, o, Null)
  <2>3. /\ g \in [Alive \cup {o} -> Objects \cup {Null}] /\ g[o] = Null
        /\ \A m \in Alive : g[m] = member[m]
    BY ONLY <2>1, <2>2 DEF With
  <2> HIDE DEF g
  <2> QED BY <1>1, <2>1, <2>3 DEF g
<1>4. PtrTypes'
  <2>1. member' \in [Alive' -> Objects \cup {Null}]
    BY <1>2, <1>3
  <2> QED BY <1>1, <2>1 DEF PtrAll, PtrTypes
<1>5. AliveIsCounted'
  BY <1>1, <1>2 DEF PtrAll, PtrTypes, AliveIsCounted
<1>6. PtrBalanced'
  <2> SUFFICES ASSUME NEW x \in Objects
               PROVE  mref'[x] + CountOf(todo', PtrOp("retain", x))
                        = HeldBy(x)' + CountOf(todo', PtrOp("release", x))
    BY DEF PtrBalanced
  <2>1. CountOf(todo', PtrOp("retain", x)) = 0 /\ CountOf(todo', PtrOp("release", x)) = 0
    BY <1>1, CountNone
  <2>2. mref[x] + 0 = HeldBy(x) + 0
    BY <1>1, CountNone DEF PtrAll, PtrBalanced
  <2>3. mref[x] \in Nat /\ HeldBy(x) \in Nat
    BY PtrFinite DEF PtrAll, PtrTypes, HeldBy, One
  <2>4. CountOf(member', x) = CountOf(member, x)
    <3>1. CountOf(member', x) = CountOf(member, x) + One(member'[o] = x)
      BY <1>2, <1>3, PtrFinite, CountGains DEF PtrAll
    <3>2. One(member'[o] = x) = 0 /\ CountOf(member, x) \in Nat
      BY <1>3, NullAssumption, PtrFinite DEF One, PtrAll
    <3> QED BY <3>1, <3>2
  <2>5. mref'[x] = HeldBy(x)' /\ HeldBy(x)' \in Nat
    <3>1. local' = local
      BY <1>1
    <3>2. CASE x = o
      <4>1. mref[o] = 0 /\ mref'[o] = 1
        BY <1>1, <1>2 DEF PtrAll, PtrTypes, AliveIsCounted
      <4>2. One(o \in creators) = 0 /\ One(o \in creators') = 1
        BY <1>1, <1>2 DEF One
      <4>3. HeldBy(o) = 0 + CountOf(local, o) + CountOf(member, o)
        BY <4>2 DEF HeldBy
      <4>4. HeldBy(o)' = 1 + CountOf(local, o) + CountOf(member, o)
        BY <2>4, <3>1, <3>2, <4>2 DEF HeldBy
      <4>5. CountOf(local, o) \in Nat /\ CountOf(member, o) \in Nat
        BY PtrFinite DEF PtrAll
      <4> DEFINE a == CountOf(local, o)
                 b == CountOf(member, o)
      <4> HIDE DEF a, b
      <4>6. 0 + 0 = 0 + a + b /\ a \in Nat /\ b \in Nat
        BY <2>2, <3>2, <4>1, <4>3, <4>5 DEF a, b
      <4>7. a = 0 /\ b = 0
        BY <4>6
      <4> QED BY <3>2, <4>1, <4>4, <4>7 DEF a, b
    <3>3. CASE x # o
      <4>1. mref'[x] = mref[x] /\ (x \in creators' <=> x \in creators)
        BY <1>1, <3>3 DEF PtrAll, PtrTypes
      <4>2. One(x \in creators') = One(x \in creators)
        BY <4>1 DEF One
      <4>3. HeldBy(x)' = HeldBy(x)
        BY <2>4, <3>1, <4>2 DEF HeldBy
      <4> QED BY <2>2, <2>3, <4>1, <4>3
    <3> QED BY <3>2, <3>3
  <2> QED BY <2>1, <2>5
<1>7. RetainsFirst'
  BY <1>1 DEF PtrAll, RetainsFirst
<1>8. ToDoIsAlive'
  BY <1>1, <1>2 DEF PtrAll, ToDoIsAlive
<1>9. ReachIsAlive'
  BY <1>1, <1>2, <1>3 DEF PtrAll, ReachIsAlive
<1> QED BY <1>4, <1>5, <1>6, <1>7, <1>8, <1>9 DEF PtrAll

LEMMA CreatorReleasesStep ==
    ASSUME PtrAll, NEW o \in Objects, CreatorReleases(o)
    PROVE  PtrAll'
<1>1. /\ todo = <<>> /\ o \in creators /\ creators' = creators \ {o}
      /\ todo' = Release(o) /\ UNCHANGED <<mref, made, gone, local, member>>
  BY DEF CreatorReleases
<1>2. o \in Alive /\ Alive' = Alive /\ Alive \subseteq Objects /\ o # Null
  BY <1>1, NullAssumption DEF PtrAll, PtrTypes, ReachIsAlive, Alive
<1>3. todo' = Retain(Null) \o Release(o)
  BY <1>1, <1>2, RetainIs
<1>4. PtrTypes'
  <2>1. todo' \in Seq(PtrOps)
    BY <1>1, <1>2, RetainIs
  <2> QED BY <1>1, <1>2, <2>1 DEF PtrAll, PtrTypes
<1>5. ReachIsAlive'
  BY <1>1, <1>2 DEF PtrAll, ReachIsAlive
<1>6. ASSUME NEW x \in Objects PROVE HeldBy(x)' + One(o = x) = HeldBy(x) + One(Null = x)
  <2> DEFINE a == CountOf(local, x)
             b == CountOf(member, x)
  <2>1. One(x \in creators') + One(o = x) = One(x \in creators)
    BY <1>1 DEF One
  <2>2. One(x \in creators') \in Nat /\ One(x \in creators) \in Nat /\ One(o = x) \in Nat /\ One(Null = x) = 0
    BY NullAssumption DEF One
  <2>3. a \in Nat /\ b \in Nat
    BY PtrFinite DEF PtrAll
  <2>4. HeldBy(x)' = One(x \in creators') + a + b /\ HeldBy(x) = One(x \in creators) + a + b
    BY <1>1 DEF HeldBy
  <2> HIDE DEF a, b
  <2> QED BY <2>1, <2>2, <2>3, <2>4
<1> QED BY <1>1, <1>2, <1>3, <1>4, <1>5, <1>6, UserPtrStep

LEMMA ConstructStep ==
    ASSUME PtrAll, NEW l \in Locals, Construct(l)
    PROVE  PtrAll'
<1>1. PICK p \in Alive \cup {Null} : local' = With(local, l, p) /\ todo' = Retain(p)
  BY ReachAlive DEF Construct
<1>2. /\ l \notin DOMAIN local /\ todo = <<>>
      /\ UNCHANGED <<mref, made, gone, creators, member>>
  BY DEF Construct
<1>3. Alive' = Alive /\ Alive \subseteq Objects
  BY <1>2 DEF Alive, PtrAll, PtrTypes
<1>4. /\ DOMAIN local' = DOMAIN local \cup {l} /\ local'[l] = p
      /\ \A x \in DOMAIN local : local'[x] = local[x]
      /\ local' \in [DOMAIN local' -> Objects \cup {Null}]
  BY <1>1, <1>2, <1>3 DEF With, PtrAll, PtrTypes
<1>5. todo' = Retain(p) \o Release(Null)
  BY <1>1, <1>3, RetainIs
<1>6. PtrTypes'
  <2>1. todo' \in Seq(PtrOps)
    BY <1>1, <1>3, RetainIs
  <2> QED BY <1>2, <1>3, <1>4, <2>1 DEF PtrAll, PtrTypes
<1>7. ReachIsAlive'
  BY <1>2, <1>3, <1>4 DEF PtrAll, ReachIsAlive
<1>8. ASSUME NEW x \in Objects PROVE HeldBy(x)' + One(Null = x) = HeldBy(x) + One(p = x)
  <2> DEFINE a == CountOf(local, x)
             b == CountOf(member, x)
             c == One(x \in creators)
             d == One(p = x)
  <2>1. One(Null = x) = 0 /\ c \in Nat /\ d \in Nat
    BY NullAssumption DEF One
  <2>2. a \in Nat /\ b \in Nat
    BY PtrFinite DEF PtrAll
  <2>3. CountOf(local', x) = a + d
    <3>1. CountOf(local', x) = CountOf(local, x) + One(local'[l] = x)
      BY <1>2, <1>4, PtrFinite, CountGains DEF PtrAll
    <3> QED BY <1>4, <3>1
  <2>4. HeldBy(x)' = c + CountOf(local', x) + b /\ HeldBy(x) = c + a + b
    BY <1>2 DEF HeldBy
  <2> HIDE DEF a, b, c, d
  <2>5. HeldBy(x)' + 0 = HeldBy(x) + d
    BY <2>1, <2>2, <2>3, <2>4
  <2> QED BY <2>1, <2>5 DEF d
<1> QED BY <1>2, <1>3, <1>5, <1>6, <1>7, <1>8, UserPtrStep

LEMMA DestructStep ==
    ASSUME PtrAll, NEW l \in Locals, Destruct(l)
    PROVE  PtrAll'
<1>1. /\ todo = <<>> /\ l \in DOMAIN local /\ local' = Without(local, l)
      /\ todo' = Release(local[l])
      /\ UNCHANGED <<mref, made, gone, creators, member>>
  BY DEF Destruct
<1>2. PICK q \in Alive \cup {Null} : q = local[l]
  BY <1>1 DEF PtrAll, ReachIsAlive
<1>3. Alive' = Alive /\ Alive \subseteq Objects
  BY <1>1 DEF Alive, PtrAll, PtrTypes
<1>4. /\ DOMAIN local' = DOMAIN local \ {l}
      /\ \A x \in DOMAIN local' : local'[x] = local[x]
      /\ local' \in [DOMAIN local' -> Objects \cup {Null}]
  BY <1>1 DEF Without, Restrict, PtrAll, PtrTypes
<1>5. todo' = Retain(Null) \o Release(q)
  BY <1>1, <1>2, <1>3, RetainIs
<1>6. PtrTypes'
  <2>1. todo' \in Seq(PtrOps)
    BY <1>1, <1>2, <1>3, RetainIs
  <2> QED BY <1>1, <1>3, <1>4, <2>1 DEF PtrAll, PtrTypes
<1>7. ReachIsAlive'
  BY <1>1, <1>3, <1>4 DEF PtrAll, ReachIsAlive
<1>8. ASSUME NEW x \in Objects PROVE HeldBy(x)' + One(q = x) = HeldBy(x) + One(Null = x)
  <2> DEFINE a == CountOf(local, x)
             b == CountOf(member, x)
             c == One(x \in creators)
             d == One(q = x)
  <2>1. One(Null = x) = 0 /\ c \in Nat /\ d \in Nat
    BY NullAssumption DEF One
  <2>2. a \in Nat /\ b \in Nat
    BY PtrFinite DEF PtrAll
  <2>3. CountOf(local', x) = a - d
    <3>1. CountOf(Without(local, l), x) = CountOf(local, x) - One(local[l] = x)
      BY <1>1, PtrFinite, CountLoses DEF PtrAll
    <3> QED BY <1>1, <1>2, <3>1
  <2>4. HeldBy(x)' = c + CountOf(local', x) + b /\ HeldBy(x) = c + a + b
    BY <1>1 DEF HeldBy
  <2> HIDE DEF a, b, c, d
  <2>5. HeldBy(x)' + d = HeldBy(x) + 0
    BY <2>1, <2>2, <2>3, <2>4
  <2> QED BY <2>1, <2>5 DEF d
<1> QED BY <1>1, <1>3, <1>5, <1>6, <1>7, <1>8, UserPtrStep

\* An assignment leaves what Reassign says to do, which is the same as a Retain
\* and a Release of the same object when it does nothing.
LEMMA ReassignIs ==
    ASSUME PtrAll, NEW old \in Alive \cup {Null}, NEW new \in Alive \cup {Null}
    PROVE  /\ Reassign(old, new) \in Seq(PtrOps)
           /\ \E p \in Alive \cup {Null}, q \in Alive \cup {Null} :
                /\ Reassign(old, new) = Retain(p) \o Release(q)
                /\ (p = new /\ q = old) \/ (p = q /\ new = old)
<1>1. Alive \subseteq Objects
  BY ReachAlive
<1>2. CASE old = new
  <2>1. Reassign(old, new) = <<>>
    BY <1>2 DEF Reassign
  <2>2. Retain(Null) \o Release(Null) = <<>>
    BY RetainIs
  <2>3. <<>> \in Seq(PtrOps)
    OBVIOUS
  <2> QED BY <1>2, <2>1, <2>2, <2>3
<1>3. CASE old # new
  <2>1. Reassign(old, new) = Retain(new) \o Release(old)
    BY <1>3 DEF Reassign
  <2>2. Reassign(old, new) \in Seq(PtrOps)
    BY <1>1, <2>1, ToDoCounts
  <2> QED BY <2>1, <2>2
<1> QED BY <1>2, <1>3

LEMMA AssignLocalStep ==
    ASSUME PtrAll, NEW l \in Locals, AssignLocal(l)
    PROVE  PtrAll'
<1>1. /\ todo = <<>> /\ l \in DOMAIN local
      /\ UNCHANGED <<mref, made, gone, creators, member>>
  BY DEF AssignLocal
<1>2. PICK new \in Alive \cup {Null} :
          local' = [local EXCEPT ![l] = new] /\ todo' = Reassign(local[l], new)
  BY ReachAlive DEF AssignLocal
<1>3. PICK old \in Alive \cup {Null} : old = local[l]
  BY <1>1 DEF PtrAll, ReachIsAlive
<1>t. todo' = Reassign(old, new)
  BY <1>2, <1>3
<1>4. todo' \in Seq(PtrOps)
  BY <1>t, ReassignIs
<1>5. PICK p \in Alive \cup {Null}, q \in Alive \cup {Null} :
          /\ todo' = Retain(p) \o Release(q)
          /\ (p = new /\ q = old) \/ (p = q /\ new = old)
  <2>1. \E p \in Alive \cup {Null}, q \in Alive \cup {Null} :
          /\ Reassign(old, new) = Retain(p) \o Release(q)
          /\ (p = new /\ q = old) \/ (p = q /\ new = old)
    BY ReassignIs
  <2> QED BY <1>t, <2>1
<1>6. Alive' = Alive /\ Alive \subseteq Objects
  BY <1>1 DEF Alive, PtrAll, PtrTypes
<1>7. PtrTypes'
  <2>1. local' \in [DOMAIN local' -> Objects \cup {Null}] /\ DOMAIN local' \subseteq Locals
    BY <1>2, <1>6 DEF PtrAll, PtrTypes
  <2> QED BY <1>1, <1>4, <1>6, <2>1 DEF PtrAll, PtrTypes
<1>8. ReachIsAlive'
  BY <1>1, <1>2, <1>6 DEF PtrAll, PtrTypes, ReachIsAlive
<1>9. ASSUME NEW x \in Objects PROVE HeldBy(x)' + One(q = x) = HeldBy(x) + One(p = x)
  <2> DEFINE a == CountOf(local, x)
             b == CountOf(member, x)
             c == One(x \in creators)
             d == One(new = x)
             e == One(old = x)
             f == One(p = x)
             g == One(q = x)
  <2>1. c \in Nat /\ d \in Nat /\ e \in Nat /\ f \in Nat /\ g \in Nat
    BY DEF One
  <2>2. a \in Nat /\ b \in Nat
    BY PtrFinite DEF PtrAll
  <2>3. CountOf(local', x) = a - e + d
    <3>1. CountOf([local EXCEPT ![l] = new], x) = CountOf(local, x) - One(local[l] = x) + One(new = x)
      BY <1>1, PtrFinite, CountChanges DEF PtrAll
    <3> QED BY <1>2, <1>3, <3>1
  <2>4. HeldBy(x)' = c + CountOf(local', x) + b /\ HeldBy(x) = c + a + b
    BY <1>1 DEF HeldBy
  <2>5. f - g = d - e
    BY <1>5, <2>1
  <2> HIDE DEF a, b, c, d, e, f, g
  <2>6. HeldBy(x)' + g = HeldBy(x) + f
    BY <2>1, <2>2, <2>3, <2>4, <2>5
  <2> QED BY <2>6 DEF f, g
<1>10. /\ todo = <<>> /\ UNCHANGED <<mref, made, gone>>
       /\ todo' = Retain(p) \o Release(q)
  BY <1>1, <1>5
<1> QED BY <1>7, <1>8, <1>9, <1>10, UserPtrStep

LEMMA AssignMemberStep ==
    ASSUME PtrAll, NEW o \in Objects, AssignMember(o)
    PROVE  PtrAll'
<1>1. /\ todo = <<>> /\ o \in DOMAIN member
      /\ UNCHANGED <<mref, made, gone, creators, local>>
  BY DEF AssignMember
<1>2. PICK new \in Alive \cup {Null} :
          member' = [member EXCEPT ![o] = new] /\ todo' = Reassign(member[o], new)
  BY ReachAlive DEF AssignMember
<1>3. PICK old \in Alive \cup {Null} : old = member[o]
  BY <1>1 DEF PtrAll, ReachIsAlive
<1>t. todo' = Reassign(old, new)
  BY <1>2, <1>3
<1>4. todo' \in Seq(PtrOps)
  BY <1>t, ReassignIs
<1>5. PICK p \in Alive \cup {Null}, q \in Alive \cup {Null} :
          /\ todo' = Retain(p) \o Release(q)
          /\ (p = new /\ q = old) \/ (p = q /\ new = old)
  <2>1. \E p \in Alive \cup {Null}, q \in Alive \cup {Null} :
          /\ Reassign(old, new) = Retain(p) \o Release(q)
          /\ (p = new /\ q = old) \/ (p = q /\ new = old)
    BY ReassignIs
  <2> QED BY <1>t, <2>1
<1>6. Alive' = Alive /\ Alive \subseteq Objects
  BY <1>1 DEF Alive, PtrAll, PtrTypes
<1>7. PtrTypes'
  <2>1. member' \in [Alive' -> Objects \cup {Null}]
    BY <1>2, <1>6 DEF PtrAll, PtrTypes
  <2> QED BY <1>1, <1>4, <2>1 DEF PtrAll, PtrTypes
<1>8. ReachIsAlive'
  BY <1>1, <1>2, <1>6 DEF PtrAll, PtrTypes, ReachIsAlive
<1>9. ASSUME NEW x \in Objects PROVE HeldBy(x)' + One(q = x) = HeldBy(x) + One(p = x)
  <2> DEFINE a == CountOf(local, x)
             b == CountOf(member, x)
             c == One(x \in creators)
             d == One(new = x)
             e == One(old = x)
             f == One(p = x)
             g == One(q = x)
  <2>1. c \in Nat /\ d \in Nat /\ e \in Nat /\ f \in Nat /\ g \in Nat
    BY DEF One
  <2>2. a \in Nat /\ b \in Nat
    BY PtrFinite DEF PtrAll
  <2>3. CountOf(member', x) = b - e + d
    <3>1. CountOf([member EXCEPT ![o] = new], x) = CountOf(member, x) - One(member[o] = x) + One(new = x)
      BY <1>1, PtrFinite, CountChanges DEF PtrAll
    <3> QED BY <1>2, <1>3, <3>1
  <2>4. HeldBy(x)' = c + a + CountOf(member', x) /\ HeldBy(x) = c + a + b
    BY <1>1 DEF HeldBy
  <2>5. f - g = d - e
    BY <1>5, <2>1
  <2> HIDE DEF a, b, c, d, e, f, g
  <2>6. HeldBy(x)' + g = HeldBy(x) + f
    BY <2>1, <2>2, <2>3, <2>4, <2>5
  <2> QED BY <2>6 DEF f, g
<1>10. /\ todo = <<>> /\ UNCHANGED <<mref, made, gone>>
       /\ todo' = Retain(p) \o Release(q)
  BY <1>1, <1>5
<1> QED BY <1>7, <1>8, <1>9, <1>10, UserPtrStep

\* What an operation that is under way does next.
LEMMA NextToDo ==
    ASSUME PtrAll, todo # <<>>
    PROVE  /\ Head(todo) \in PtrOps /\ Head(todo) = todo[1] /\ Head(todo).of \in Alive
           /\ Tail(todo) \in Seq(PtrOps)
           /\ \A i \in DOMAIN Tail(todo) : /\ i + 1 \in DOMAIN todo /\ i \in Nat /\ i # 0
                                           /\ Tail(todo)[i] = todo[i + 1]
                                           /\ Tail(todo)[i].op # "retain"
                                           /\ Tail(todo)[i].of \in Alive
           /\ \A o \in Objects : CountOf(Tail(todo), PtrOp("retain", o)) = 0
<1>1. todo \in Seq(PtrOps) /\ Len(todo) \in Nat \ {0} /\ DOMAIN todo = 1..Len(todo)
  BY EmptySeq, SeqIs DEF PtrAll, PtrTypes
<1>2. /\ Head(todo) \in PtrOps /\ Head(todo) = todo[1] /\ Tail(todo) \in Seq(PtrOps)
      /\ Len(Tail(todo)) = Len(todo) - 1
      /\ \A i \in 1..Len(Tail(todo)) : Tail(todo)[i] = todo[i + 1]
  BY <1>1, HeadTailProperties
<1>3. DOMAIN Tail(todo) = 1..(Len(todo) - 1) /\ IsFiniteSet(DOMAIN Tail(todo))
  BY <1>2, SeqIs
<1>4. ASSUME NEW i \in DOMAIN Tail(todo)
      PROVE  /\ i + 1 \in DOMAIN todo /\ i \in Nat /\ i # 0 /\ Tail(todo)[i] = todo[i + 1]
  BY <1>1, <1>2, <1>3
<1>5. ASSUME NEW i \in DOMAIN Tail(todo)
      PROVE  Tail(todo)[i].op # "retain" /\ Tail(todo)[i].of \in Alive
  <2>1. i + 1 # 1
    BY <1>4
  <2> QED BY <1>4, <2>1 DEF PtrAll, RetainsFirst, ToDoIsAlive
<1>6. \A o \in Objects : CountOf(Tail(todo), PtrOp("retain", o)) = 0
  <2>1. \A o \in Objects : \A i \in DOMAIN Tail(todo) : Tail(todo)[i] # PtrOp("retain", o)
    BY <1>5 DEF PtrOp
  <2> QED BY <1>3, <2>1, CountType
<1>7. Head(todo).of \in Alive
  <2>1. 1 \in DOMAIN todo
    BY <1>1
  <2> QED BY <1>2, <2>1 DEF PtrAll, ToDoIsAlive
<1> QED BY <1>2, <1>4, <1>5, <1>6, <1>7

\* The counts of what is left.
LEMMA TailCounts ==
    ASSUME PtrAll, todo # <<>>, NEW op \in {"retain", "release"}, Head(todo).op = op
    PROVE  /\ Head(todo) = PtrOp(op, Head(todo).of)
           /\ \A x \in Objects, q \in {"retain", "release"} :
                  CountOf(Tail(todo), PtrOp(q, x))
                    = CountOf(todo, PtrOp(q, x)) - (IF q = op /\ x = Head(todo).of THEN 1 ELSE 0)
<1>1. Head(todo) = PtrOp(op, Head(todo).of)
  BY NextToDo DEF PtrOp, PtrOps
<1>2. ASSUME NEW x \in Objects, NEW q \in {"retain", "release"}
      PROVE  CountOf(Tail(todo), PtrOp(q, x))
               = CountOf(todo, PtrOp(q, x)) - (IF q = op /\ x = Head(todo).of THEN 1 ELSE 0)
  <2>1. CountOf(Tail(todo), PtrOp(q, x)) = CountOf(todo, PtrOp(q, x)) - One(Head(todo) = PtrOp(q, x))
    BY CountTail DEF PtrAll, PtrTypes
  <2>2. One(Head(todo) = PtrOp(q, x)) = (IF q = op /\ x = Head(todo).of THEN 1 ELSE 0)
    BY <1>1 DEF One, PtrOp
  <2> QED BY <2>1, <2>2
<1> QED BY <1>1, <1>2

LEMMA RetainStep ==
    ASSUME PtrAll, RunRetain
    PROVE  PtrAll'
<1> DEFINE o == Head(todo).of
<1>1. /\ todo # <<>> /\ Head(todo).op = "retain" /\ todo' = Tail(todo)
      /\ mref' = [mref EXCEPT ![o] = @ + 1]
      /\ UNCHANGED <<made, gone, creators, local, member>>
  BY DEF RunRetain, Calls
<1>2. /\ o \in Alive /\ o \in Objects /\ Tail(todo) \in Seq(PtrOps)
      /\ \A i \in DOMAIN Tail(todo) : Tail(todo)[i].op # "retain" /\ Tail(todo)[i].of \in Alive
  BY <1>1, NextToDo, ReachAlive
<1>3. \A x \in Objects :
          /\ CountOf(todo', PtrOp("retain", x)) = CountOf(todo, PtrOp("retain", x)) - (IF x = o THEN 1 ELSE 0)
          /\ CountOf(todo', PtrOp("release", x)) = CountOf(todo, PtrOp("release", x))
  <2>1. ASSUME NEW x \in Objects
        PROVE  /\ CountOf(todo', PtrOp("retain", x)) = CountOf(todo, PtrOp("retain", x)) - (IF x = o THEN 1 ELSE 0)
               /\ CountOf(todo', PtrOp("release", x)) = CountOf(todo, PtrOp("release", x)) - 0
    BY <1>1, TailCounts
  <2>2. \A x \in Objects : CountOf(todo, PtrOp("release", x)) \in Nat
    BY PtrFinite DEF PtrAll
  <2> QED BY <2>1, <2>2
<1> HIDE DEF o
<1>4. PtrTypes' /\ Alive' = Alive
  BY <1>1, <1>2 DEF PtrAll, PtrTypes, Alive
<1>5. PtrBalanced'
  <2> SUFFICES ASSUME NEW x \in Objects
               PROVE  mref'[x] + CountOf(todo', PtrOp("retain", x))
                        = HeldBy(x)' + CountOf(todo', PtrOp("release", x))
    BY DEF PtrBalanced
  <2>1. /\ mref[x] + CountOf(todo, PtrOp("retain", x)) = HeldBy(x) + CountOf(todo, PtrOp("release", x))
        /\ HeldBy(x)' = HeldBy(x)
        /\ mref'[x] = mref[x] + (IF x = o THEN 1 ELSE 0) /\ mref[x] \in Nat
    BY <1>1, <1>2 DEF PtrAll, PtrBalanced, HeldBy, PtrTypes
  <2>2. CountOf(todo, PtrOp("retain", x)) \in Nat
    BY PtrFinite DEF PtrAll
  <2>3. mref'[x] + CountOf(todo', PtrOp("retain", x)) = mref[x] + CountOf(todo, PtrOp("retain", x))
    BY <1>3, <2>1, <2>2
  <2> QED BY <1>3, <2>1, <2>3
<1>6. AliveIsCounted'
  BY <1>1, <1>2, <1>4 DEF PtrAll, PtrTypes, AliveIsCounted
<1>7. RetainsFirst' /\ ToDoIsAlive' /\ ReachIsAlive'
  BY <1>1, <1>2, <1>4 DEF PtrAll, RetainsFirst, ToDoIsAlive, ReachIsAlive
<1> QED BY <1>4, <1>5, <1>6, <1>7 DEF PtrAll

LEMMA ReleaseStep ==
    ASSUME PtrAll, RunRelease
    PROVE  PtrAll'
<1> DEFINE o == Head(todo).of
<1>1. /\ todo # <<>> /\ Head(todo).op = "release" /\ todo' = Tail(todo) /\ mref[o] > 1
      /\ mref' = [mref EXCEPT ![o] = @ - 1]
      /\ UNCHANGED <<made, gone, creators, local, member>>
  BY DEF RunRelease, Calls
<1>2. /\ o \in Alive /\ o \in Objects /\ Tail(todo) \in Seq(PtrOps)
      /\ \A i \in DOMAIN Tail(todo) : Tail(todo)[i].op # "retain" /\ Tail(todo)[i].of \in Alive
  BY <1>1, NextToDo, ReachAlive
<1>3. \A x \in Objects :
          /\ CountOf(todo', PtrOp("retain", x)) = CountOf(todo, PtrOp("retain", x))
          /\ CountOf(todo', PtrOp("release", x)) = CountOf(todo, PtrOp("release", x)) - (IF x = o THEN 1 ELSE 0)
  <2>1. ASSUME NEW x \in Objects
        PROVE  /\ CountOf(todo', PtrOp("retain", x)) = CountOf(todo, PtrOp("retain", x)) - 0
               /\ CountOf(todo', PtrOp("release", x)) = CountOf(todo, PtrOp("release", x)) - (IF x = o THEN 1 ELSE 0)
    BY <1>1, TailCounts
  <2>2. \A x \in Objects : CountOf(todo, PtrOp("retain", x)) \in Nat
    BY PtrFinite DEF PtrAll
  <2> QED BY <2>1, <2>2
<1> HIDE DEF o
<1>4. PtrTypes' /\ Alive' = Alive
  <2>1. mref' \in [Objects -> Nat]
    BY <1>1, <1>2 DEF PtrAll, PtrTypes
  <2> QED BY <1>1, <1>2, <2>1 DEF PtrAll, PtrTypes, Alive
<1>5. PtrBalanced'
  <2> SUFFICES ASSUME NEW x \in Objects
               PROVE  mref'[x] + CountOf(todo', PtrOp("retain", x))
                        = HeldBy(x)' + CountOf(todo', PtrOp("release", x))
    BY DEF PtrBalanced
  <2>1. /\ mref[x] + CountOf(todo, PtrOp("retain", x)) = HeldBy(x) + CountOf(todo, PtrOp("release", x))
        /\ HeldBy(x)' = HeldBy(x)
        /\ mref'[x] = mref[x] - (IF x = o THEN 1 ELSE 0) /\ mref[x] \in Nat
    BY <1>1, <1>2 DEF PtrAll, PtrBalanced, HeldBy, PtrTypes
  <2>2. /\ CountOf(todo, PtrOp("retain", x)) \in Nat /\ CountOf(todo, PtrOp("release", x)) \in Nat
        /\ HeldBy(x) \in Nat
    BY PtrFinite DEF PtrAll, HeldBy, One
  <2> QED BY <1>3, <2>1, <2>2
<1>6. AliveIsCounted'
  BY <1>1, <1>2, <1>4 DEF PtrAll, PtrTypes, AliveIsCounted
<1>7. RetainsFirst' /\ ToDoIsAlive' /\ ReachIsAlive'
  BY <1>1, <1>2, <1>4 DEF PtrAll, RetainsFirst, ToDoIsAlive, ReachIsAlive
<1> QED BY <1>4, <1>5, <1>6, <1>7 DEF PtrAll

\* The last Release of an object is the only thing that is left of it, and its
\* member hands the Release on.
LEMMA LastReleaseStep ==
    ASSUME PtrAll, RunLastRelease
    PROVE  PtrAll'
<1> DEFINE o == Head(todo).of
           w == member[o]
           t == Tail(todo)
<1>1. /\ todo # <<>> /\ Head(todo).op = "release" /\ todo' = Release(w) \o t /\ mref[o] = 1
      /\ mref' = [mref EXCEPT ![o] = 0] /\ gone' = gone \cup {o} /\ member' = Without(member, o)
      /\ UNCHANGED <<made, creators, local>>
  BY DEF RunLastRelease, Calls
<1>2. /\ o \in Alive /\ o \in Objects /\ t \in Seq(PtrOps)
      /\ \A i \in DOMAIN t : t[i] \in PtrOps /\ t[i].op # "retain" /\ t[i].of \in Alive
      /\ \A x \in Objects : CountOf(t, PtrOp("retain", x)) = 0
  <2>1. \A i \in DOMAIN t : t[i] \in PtrOps
    BY <1>1, NextToDo
  <2> QED BY <1>1, <2>1, NextToDo, ReachAlive
<1>3. /\ \A x \in Objects : CountOf(t, PtrOp("release", x))
                              = CountOf(todo, PtrOp("release", x)) - (IF x = o THEN 1 ELSE 0)
      /\ \A x \in Objects : CountOf(todo, PtrOp("retain", x)) = 0
  <2>1. ASSUME NEW x \in Objects
        PROVE  /\ CountOf(t, PtrOp("retain", x)) = CountOf(todo, PtrOp("retain", x)) - 0
               /\ CountOf(t, PtrOp("release", x)) = CountOf(todo, PtrOp("release", x)) - (IF x = o THEN 1 ELSE 0)
    BY <1>1, TailCounts
  <2>2. \A x \in Objects : CountOf(todo, PtrOp("retain", x)) \in Nat
    BY PtrFinite DEF PtrAll
  <2> QED BY <1>2, <2>1, <2>2
<1>4. /\ member \in [Alive -> Objects \cup {Null}] /\ DOMAIN member = Alive
      /\ w \in Alive \cup {Null} /\ w \in Objects \cup {Null}
  BY <1>2 DEF PtrAll, PtrTypes, ReachIsAlive
<1> HIDE DEF o, t
<1>5. \A x \in Objects : CountOf(t, PtrOp("release", x)) \in Nat /\ CountOf(local, x) \in Nat
                         /\ CountOf(member, x) \in Nat /\ CountOf(todo, PtrOp("release", x)) \in Nat
  <2>1. IsFiniteSet(DOMAIN t)
    BY <1>2, SeqIs
  <2> QED BY <2>1, CountType, PtrFinite DEF PtrAll
\* Nothing else holds it.
<1>6. /\ o \notin creators /\ CountOf(local, o) = 0 /\ CountOf(member, o) = 0
      /\ CountOf(t, PtrOp("release", o)) = 0
  <2> DEFINE a == CountOf(local, o)
             b == CountOf(member, o)
             c == One(o \in creators)
             d == CountOf(todo, PtrOp("release", o))
             e == CountOf(t, PtrOp("release", o))
  <2>1. a \in Nat /\ b \in Nat /\ c \in Nat /\ d \in Nat /\ e \in Nat
    BY <1>2, <1>5 DEF One
  <2>2. 1 + 0 = c + a + b + d
    BY <1>1, <1>2, <1>3 DEF PtrAll, PtrBalanced, HeldBy
  <2>3. e = d - 1
    BY <1>2, <1>3
  <2> HIDE DEF a, b, c, d, e
  <2>4. a = 0 /\ b = 0 /\ c = 0 /\ e = 0
    BY <2>1, <2>2, <2>3
  <2> QED BY <2>4 DEF a, b, c, e, One
<1>7. /\ \A l \in DOMAIN local : local[l] # o
      /\ \A m \in DOMAIN member : member[m] # o
      /\ \A i \in DOMAIN t : t[i].of # o
  <2>1. \A i \in DOMAIN t : t[i] # PtrOp("release", o)
    BY <1>2, <1>6, SeqIs, CountType
  <2>2. \A i \in DOMAIN t : t[i] = PtrOp("release", t[i].of)
    BY <1>2 DEF PtrOps, PtrOp
  <2>3. \A l \in DOMAIN local : local[l] # o
    BY <1>6, PtrFinite, CountType DEF PtrAll
  <2>4. \A m \in DOMAIN member : member[m] # o
    BY <1>6, PtrFinite, CountType DEF PtrAll
  <2> QED BY <2>1, <2>2, <2>3, <2>4
<1>8. Alive' = Alive \ {o} /\ w \in (Alive \ {o}) \cup {Null}
  BY <1>1, <1>2, <1>4, <1>7 DEF Alive
\* The member is gone, and what it held is to be released.
<1>9. /\ member' \in [Alive' -> Objects \cup {Null}]
      /\ \A m \in Alive' : member'[m] = member[m]
  BY <1>1, <1>4, <1>8 DEF Without, Restrict
<1>10. /\ todo' \in Seq(PtrOps)
       /\ \A i \in DOMAIN todo' : todo'[i].op # "retain" /\ todo'[i].of \in Alive \ {o}
       /\ \A x \in Objects : /\ CountOf(todo', PtrOp("retain", x)) = 0
                             /\ CountOf(todo', PtrOp("release", x))
                                  = CountOf(t, PtrOp("release", x)) + (IF w = x THEN 1 ELSE 0)
  <2> DEFINE b == PtrOp("release", w)
  <2>1. CASE w = Null
    <3>1. todo' = t
      BY <1>1, <1>2, <2>1, ConcatEmptySeq DEF Release
    <3>2. \A x \in Objects : w # x
      BY <2>1, NullAssumption
    <3> QED BY <1>2, <1>5, <1>7, <2>1, <3>1, <3>2
  <2>2. CASE w # Null
    <3>1. todo' = <<b>> \o t /\ b \in PtrOps /\ b.op = "release" /\ b.of = w /\ w \in Alive \ {o}
      BY <1>1, <1>4, <1>8, <2>2 DEF Release, PtrOp, PtrOps
    <3>2. ASSUME NEW x \in Objects
          PROVE  /\ One(b = PtrOp("retain", x)) = 0
                 /\ One(b = PtrOp("release", x)) = IF w = x THEN 1 ELSE 0
      BY DEF One, PtrOp
    <3>3. Len(t) \in Nat /\ DOMAIN t = 1..Len(t)
      BY <1>2, SeqIs
    <3> HIDE DEF b, w
    <3> DEFINE s == <<b>> \o t
    <3>4. /\ s \in Seq(PtrOps) /\ DOMAIN s = 1..(Len(t) + 1) /\ s[1] = b
          /\ \A i \in 2..(Len(t) + 1) : s[i] = t[i - 1]
      BY <1>2, <3>1, CountCons
    <3>5. ASSUME NEW v PROVE CountOf(s, v) = CountOf(t, v) + One(b = v)
      BY <1>2, <3>1, CountCons
    <3>6. ASSUME NEW x \in Objects
          PROVE  /\ CountOf(s, PtrOp("retain", x)) = 0
                 /\ CountOf(s, PtrOp("release", x)) = CountOf(t, PtrOp("release", x)) + (IF w = x THEN 1 ELSE 0)
      <4>1. /\ CountOf(s, PtrOp("retain", x)) = CountOf(t, PtrOp("retain", x)) + One(b = PtrOp("retain", x))
            /\ CountOf(s, PtrOp("release", x)) = CountOf(t, PtrOp("release", x)) + One(b = PtrOp("release", x))
        BY <3>5
      <4> QED BY <1>2, <3>2, <4>1
    <3> HIDE DEF s
    <3>7. ASSUME NEW i \in DOMAIN s
          PROVE  s[i].op # "retain" /\ s[i].of \in Alive \ {o}
      <4>1. CASE i = 1
        BY <3>1, <3>4, <4>1
      <4>2. CASE i # 1
        <5>1. i \in 2..(Len(t) + 1) /\ i - 1 \in DOMAIN t
          BY <3>3, <3>4, <4>2
        <5>2. s[i] = t[i - 1]
          BY <3>4, <5>1
        <5> QED BY <1>2, <1>7, <5>1, <5>2
      <4> QED BY <4>1, <4>2
    <3> QED BY <3>1, <3>4, <3>6, <3>7 DEF s
  <2> QED BY <2>1, <2>2
<1> HIDE DEF w
<1>11. PtrTypes'
  <2>1. mref' \in [Objects -> Nat] /\ gone' \subseteq made'
    BY <1>1, <1>2 DEF PtrAll, PtrTypes, Alive
  <2> QED BY <1>1, <1>9, <1>10, <2>1 DEF PtrAll, PtrTypes
<1>12. PtrBalanced'
  <2> SUFFICES ASSUME NEW x \in Objects
               PROVE  mref'[x] + CountOf(todo', PtrOp("retain", x))
                        = HeldBy(x)' + CountOf(todo', PtrOp("release", x))
    BY DEF PtrBalanced
  <2> DEFINE a == CountOf(local, x)
             b == CountOf(member, x)
             c == One(x \in creators)
             d == CountOf(todo, PtrOp("release", x))
             e == CountOf(t, PtrOp("release", x))
             f == IF x = o THEN 1 ELSE 0
             g == IF w = x THEN 1 ELSE 0
  <2>1. a \in Nat /\ b \in Nat /\ c \in Nat /\ d \in Nat /\ e \in Nat /\ mref[x] \in Nat
    BY <1>5 DEF One, PtrAll, PtrTypes
  <2>2. mref[x] + 0 = c + a + b + d
    BY <1>3 DEF PtrAll, PtrBalanced, HeldBy
  <2>3. e = d - f /\ mref'[x] = mref[x] - f
    BY <1>1, <1>2, <1>3 DEF PtrAll, PtrTypes
  <2>4. HeldBy(x)' = c + a + (b - g)
    <3>1. CountOf(Without(member, o), x) = CountOf(member, x) - One(member[o] = x)
      BY <1>2, <1>4, PtrFinite, CountLoses DEF PtrAll
    <3>2. One(member[o] = x) = g
      BY DEF One, w
    <3>3. CountOf(member', x) = b - g
      BY <1>1, <3>1, <3>2
    <3> QED BY <1>1, <3>3 DEF HeldBy
  <2>5. CountOf(todo', PtrOp("release", x)) = e + g /\ CountOf(todo', PtrOp("retain", x)) = 0
    BY <1>10
  <2>6. f \in Nat /\ g \in Nat
    OBVIOUS
  <2> HIDE DEF a, b, c, d, e, f, g
  <2> QED BY <2>1, <2>2, <2>3, <2>4, <2>5, <2>6
<1>13. AliveIsCounted'
  BY <1>1, <1>2, <1>8 DEF PtrAll, PtrTypes, AliveIsCounted
<1>14. RetainsFirst' /\ ToDoIsAlive'
  BY <1>8, <1>10 DEF RetainsFirst, ToDoIsAlive
<1>15. ReachIsAlive'
  <2>1. creators' \subseteq Alive'
    BY <1>1, <1>6, <1>8 DEF PtrAll, ReachIsAlive
  <2>2. \A l \in DOMAIN local' : local'[l] \in Alive' \cup {Null}
    BY <1>1, <1>7, <1>8 DEF PtrAll, ReachIsAlive
  <2>3. \A m \in DOMAIN member' : member'[m] \in Alive' \cup {Null}
    BY <1>4, <1>7, <1>8, <1>9 DEF PtrAll, ReachIsAlive
  <2> QED BY <2>1, <2>2, <2>3 DEF ReachIsAlive
<1> QED BY <1>11, <1>12, <1>13, <1>14, <1>15 DEF PtrAll

LEMMA InitPtr == PtrInit => PtrAll
<1> SUFFICES ASSUME PtrInit PROVE PtrAll
  OBVIOUS
<1>1. Alive = {} /\ DOMAIN local = {} /\ DOMAIN member = {} /\ DOMAIN todo = {}
  BY EmptySeq DEF PtrInit, Alive
<1>2. local \in [{} -> Objects \cup {Null}] /\ member \in [{} -> Objects \cup {Null}]
  <2>1. <<>> = [x \in {} |-> Null]
    OBVIOUS
  <2> QED BY <2>1 DEF PtrInit
<1>3. PtrTypes
  BY <1>1, <1>2 DEF PtrInit, PtrTypes
<1>4. PtrBalanced
  <2>1. \A o \in Objects : HeldBy(o) = 0
    BY CountNone DEF PtrInit, HeldBy, One
  <2> QED BY <2>1, CountNone DEF PtrInit, PtrBalanced
<1> QED BY <1>1, <1>3, <1>4 DEF PtrInit, PtrAll, AliveIsCounted, RetainsFirst, ToDoIsAlive, ReachIsAlive

\* Every object lives exactly as long as it is held: the counts of cppref.h are
\* those of the pointers and the creators, with the Retains and the Releases of
\* the running operation, and nothing that is held has been destroyed.
THEOREM PtrHoldsExactly == PtrSpec => []HeldExactly
<1>1. PtrInit => PtrAll
  BY InitPtr
<1>2. PtrAll /\ [PtrNext]_ptrvars => PtrAll'
  <2> SUFFICES ASSUME PtrAll, [PtrNext]_ptrvars PROVE PtrAll'
    OBVIOUS
  <2>1. CASE UNCHANGED ptrvars
    BY <2>1 DEF ptrvars, PtrAll, PtrTypes, PtrBalanced, AliveIsCounted, RetainsFirst, ToDoIsAlive,
                ReachIsAlive, HeldBy, Alive
  <2>2. CASE \E o \in Objects : Make(o) \/ CreatorReleases(o) \/ AssignMember(o)
    BY <2>2, MakeStep, CreatorReleasesStep, AssignMemberStep
  <2>3. CASE \E l \in Locals : Construct(l) \/ Destruct(l) \/ AssignLocal(l)
    BY <2>3, ConstructStep, DestructStep, AssignLocalStep
  <2>4. CASE RunRetain \/ RunRelease \/ RunLastRelease
    BY <2>4, RetainStep, ReleaseStep, LastReleaseStep
  <2> QED BY <2>1, <2>2, <2>3, <2>4 DEF PtrNext, PtrUserStep, PtrRefStep
<1> QED BY <1>1, <1>2, PtrAllHolds, PTL DEF PtrSpec

-----------------------------------------------------------------------------
(* The UDP socket.  The status says what is open and keeps real_close to one   *)
(* at a time, and what the second loop of real_close leaves was sent in it.    *)

UdpLife ==
    /\ status = "common" <=> fd
    /\ draining # "no" => status # "null"
    /\ draining = "recv" => sendq = <<>> \/ late

UdpIInv == UdpInv /\ UdpLife

RefsRight == refs = One(held) + Len(queue) + One(draining # "no") + One(registered)
BuffersRight == \A b \in Buffers : bufrefs[b] = CountOf(sendq, b) + CountOf(recvq, b)

\* The parts that a step preserves one at a time.
UdpSmall ==
    /\ status \in {"null", "init", "common"}
    /\ hasio \in BOOLEAN /\ hascb \in BOOLEAN
    /\ fd \in BOOLEAN /\ assigned \in BOOLEAN /\ registered \in BOOLEAN
    /\ rarm \in BOOLEAN /\ warm \in BOOLEAN
    /\ draining \in {"no", "send", "recv"}
    /\ held \in BOOLEAN /\ closing \in BOOLEAN
    /\ late \in BOOLEAN /\ undefined \in BOOLEAN
    /\ calls \in 0..MaxCalls /\ again \in 0..MaxAgain

UdpAll ==
    /\ UdpSmall
    /\ sendq \in Seq(Buffers) /\ recvq \in Seq(Buffers)
    /\ bufrefs \in [Buffers -> Nat]
    /\ queue \in Seq({"listen", "close"}) /\ refs \in Nat
    /\ RefsRight /\ BuffersRight
    /\ UdpPendingIsOpen /\ ClosedOwesNothing /\ UdpLife

LEMMA UdpParts == UdpIInv <=> UdpAll
<1>1. \A b : Waits(b) = CountOf(sendq, b) + CountOf(recvq, b)
  BY DEF Waits, CountOf, At
<1>2. UdpCounted <=> RefsRight /\ BuffersRight
  BY <1>1 DEF UdpCounted, RefsRight, BuffersRight
<1>3. UdpTypeOK <=> /\ UdpSmall
                    /\ sendq \in Seq(Buffers) /\ recvq \in Seq(Buffers)
                    /\ bufrefs \in [Buffers -> Nat]
                    /\ queue \in Seq({"listen", "close"}) /\ refs \in Nat
  BY DEF UdpTypeOK, UdpSmall
<1> QED BY <1>2, <1>3 DEF UdpIInv, UdpInv, UdpAll

LEMMA UdpPartsNext == UdpIInv' <=> UdpAll'
BY UdpParts, PTL

LEMMA QuietUdpStep ==
    ASSUME UdpAll, InitSocket \/ EventFires \/ Closes \/ DrainedSend
    PROVE  UdpAll'
<1>1. /\ sendq' = sendq /\ recvq' = recvq /\ bufrefs' = bufrefs /\ queue' = queue
      /\ refs' = refs /\ held' = held /\ registered' = registered
      /\ draining' # "no" <=> draining # "no"
  BY DEF InitSocket, EventFires, Closes, DrainedSend, life, link, events, data
<1>2. UdpSmall'
  <2>1. /\ UNCHANGED <<link, events, held, calls, again, late>>
        /\ status' \in {status, "init"} /\ draining' \in {draining, "recv"}
    BY DEF InitSocket, EventFires, Closes, DrainedSend, life
  <2>2. /\ hasio' \in {hasio, TRUE} /\ hascb' \in {hascb, TRUE}
        /\ closing' \in {closing, TRUE} /\ undefined' \in {undefined, TRUE}
    BY DEF InitSocket, EventFires, Closes, DrainedSend, life
  <2>3. hasio' \in BOOLEAN /\ hascb' \in BOOLEAN /\ closing' \in BOOLEAN /\ undefined' \in BOOLEAN
    BY <2>2 DEF UdpAll, UdpSmall
  <2>4. status' \in {"null", "init", "common"} /\ draining' \in {"no", "send", "recv"}
    BY <2>1 DEF UdpAll, UdpSmall
  <2> QED BY <2>1, <2>3, <2>4 DEF UdpAll, UdpSmall, link, events
<1>3. RefsRight' /\ BuffersRight'
  BY <1>1 DEF UdpAll, RefsRight, BuffersRight
<1>4. UdpPendingIsOpen' /\ ClosedOwesNothing' /\ UdpLife'
  BY DEF UdpAll, UdpSmall, UdpPendingIsOpen, ClosedOwesNothing, UdpLife, InitSocket,
         EventFires, Closes, DrainedSend, life, link, events, data
<1> QED BY <1>1, <1>2, <1>3, <1>4 DEF UdpAll

\* A job that is posted brings its reference.
LEMMA PostUdpStep ==
    ASSUME UdpAll, Listen \/ Fini \/ Sweep
    PROVE  UdpAll'
<1>1. /\ UNCHANGED <<life, link, events, data, draining, held, again, late, undefined>>
      /\ \E job \in {"listen", "close"} : Post(job)
      /\ calls' \in 0..MaxCalls /\ closing' = closing
  BY UdpAssumption DEF UdpAll, UdpSmall, Listen, Fini, Sweep
<1>2. PICK job \in {"listen", "close"} : queue' = Append(queue, job) /\ refs' = refs + 1
  BY <1>1 DEF Post
<1>3. Len(queue) \in Nat
  BY SeqIs DEF UdpAll
<1>4. queue' \in Seq({"listen", "close"}) /\ Len(queue') = Len(queue) + 1
  BY <1>2, AppendProperties DEF UdpAll
<1>5. RefsRight' /\ refs' \in Nat
  <2>1. held' = held /\ draining' = draining /\ registered' = registered
    BY <1>1 DEF link
  <2>2. refs = One(held) + Len(queue) + One(draining # "no") + One(registered) /\ refs \in Nat
    BY DEF UdpAll, RefsRight
  <2> QED BY <1>2, <1>3, <1>4, <2>1, <2>2, OneIs DEF RefsRight
<1>6. UdpSmall'
  BY <1>1 DEF UdpAll, UdpSmall, life, link, events
<1>7. /\ sendq' = sendq /\ recvq' = recvq /\ bufrefs' = bufrefs
      /\ BuffersRight' /\ UdpPendingIsOpen' /\ ClosedOwesNothing' /\ UdpLife'
  BY <1>1 DEF UdpAll, BuffersRight, UdpPendingIsOpen, ClosedOwesNothing, UdpLife, life, link,
              events, data
<1> QED BY <1>4, <1>5, <1>6, <1>7 DEF UdpAll

LEMMA ReleaseUdpStep ==
    ASSUME UdpAll, UserRelease
    PROVE  UdpAll'
<1>1. /\ UNCHANGED <<life, link, events, data, queue, draining, closing, calls, again, late, undefined>>
      /\ held = TRUE /\ held' = FALSE /\ refs' = refs - 1
  BY DEF UserRelease, UdpAll, UdpSmall
<1>2. Len(queue) \in Nat
  BY SeqIs DEF UdpAll
<1>3. RefsRight' /\ refs' \in Nat
  <2>1. draining' = draining /\ registered' = registered /\ queue' = queue
    BY <1>1 DEF link
  <2>2. refs = One(TRUE) + Len(queue) + One(draining # "no") + One(registered) /\ refs \in Nat
    BY <1>1 DEF UdpAll, RefsRight
  <2>3. held' = FALSE /\ refs' = refs - 1
    BY <1>1
  <2>4. refs' = One(FALSE) + Len(queue) + One(draining # "no") + One(registered) /\ refs' \in Nat
    <3> DEFINE h == One(FALSE)
               d == One(draining # "no")
               r == One(registered)
               n == Len(queue)
    <3>1. d \in Nat /\ r \in Nat /\ h = 0
      BY DEF One
    <3>2. n \in Nat /\ refs = 1 + n + d + r
      BY <1>2, <2>2 DEF One
    <3> HIDE DEF h, d, r, n
    <3>3. refs' = h + n + d + r /\ refs' \in Nat
      BY ONLY <2>3, <3>1, <3>2
    <3> QED BY <3>3 DEF h, d, r, n
  <2> QED BY <2>1, <2>3, <2>4 DEF RefsRight
<1>4. UdpSmall'
  <2>1. held' \in BOOLEAN
    BY <1>1
  <2>2. UNCHANGED <<life, link, events, draining, closing, calls, again, late, undefined>>
    BY <1>1
  <2> QED BY <2>1, <2>2 DEF UdpAll, UdpSmall, life, link, events
<1>5. /\ sendq' = sendq /\ recvq' = recvq /\ bufrefs' = bufrefs /\ queue' = queue
      /\ BuffersRight' /\ UdpPendingIsOpen' /\ ClosedOwesNothing' /\ UdpLife'
  BY <1>1 DEF UdpAll, BuffersRight, UdpPendingIsOpen, ClosedOwesNothing, UdpLife, life, link,
              events, data
<1> QED BY <1>3, <1>4, <1>5 DEF UdpAll

\* A job that runs gives its reference to the registry, to real_close or back.
LEMMA RunUdpStep ==
    ASSUME UdpAll, RunListen \/ RunCloseAgain \/ RunClose
    PROVE  UdpAll'
<1>1. /\ UNCHANGED <<hasio, hascb, events, data, held, closing, calls, again, late, undefined>>
      /\ draining = "no" /\ queue # <<>> /\ queue' = Tail(queue)
  BY DEF RunListen, RunCloseAgain, RunClose, Runs, life
<1>2. /\ queue' \in Seq({"listen", "close"}) /\ Len(queue') = Len(queue) - 1
      /\ Len(queue) \in Nat \ {0}
  <2>1. Len(queue) \in Nat /\ Len(queue) # 0
    BY <1>1, EmptySeq, SeqIs DEF UdpAll
  <2> QED BY <1>1, <2>1, HeadTailProperties DEF UdpAll
<1>3. \/ /\ refs' = refs - 1 /\ UNCHANGED <<status, link, draining>>
      \/ /\ refs' = refs /\ status = "init" /\ status' = "common" /\ draining' = "no"
         /\ fd' = TRUE /\ assigned' = TRUE /\ registered = FALSE /\ registered' = TRUE
      \/ /\ refs' = refs /\ UNCHANGED <<status, link>>
         /\ status # "null" /\ draining' = "send"
  <2>1. refs \in Nat /\ (status = "init" => registered = FALSE)
    BY DEF UdpAll, UdpSmall, UdpPendingIsOpen, UdpLife
  <2>2. CASE RunListen
    BY <2>1, <2>2 DEF RunListen, Runs
  <2>3. CASE RunCloseAgain
    BY <2>3 DEF RunCloseAgain, life
  <2>4. CASE RunClose
    BY <2>4 DEF RunClose, life
  <2> QED BY <2>2, <2>3, <2>4
<1>4. RefsRight' /\ refs' \in Nat
  <2>1. refs = One(held) + Len(queue) + One(FALSE) + One(registered) /\ refs \in Nat
    BY <1>1 DEF UdpAll, RefsRight
  <2>2. /\ held' = held
        /\ \/ refs' = refs - 1 /\ registered' = registered /\ draining' = "no"
           \/ refs' = refs /\ registered = FALSE /\ registered' = TRUE /\ draining' = "no"
           \/ refs' = refs /\ registered' = registered /\ draining' = "send"
    BY <1>1, <1>3 DEF link
  <2>3. refs' = One(held') + Len(queue') + One(draining' # "no") + One(registered')
    <3> DEFINE h == One(held)
               r == One(registered)
               n == Len(queue)
               k == Len(queue')
    <3>0. h \in Nat /\ r \in Nat /\ n \in Nat /\ k = n - 1 /\ refs = h + n + 0 + r /\ One(held') = h
      <4>1. h \in Nat /\ r \in Nat /\ One(FALSE) = 0
        BY DEF One
      <4>2. n \in Nat /\ k = n - 1 /\ refs = h + n + One(FALSE) + r
        BY <1>2, <2>1
      <4>3. One(held') = h
        BY <2>2
      <4> HIDE DEF h, r, n, k
      <4> QED BY <4>1, <4>2, <4>3
    <3>1. CASE refs' = refs - 1 /\ registered' = registered /\ draining' = "no"
      <4>1. One(draining' # "no") = 0 /\ One(registered') = r
        BY <3>1, OneIs
      <4> HIDE DEF h, r, n, k
      <4>2. refs' = h + k + 0 + r
        BY <3>0, <3>1
      <4> QED BY <3>0, <4>1, <4>2 DEF k
    <3>2. CASE refs' = refs /\ registered = FALSE /\ registered' = TRUE /\ draining' = "no"
      <4>1. One(draining' # "no") = 0 /\ One(registered') = 1 /\ r = 0
        BY <3>2, OneIs
      <4> HIDE DEF h, r, n, k
      <4>2. refs' = h + k + 0 + 1
        BY <3>0, <3>2, <4>1
      <4> QED BY <3>0, <4>1, <4>2 DEF k
    <3>3. CASE refs' = refs /\ registered' = registered /\ draining' = "send"
      <4>1. One(draining' # "no") = 1 /\ One(registered') = r
        BY <3>3, OneIs
      <4> HIDE DEF h, r, n, k
      <4>2. refs' = h + k + 1 + r
        BY <3>0, <3>3
      <4> QED BY <3>0, <4>1, <4>2 DEF k
    <3> QED BY <2>2, <3>1, <3>2, <3>3
  <2>4. refs' \in Nat
    <3>1. One(held') \in Nat /\ One(draining' # "no") \in Nat /\ One(registered') \in Nat
      BY OneIs
    <3> QED BY <1>2, <2>3, <3>1
  <2> QED BY <2>3, <2>4 DEF RefsRight
<1>5. UdpSmall'
  <2>1. /\ UNCHANGED <<hasio, hascb, events, held, closing, calls, again, late, undefined>>
        /\ status' \in {status, "common"} /\ draining' \in {draining, "no", "send"}
        /\ fd' \in {fd, TRUE} /\ assigned' \in {assigned, TRUE}
        /\ registered' \in {registered, TRUE}
    BY <1>1, <1>3 DEF link
  <2>2. fd' \in BOOLEAN /\ assigned' \in BOOLEAN /\ registered' \in BOOLEAN
    BY <2>1 DEF UdpAll, UdpSmall
  <2>3. status' \in {"null", "init", "common"} /\ draining' \in {"no", "send", "recv"}
    BY <2>1 DEF UdpAll, UdpSmall
  <2> QED BY <2>1, <2>2, <2>3 DEF UdpAll, UdpSmall, events
<1>6. /\ sendq' = sendq /\ recvq' = recvq /\ bufrefs' = bufrefs /\ BuffersRight'
  BY <1>1 DEF UdpAll, BuffersRight, data
<1>7. UdpPendingIsOpen' /\ ClosedOwesNothing' /\ UdpLife'
  BY <1>1, <1>3 DEF UdpAll, UdpSmall, UdpPendingIsOpen, ClosedOwesNothing, UdpLife, link, events,
                    data
<1> QED BY <1>2, <1>4, <1>5, <1>6, <1>7 DEF UdpAll

LEMMA SendUdpStep ==
    ASSUME UdpAll, NEW b \in Buffers, AsyncSendTo(b)
    PROVE  UdpAll'
<1>1. /\ UNCHANGED <<life, link, rarm, recvq, queue, draining, refs, held, closing, calls, undefined>>
      /\ sendq' = Append(sendq, b) /\ bufrefs' = [bufrefs EXCEPT ![b] = @ + 1]
      /\ status = "common" /\ warm' \in BOOLEAN /\ again' \in 0..MaxAgain
      /\ late' \in BOOLEAN /\ (late \/ draining = "recv" => late' = TRUE)
  <2>1. /\ UNCHANGED <<life, link, rarm, recvq, queue, draining, refs, held, closing, calls, undefined>>
        /\ sendq' = Append(sendq, b) /\ bufrefs' = [bufrefs EXCEPT ![b] = @ + 1]
        /\ status = "common"
    BY DEF AsyncSendTo, InTurn
  <2>2. again' \in 0..MaxAgain
    BY UdpAssumption DEF AsyncSendTo, InTurn, UdpAll, UdpSmall
  <2>3. warm' \in BOOLEAN
    <3>1. warm' = (warm \/ sendq = <<>>)
      BY DEF AsyncSendTo
    <3> QED BY <3>1
  <2>4. late' \in BOOLEAN /\ (late \/ draining = "recv" => late' = TRUE)
    <3>1. late' = (late \/ draining = "recv")
      BY DEF AsyncSendTo
    <3> QED BY <3>1, Zenon
  <2> QED BY <2>1, <2>2, <2>3, <2>4
<1>2. sendq' \in Seq(Buffers)
  BY <1>1, AppendProperties DEF UdpAll
<1>3. BuffersRight' /\ bufrefs' \in [Buffers -> Nat]
  <2>1. ASSUME NEW c \in Buffers
        PROVE  /\ bufrefs'[c] = bufrefs[c] + One(b = c) /\ bufrefs[c] \in Nat
               /\ bufrefs[c] = CountOf(sendq, c) + CountOf(recvq, c)
               /\ CountOf(sendq', c) = CountOf(sendq, c) + One(b = c)
               /\ CountOf(sendq, c) \in Nat /\ CountOf(recvq, c) \in Nat
    <3>1. CountOf(sendq', c) = CountOf(sendq, c) + One(b = c)
      BY <1>1, CountAppend DEF UdpAll
    <3>2. CountOf(sendq, c) \in Nat /\ CountOf(recvq, c) \in Nat
      BY SeqIs, CountType DEF UdpAll
    <3>3. bufrefs'[c] = bufrefs[c] + One(b = c) /\ bufrefs[c] \in Nat
      BY <1>1 DEF UdpAll, One
    <3> QED BY <3>1, <3>2, <3>3 DEF UdpAll, BuffersRight
  <2>2. \A c \in Buffers : bufrefs'[c] = CountOf(sendq', c) + CountOf(recvq', c)
    <3>1. recvq' = recvq
      BY <1>1
    <3> QED BY <2>1, <3>1, OneIs
  <2>3. bufrefs' \in [Buffers -> Nat]
    BY <1>1 DEF UdpAll
  <2> QED BY <2>2, <2>3 DEF BuffersRight
<1>4. UdpSmall'
  BY <1>1 DEF UdpAll, UdpSmall, life, link
<1>5. recvq' = recvq /\ queue' = queue /\ refs' = refs /\ RefsRight'
  BY <1>1 DEF UdpAll, RefsRight, link
<1>6. UdpPendingIsOpen' /\ ClosedOwesNothing' /\ UdpLife'
  BY <1>1 DEF UdpAll, UdpSmall, UdpPendingIsOpen, ClosedOwesNothing, UdpLife, life, link
<1> QED BY <1>2, <1>3, <1>4, <1>5, <1>6 DEF UdpAll

LEMMA RecvUdpStep ==
    ASSUME UdpAll, NEW b \in Buffers, AsyncRecvSomeFrom(b)
    PROVE  UdpAll'
<1>1. /\ UNCHANGED <<life, link, warm, sendq, queue, draining, refs, held, closing, calls, late, undefined>>
      /\ recvq' = Append(recvq, b) /\ bufrefs' = [bufrefs EXCEPT ![b] = @ + 1]
      /\ status = "common" /\ rarm' \in BOOLEAN /\ again' \in 0..MaxAgain
  BY UdpAssumption DEF AsyncRecvSomeFrom, InTurn, UdpAll, UdpSmall
<1>2. recvq' \in Seq(Buffers)
  BY <1>1, AppendProperties DEF UdpAll
<1>3. BuffersRight' /\ bufrefs' \in [Buffers -> Nat]
  <2>1. ASSUME NEW c \in Buffers
        PROVE  /\ bufrefs'[c] = bufrefs[c] + One(b = c) /\ bufrefs[c] \in Nat
               /\ bufrefs[c] = CountOf(sendq, c) + CountOf(recvq, c)
               /\ CountOf(recvq', c) = CountOf(recvq, c) + One(b = c)
               /\ CountOf(sendq, c) \in Nat /\ CountOf(recvq, c) \in Nat
    <3>1. CountOf(recvq', c) = CountOf(recvq, c) + One(b = c)
      BY <1>1, CountAppend DEF UdpAll
    <3>2. CountOf(sendq, c) \in Nat /\ CountOf(recvq, c) \in Nat
      BY SeqIs, CountType DEF UdpAll
    <3>3. bufrefs'[c] = bufrefs[c] + One(b = c) /\ bufrefs[c] \in Nat
      BY <1>1 DEF UdpAll, One
    <3> QED BY <3>1, <3>2, <3>3 DEF UdpAll, BuffersRight
  <2>2. \A c \in Buffers : bufrefs'[c] = CountOf(sendq', c) + CountOf(recvq', c)
    <3>1. sendq' = sendq
      BY <1>1
    <3> QED BY <2>1, <3>1, OneIs
  <2>3. bufrefs' \in [Buffers -> Nat]
    BY <1>1 DEF UdpAll
  <2> QED BY <2>2, <2>3 DEF BuffersRight
<1>4. UdpSmall'
  BY <1>1 DEF UdpAll, UdpSmall, life, link
<1>5. sendq' = sendq /\ queue' = queue /\ refs' = refs /\ RefsRight'
  BY <1>1 DEF UdpAll, RefsRight, link
<1>6. UdpPendingIsOpen' /\ ClosedOwesNothing' /\ UdpLife'
  BY <1>1 DEF UdpAll, UdpSmall, UdpPendingIsOpen, ClosedOwesNothing, UdpLife, life, link
<1> QED BY <1>2, <1>3, <1>4, <1>5, <1>6 DEF UdpAll

\* A buffer that has been answered is released.
LEMMA DrainUdpStep ==
    ASSUME UdpAll, DrainSend \/ DrainRecv
    PROVE  UdpAll'
<1>1. PICK s \in Seq(Buffers), t \in Seq(Buffers) :
          /\ s # <<>>
          /\ bufrefs' = [bufrefs EXCEPT ![Head(s)] = @ - 1]
          /\ \/ s = sendq /\ t = recvq /\ sendq' = Tail(s) /\ recvq' = t
             \/ s = recvq /\ t = sendq /\ recvq' = Tail(s) /\ sendq' = t
  BY DEF UdpAll, DrainSend, DrainRecv
<1>2. UNCHANGED <<life, link, events, queue, draining, refs, held, closing, calls, again, late,
                  undefined>>
  BY DEF DrainSend, DrainRecv
<1>3. Head(s) \in Buffers /\ Tail(s) \in Seq(Buffers)
  BY <1>1, HeadTailProperties
<1>4. sendq' \in Seq(Buffers) /\ recvq' \in Seq(Buffers)
  BY <1>1, <1>3
<1>5. ASSUME NEW b \in Buffers
      PROVE  /\ bufrefs'[b] = CountOf(sendq', b) + CountOf(recvq', b)
             /\ bufrefs'[b] \in Nat
  <2> DEFINE x == One(Head(s) = b)
             m == CountOf(s, b)
             n == CountOf(t, b)
             k == CountOf(Tail(s), b)
  <2>1. m \in Nat /\ n \in Nat /\ k \in Nat
    BY <1>3, SeqIs, CountType
  <2>2. k = m - x
    BY <1>1, CountTail
  <2>3. CountOf(sendq, b) \in Nat /\ CountOf(recvq, b) \in Nat
    BY SeqIs, CountType DEF UdpAll
  <2>4. bufrefs[b] = m + n
    <3>1. bufrefs[b] = CountOf(sendq, b) + CountOf(recvq, b)
      BY DEF UdpAll, BuffersRight
    <3> HIDE DEF m, n
    <3> QED BY <1>1, <2>3, <3>1 DEF m, n
  <2>5. bufrefs'[b] = bufrefs[b] - x
    BY <1>1, <1>3, <2>1, <2>4 DEF UdpAll, One
  <2>6. x \in Nat
    BY DEF One
  <2>7. bufrefs'[b] = k + n /\ bufrefs'[b] \in Nat
    <3> HIDE DEF k, m, n, x
    <3> QED BY ONLY <2>1, <2>2, <2>4, <2>5, <2>6
  <2> HIDE DEF x
  <2>8. CASE sendq' = Tail(s) /\ recvq' = t
    BY <2>7, <2>8
  <2>9. CASE recvq' = Tail(s) /\ sendq' = t
    <3>1. k + n = n + k
      <4> HIDE DEF k, n
      <4> QED BY <2>1
    <3> QED BY <2>7, <2>9, <3>1
  <2> QED BY <1>1, <2>8, <2>9
<1>6. bufrefs' \in [Buffers -> Nat] /\ BuffersRight'
  <2>1. bufrefs' \in [Buffers -> Nat]
    BY <1>1, <1>5 DEF UdpAll
  <2> QED BY <1>5, <2>1 DEF BuffersRight
<1>7. UdpSmall' /\ queue' = queue /\ refs' = refs /\ RefsRight'
  <2>1. UdpSmall'
    BY <1>2 DEF UdpAll, UdpSmall, life, link, events
  <2> QED BY <1>2, <2>1 DEF UdpAll, RefsRight, link
<1>8. UdpPendingIsOpen' /\ ClosedOwesNothing' /\ UdpLife'
  BY <1>2 DEF UdpAll, UdpSmall, UdpPendingIsOpen, ClosedOwesNothing, UdpLife, life, link, events,
              DrainSend, DrainRecv
<1> QED BY <1>4, <1>6, <1>7, <1>8 DEF UdpAll

\* The end of real_close gives the registry's reference and its own back.
LEMMA CloseEndUdpStep ==
    ASSUME UdpAll, CloseEnd
    PROVE  UdpAll'
<1>1. /\ UNCHANGED <<hasio, assigned, data, queue, held, closing, calls, again, late>>
      /\ status' = "null" /\ draining = "recv" /\ draining' = "no" /\ recvq = <<>>
      /\ refs' = (IF registered THEN refs - 1 ELSE refs) - 1
  BY DEF CloseEnd
<1>2. UdpSmall' /\ fd' = FALSE /\ registered' = FALSE /\ hascb' = FALSE
  <2>1. /\ fd' = FALSE /\ hascb' = FALSE /\ rarm' = FALSE /\ warm' = FALSE /\ registered' = FALSE
        /\ undefined' \in BOOLEAN
    BY DEF CloseEnd
  <2>2. /\ fd' \in BOOLEAN /\ hascb' \in BOOLEAN /\ rarm' \in BOOLEAN /\ warm' \in BOOLEAN
        /\ registered' \in BOOLEAN /\ undefined' \in BOOLEAN
    BY <2>1
  <2>3. status' \in {"null", "init", "common"} /\ draining' \in {"no", "send", "recv"}
    BY <1>1
  <2> QED BY <1>1, <2>1, <2>2, <2>3 DEF UdpAll, UdpSmall
<1>3. RefsRight' /\ refs' \in Nat
  <2>1. Len(queue) \in Nat
    BY SeqIs DEF UdpAll
  <2>2. refs = One(held) + Len(queue) + 1 + One(registered) /\ One(held) \in Nat /\ refs \in Nat
    BY <1>1 DEF UdpAll, RefsRight, One
  <2>3. refs' = refs - 1 - One(registered)
    BY <1>1, <2>2 DEF One
  <2>4. held' = held /\ queue' = queue
    BY <1>1
  <2>5. One(registered) \in Nat /\ One(draining' # "no") = 0 /\ One(registered') = 0
    BY <1>1, <1>2 DEF One
  <2> DEFINE h == One(held)
             n == Len(queue)
             r == One(registered)
  <2>6. refs' = h + n /\ refs' \in Nat
    <3>1. refs = h + n + 1 + r /\ h \in Nat /\ n \in Nat /\ r \in Nat /\ refs' = refs - 1 - r /\ refs \in Nat
      BY <2>1, <2>2, <2>3, <2>5
    <3> HIDE DEF h, n, r
    <3> QED BY ONLY <3>1
  <2>7. One(held') = h /\ Len(queue') = n
    BY <2>4
  <2> HIDE DEF h, n, r
  <2> QED BY <2>1, <2>2, <2>5, <2>6, <2>7 DEF RefsRight, h, n
<1>4. UdpPendingIsOpen' /\ ClosedOwesNothing' /\ UdpLife'
  <2>1. rarm' = FALSE /\ warm' = FALSE
    BY DEF CloseEnd
  <2> QED BY <1>1, <1>2, <2>1 DEF UdpAll, UdpPendingIsOpen, ClosedOwesNothing, UdpLife, data
<1>5. /\ sendq' = sendq /\ recvq' = recvq /\ bufrefs' = bufrefs /\ queue' = queue /\ BuffersRight'
  BY <1>1 DEF UdpAll, BuffersRight, data
<1> QED BY <1>2, <1>3, <1>4, <1>5 DEF UdpAll

LEMMA InitUdp == UdpInit => UdpAll
<1> SUFFICES ASSUME UdpInit PROVE UdpAll
  OBVIOUS
<1>1. UdpSmall
  <2>1. calls = 0 /\ again = 0 /\ 0 \in 0..MaxCalls /\ 0 \in 0..MaxAgain
    BY UdpAssumption DEF UdpInit
  <2> QED BY <2>1 DEF UdpInit, UdpSmall
<1>2. sendq \in Seq(Buffers) /\ recvq \in Seq(Buffers) /\ queue \in Seq({"listen", "close"})
  BY DEF UdpInit
<1>3. bufrefs \in [Buffers -> Nat] /\ BuffersRight
  <2>1. \A b \in Buffers : CountOf(sendq, b) = 0 /\ CountOf(recvq, b) = 0
    BY CountNone DEF UdpInit
  <2> QED BY <2>1 DEF UdpInit, BuffersRight
<1>4. refs \in Nat /\ RefsRight
  BY EmptySeq DEF UdpInit, RefsRight, One
<1> QED BY <1>1, <1>2, <1>3, <1>4 DEF UdpAll, UdpInit, UdpPendingIsOpen, ClosedOwesNothing, UdpLife

\* The socket is counted for what holds it and the buffers for what waits, the
\* events are pending only while the descriptor is open, and a closed socket owes
\* its user nothing: impl_udpsocket.cpp's real_listen and real_close with the
\* calls of the user in between.
THEOREM UdpRight == UdpSpec => []UdpInv
<1>1. UdpInit => UdpIInv
  BY InitUdp, UdpParts
<1>2. UdpIInv /\ [UdpNext]_udpvars => UdpIInv'
  <2> SUFFICES ASSUME UdpAll, [UdpNext]_udpvars PROVE UdpAll'
    BY UdpParts, UdpPartsNext
  <2>1. CASE UNCHANGED udpvars
    BY <2>1 DEF udpvars, life, link, events, data, UdpAll, UdpSmall, RefsRight, BuffersRight,
                UdpPendingIsOpen, ClosedOwesNothing, UdpLife
  <2>2. CASE InitSocket \/ EventFires \/ Closes \/ DrainedSend
    BY <2>2, QuietUdpStep
  <2>3. CASE Listen \/ Fini \/ Sweep
    BY <2>3, PostUdpStep
  <2>4. CASE UserRelease
    BY <2>4, ReleaseUdpStep
  <2>5. CASE RunListen \/ RunCloseAgain \/ RunClose
    BY <2>5, RunUdpStep
  <2>6. CASE \E b \in Buffers : AsyncSendTo(b) \/ AsyncRecvSomeFrom(b)
    BY <2>6, SendUdpStep, RecvUdpStep
  <2>7. CASE DrainSend \/ DrainRecv
    BY <2>7, DrainUdpStep
  <2>8. CASE CloseEnd
    BY <2>8, CloseEndUdpStep
  <2> QED BY <2>1, <2>2, <2>3, <2>4, <2>5, <2>6, <2>7, <2>8 DEF UdpNext, UdpUserStep, UdpIOStep
<1>3. UdpIInv => UdpInv
  BY DEF UdpIInv
<1> QED BY <1>1, <1>2, <1>3, PTL DEF UdpSpec

-----------------------------------------------------------------------------
(* MD5Update and MD5Final: arithmetic *)

LEMMA DivMod ==
    ASSUME NEW n \in Nat, NEW a \in Nat \ {0}
    PROVE  /\ n \div a \in Nat
           /\ n % a \in 0..(a - 1)
           /\ n = ((n \div a) * a) + (n % a)
OBVIOUS

LEMMA DivModUnique ==
    ASSUME NEW q \in Nat, NEW a \in Nat \ {0}, NEW r \in 0..(a - 1)
    PROVE  ((q * a) + r) \div a = q /\ ((q * a) + r) % a = r
<1> DEFINE n == (q * a) + r
           p == n \div a
           s == n % a
<1>1. q * a \in Nat /\ n \in Nat
  OBVIOUS
<1>2. p \in Nat /\ s \in 0..(a - 1) /\ n = (p * a) + s
  BY <1>1, DivMod
<1> HIDE DEF p, s
<1>3. (q - p) * a = s - r
  BY <1>2
<1>4. q = p
  <2>1. CASE q > p
    <3>1. (q - p) * a = a + ((q - p - 1) * a) /\ (q - p - 1) * a \in Nat
      BY <1>2, <2>1
    <3> QED BY <1>2, <1>3, <3>1
  <2>2. CASE q < p
    <3>1. (p - q) * a = a + ((p - q - 1) * a) /\ (p - q - 1) * a \in Nat
      BY <1>2, <2>2
    <3>2. (p - q) * a = r - s
      BY <1>2, <1>3
    <3> QED BY <1>2, <3>1, <3>2
  <2> QED BY <1>2, <2>1, <2>2
<1>5. s = r
  BY <1>2, <1>4
<1> QED BY <1>4, <1>5 DEF p, s

\* What is added modulo a may be reduced first.
LEMMA ModOfSum ==
    ASSUME NEW m \in Nat, NEW n \in Nat, NEW a \in Nat \ {0}
    PROVE  ((m % a) + n) % a = (m + n) % a
<1> DEFINE p == m \div a
           r == m % a
<1>1. p \in Nat /\ r \in 0..(a - 1) /\ m = (p * a) + r
  BY DivMod
<1> HIDE DEF p, r
<1> DEFINE k == (r + n) \div a
           t == (r + n) % a
           u == p + k
<1>2. k \in Nat /\ t \in 0..(a - 1) /\ r + n = (k * a) + t
  <2>1. r + n \in Nat
    BY <1>1
  <2> QED BY <2>1, DivMod
<1>3. m + n = (u * a) + t /\ u \in Nat
  <2> HIDE DEF k, t
  <2> QED BY <1>1, <1>2
<1> HIDE DEF k, u
<1>4. (m + n) % a = t
  <2> HIDE DEF t
  <2>1. ((u * a) + t) % a = t
    BY <1>2, <1>3, DivModUnique
  <2> QED BY <1>3, <2>1
<1> QED BY <1>4 DEF r, t

\* Both, with what the quotients of the two leave.
LEMMA SumOfMods ==
    ASSUME NEW m \in Nat, NEW n \in Nat, NEW a \in Nat \ {0}
    PROVE  /\ ((m % a) + (n % a)) % a = (m + n) % a
           /\ (m + n) \div a = (m \div a) + (n \div a) + (((m % a) + (n % a)) \div a)
<1> DEFINE p == m \div a
           r == m % a
           q == n \div a
           s == n % a
<1>1. p \in Nat /\ r \in 0..(a - 1) /\ m = (p * a) + r
  BY DivMod
<1>2. q \in Nat /\ s \in 0..(a - 1) /\ n = (q * a) + s
  BY DivMod
<1> HIDE DEF p, r, q, s
<1> DEFINE k == (r + s) \div a
           t == (r + s) % a
           u == p + q + k
<1>3. k \in Nat /\ t \in 0..(a - 1) /\ r + s = (k * a) + t
  <2>1. r + s \in Nat
    BY <1>1, <1>2
  <2> QED BY <2>1, DivMod
<1> HIDE DEF k, t
<1>4. m + n = (u * a) + t /\ u \in Nat
  BY <1>1, <1>2, <1>3
<1> HIDE DEF u
<1>5. (m + n) % a = t /\ (m + n) \div a = u
  BY <1>3, <1>4, DivModUnique
<1> QED BY <1>5 DEF p, r, q, s, k, t, u

-----------------------------------------------------------------------------
(* The count of bits *)

\* The two words that count n bytes.
Counts(n) == <<(8 * n) % Word, ((8 * n) \div Word) % Word>>

\* Added carries: the low word is below what was added to it just when it wrapped.
LEMMA AddedCounts ==
    ASSUME NEW n \in Nat, NEW len \in Nat
    PROVE  Added(Counts(n), len) = Counts(n + len)
<1> DEFINE N == 8 * n
           X == 8 * len
           c == N % Word
           b == X % Word
           low == (c + b) % Word
           carry == IF low < b THEN 1 ELSE 0
           h == N \div Word
           g == X \div Word
<1>0. Word \in Nat \ {0} /\ N \in Nat /\ X \in Nat /\ 8 * (n + len) = N + X
  BY Md5Assumption
<1>1. c \in 0..(Word - 1) /\ b \in 0..(Word - 1) /\ h \in Nat /\ g \in Nat
  BY <1>0, DivMod
<1> HIDE DEF N, X
<1>2. low = (N + X) % Word /\ (N + X) \div Word = h + g + ((c + b) \div Word)
  BY <1>0, SumOfMods
<1> HIDE DEF c, b, h, g
<1>3. carry = (c + b) \div Word
  <2>1. CASE c + b < Word
    <3>1. low = c + b /\ (c + b) \div Word = 0
      BY <1>0, <1>1, <2>1, DivModUnique
    <3> QED BY <1>1, <3>1
  <2>2. CASE c + b >= Word
    <3> DEFINE d == c + b - Word
    <3>1. c + b = (1 * Word) + d /\ d \in 0..(Word - 1)
      BY <1>0, <1>1, <2>2
    <3> HIDE DEF d
    <3>2. ((1 * Word) + d) % Word = d /\ ((1 * Word) + d) \div Word = 1
      BY <1>0, <3>1, DivModUnique
    <3>3. low = d /\ (c + b) \div Word = 1
      BY <3>1, <3>2
    <3>4. d < b
      BY <1>0, <1>1 DEF d
    <3> QED BY <3>3, <3>4
  <2> QED BY <1>0, <1>1, <2>1, <2>2
<1>4. ((h % Word) + carry + g) % Word = (h + g + carry) % Word
  <2>1. carry \in Nat
    OBVIOUS
  <2> HIDE DEF carry
  <2> DEFINE f == g + carry
  <2>2. ((h % Word) + f) % Word = (h + f) % Word
    <3>1. f \in Nat
      BY <1>1, <2>1
    <3> HIDE DEF f
    <3>2. h \in Nat /\ Word \in Nat \ {0}
      BY <1>0, <1>1
    <3> QED BY <3>1, <3>2, ModOfSum
  <2> DEFINE x == h % Word
  <2>3. x \in Int
    BY <1>0, <1>1, DivMod
  <2> HIDE DEF x
  <2>4. x + carry + g = x + f /\ h + g + carry = h + f
    BY <1>1, <2>1, <2>3
  <2> HIDE DEF f
  <2> QED BY <2>2, <2>4 DEF x
<1>5. Added(Counts(n), len) = <<low, ((h % Word) + carry + g) % Word>>
  BY DEF Added, Counts, N, X, c, b, h, g
<1>6. Counts(n + len) = <<(N + X) % Word, ((N + X) \div Word) % Word>>
  BY <1>0 DEF Counts
<1> QED BY <1>2, <1>3, <1>4, <1>5, <1>6

\* The low word alone tells the place in the block.
LEMMA IndexOfCounts ==
    ASSUME NEW n \in Nat, NEW ctx, ctx.count = Counts(n)
    PROVE  Index(ctx) = n % Block
<1>0. Block \in Nat \ {0} /\ Word \in Nat \ {0} /\ Word % (8 * Block) = 0 /\ 8 * Block \in Nat \ {0}
  BY Md5Assumption
<1> DEFINE k == Word \div (8 * Block)
<1>1. k \in Nat /\ Word = (k * (8 * Block)) + 0
  BY <1>0, DivMod
<1> HIDE DEF k
<1> DEFINE m == k * Block
<1>2. m \in Nat \ {0} /\ Word = 8 * m
  BY <1>0, <1>1
<1> HIDE DEF m
<1> DEFINE q == n \div m
           r == n % m
<1>3. q \in Nat /\ r \in 0..(m - 1) /\ n = (q * m) + r
  BY <1>2, DivMod
<1> HIDE DEF q, r
<1> DEFINE s == r \div Block
           t == r % Block
<1>4. s \in Nat /\ t \in 0..(Block - 1) /\ r = (s * Block) + t
  <2>1. r \in Nat
    BY <1>2, <1>3
  <2> QED BY <1>0, <2>1, DivMod
<1> HIDE DEF s, t
<1>5. (8 * n) % Word = 8 * r
  <2> DEFINE e == 8 * r
  <2>1. 8 * n = (q * Word) + e /\ e \in 0..(Word - 1)
    <3> DEFINE y == q * m
    <3>1. q * Word = 8 * y /\ y \in Nat
      BY <1>2, <1>3
    <3> HIDE DEF y
    <3> QED BY <1>2, <1>3, <3>1 DEF y
  <2> HIDE DEF e
  <2>2. ((q * Word) + e) % Word = e
    <3>1. q \in Nat /\ Word \in Nat \ {0} /\ e \in 0..(Word - 1)
      BY <1>0, <1>3, <2>1
    <3> QED BY <3>1, DivModUnique
  <2> QED BY <2>1, <2>2 DEF e
<1>6. (8 * r) \div 8 = r
  BY <1>3
<1>7. n % Block = t
  <2> DEFINE j == (q * k) + s
  <2>1. n = (j * Block) + t /\ j \in Nat
    BY <1>0, <1>1, <1>3, <1>4 DEF m
  <2> HIDE DEF j
  <2> QED BY <1>0, <1>4, <2>1, DivModUnique
<1>8. Index(ctx) = (((8 * n) % Word) \div 8) % Block
  <2>1. ctx.count[1] = (8 * n) % Word
    BY DEF Counts
  <2> QED BY <2>1 DEF Index
<1>9. Index(ctx) = r % Block
  BY <1>5, <1>6, <1>8
<1> QED BY <1>7, <1>9 DEF t

\* Both words together.
LEMMA TwoWords ==
    ASSUME NEW n \in Nat
    PROVE  Counts(n)[1] + Word * Counts(n)[2] = (8 * n) % (Word * Word)
<1>0. Word \in Nat \ {0} /\ Word * Word \in Nat \ {0}
  BY Md5Assumption
<1> DEFINE N == 8 * n
           q == N \div Word
           r == N % Word
<1>1. N \in Nat /\ q \in Nat /\ r \in 0..(Word - 1) /\ N = (q * Word) + r
  <2>1. N \in Nat
    OBVIOUS
  <2> HIDE DEF N
  <2> QED BY <1>0, <2>1, DivMod
<1> HIDE DEF q, r, N
<1> DEFINE p == q \div Word
           s == q % Word
<1>2. p \in Nat /\ s \in 0..(Word - 1) /\ q = (p * Word) + s
  BY <1>0, <1>1, DivMod
<1> HIDE DEF p, s
<1>3. N = (p * (Word * Word)) + (r + Word * s)
  BY <1>0, <1>1, <1>2
<1>4. r + Word * s \in 0..(Word * Word - 1)
  <2>1. Word * s \in Nat /\ Word * (Word - 1 - s) \in Nat
    BY <1>0, <1>2
  <2>2. Word * (Word - 1 - s) = Word * Word - Word - Word * s
    BY <1>0, <1>2
  <2> QED BY <1>0, <1>1, <2>1, <2>2
<1>5. N % (Word * Word) = r + Word * s
  BY <1>0, <1>2, <1>3, <1>4, DivModUnique
<1> QED BY <1>5 DEF Counts, N, q, r, p, s

-----------------------------------------------------------------------------
(* Blocks *)

MdBytes == {"message", "length", "mark", "zero", "junk"} \X Nat \X Nat
MdBlocks == [1..Block -> MdBytes]

\* The block that begins after so many blocks, and the first blocks of a message.
BlockAt(s, k) == [i \in 1..Block |-> s[(k - 1) * Block + i]]
BlocksOf(s, n) == [k \in 1..n |-> BlockAt(s, k)]

\* Where the bytes of a block are.
LEMMA InBlock ==
    ASSUME NEW q \in Nat, NEW k \in 1..q, NEW i \in 1..Block
    PROVE  (k - 1) * Block + i \in 1..(q * Block)
<1>0. Block \in Nat \ {0}
  BY Md5Assumption
<1>1. (q - k) * Block \in Nat /\ (k - 1) * Block \in Nat
  BY <1>0
<1>2. (k - 1) * Block + Block + (q - k) * Block = q * Block
  BY <1>0
<1> QED BY <1>0, <1>1, <1>2

LEMMA BlockAtType ==
    ASSUME NEW s \in Seq(MdBytes), NEW q \in Nat, q * Block <= Len(s)
    PROVE  /\ \A k \in 1..q : BlockAt(s, k) \in MdBlocks
           /\ BlocksOf(s, q) \in Seq(MdBlocks) /\ Len(BlocksOf(s, q)) = q
<1>1. ASSUME NEW k \in 1..q PROVE BlockAt(s, k) \in MdBlocks
  <2>1. ASSUME NEW i \in 1..Block PROVE s[(k - 1) * Block + i] \in MdBytes
    <3>1. q * Block \in Nat /\ Len(s) \in Nat
      BY Md5Assumption, LenProperties
    <3> DEFINE j == (k - 1) * Block + i
    <3>2. j \in 1..Len(s)
      BY <3>1, InBlock
    <3> HIDE DEF j
    <3>3. s[j] \in MdBytes
      BY <3>2, ElementOfSeq
    <3> QED BY <3>3 DEF j
  <2> QED BY <2>1 DEF BlockAt, MdBlocks
<1>2. BlocksOf(s, q) \in [1..q -> MdBlocks]
  BY <1>1 DEF BlocksOf
<1>3. BlocksOf(s, q) \in Seq(MdBlocks)
  BY <1>2, SeqDef
<1>4. Len(BlocksOf(s, q)) = q
  BY <1>2, <1>3, LenProperties
<1> QED BY <1>1, <1>3, <1>4

\* A piece of a sequence that is as long as a block is one.
LEMMA PieceIsBlock ==
    ASSUME NEW s \in Seq(MdBytes), NEW m \in Nat, m + Block <= Len(s)
    PROVE  /\ SubSeq(s, m + 1, m + Block) = [i \in 1..Block |-> s[m + i]]
           /\ SubSeq(s, m + 1, m + Block) \in MdBlocks
<1> DEFINE p == SubSeq(s, m + 1, m + Block)
<1>0. Block \in Nat \ {0} /\ Len(s) \in Nat
  BY Md5Assumption, LenProperties
<1>1. \A i \in (m + 1)..(m + Block) : s[i] \in MdBytes
  BY <1>0, ElementOfSeq
<1>2. /\ p \in Seq(MdBytes) /\ Len(p) = Block
      /\ \A i \in 1..Block : p[i] = s[m + i]
  <2>1. m + 1 \in Int /\ m + Block \in Int
    BY <1>0
  <2>2. /\ p \in Seq(MdBytes)
        /\ Len(p) = IF m + 1 <= m + Block THEN (m + Block) - (m + 1) + 1 ELSE 0
        /\ \A i \in 1..((m + Block) - (m + 1) + 1) : p[i] = s[(m + 1) + i - 1]
    BY <1>1, <2>1, SubSeqProperties
  <2> HIDE DEF p
  <2>3. (m + Block) - (m + 1) + 1 = Block /\ \A i \in 1..Block : (m + 1) + i - 1 = m + i
    BY <1>0
  <2> QED BY <1>0, <2>2, <2>3
<1> HIDE DEF p
<1>3. p \in [1..Block -> MdBytes]
  BY <1>2, LenProperties
<1> QED BY <1>2, <1>3 DEF p, MdBlocks

LEMMA CutIsBlocks ==
    ASSUME NEW s \in Seq(MdBytes)
    PROVE  CutIntoBlocks(s) = BlocksOf(s, Len(s) \div Block)
<1> DEFINE q == Len(s) \div Block
<1>0. Block \in Nat \ {0} /\ Len(s) \in Nat
  BY Md5Assumption, LenProperties
<1>1. q \in Nat /\ Len(s) % Block \in 0..(Block - 1) /\ Len(s) = (q * Block) + (Len(s) % Block)
  BY <1>0, DivMod
<1> HIDE DEF q
<1>2. ASSUME NEW k \in 1..q
      PROVE  SubSeq(s, (k - 1) * Block + 1, k * Block) = BlockAt(s, k)
  <2> DEFINE m == (k - 1) * Block
  <2>1. m \in Nat /\ k * Block = m + Block
    BY <1>0
  <2>2. m + Block \in 1..(q * Block)
    BY <1>0, <1>1, InBlock
  <2>3. m + Block <= Len(s)
    BY <1>0, <1>1, <2>1, <2>2
  <2> HIDE DEF m
  <2>4. SubSeq(s, m + 1, m + Block) = [i \in 1..Block |-> s[m + i]]
    BY <2>1, <2>3, PieceIsBlock
  <2> QED BY <2>1, <2>4 DEF m, BlockAt
<1> QED BY <1>2 DEF CutIntoBlocks, BlocksOf, q

\* memcpy into a block, when there is room.
LEMMA CopyFits ==
    ASSUME NEW buffer \in MdBlocks, NEW index \in Nat, NEW piece \in Seq(MdBytes),
           index + Len(piece) <= Block
    PROVE  /\ Copy(buffer, index, piece) \in MdBlocks
           /\ \A i \in 1..Block : Copy(buffer, index, piece)[i] =
                IF i \in (index + 1)..(index + Len(piece)) THEN piece[i - index] ELSE buffer[i]
<1>0. Block \in Nat \ {0} /\ Len(piece) \in Nat
  BY Md5Assumption, LenProperties
<1>1. \A i \in 1..Block : i \in (index + 1)..(index + Len(piece)) => piece[i - index] \in MdBytes
  <2> SUFFICES ASSUME NEW i \in 1..Block, i \in (index + 1)..(index + Len(piece))
               PROVE  piece[i - index] \in MdBytes
    OBVIOUS
  <2> DEFINE j == i - index
  <2>1. j \in 1..Len(piece)
    BY <1>0
  <2> HIDE DEF j
  <2>2. piece[j] \in MdBytes
    BY <2>1, ElementOfSeq
  <2> QED BY <2>2 DEF j
<1>2. Copy(buffer, index, piece) \in MdBlocks
  BY <1>1 DEF Copy, MdBlocks
<1> QED BY <1>2 DEF Copy

\* One block between others.
LEMMA BlocksJoin ==
    ASSUME NEW a \in Seq(MdBlocks), NEW x \in MdBlocks, NEW c \in Seq(MdBlocks),
           NEW f \in Seq(MdBlocks), Len(f) = Len(a) + 1 + Len(c),
           \A i \in 1..Len(a) : f[i] = a[i],
           f[Len(a) + 1] = x,
           \A k \in 1..Len(c) : f[Len(a) + 1 + k] = c[k]
    PROVE  a \o <<x>> \o c = f
<1> DEFINE b == a \o <<x>>
           d == b \o c
<1>1. Len(a) \in Nat /\ Len(c) \in Nat
  BY LenProperties
<1>2. /\ b \in Seq(MdBlocks) /\ Len(b) = Len(a) + 1 /\ b[Len(a) + 1] = x
      /\ \A i \in 1..Len(a) : b[i] = a[i]
  BY AppendProperties, AppendIsConcat
<1> HIDE DEF b
<1>3. /\ d \in Seq(MdBlocks) /\ Len(d) = Len(b) + Len(c)
      /\ \A i \in 1..(Len(b) + Len(c)) : d[i] = IF i <= Len(b) THEN b[i] ELSE c[i - Len(b)]
  BY <1>2, ConcatProperties
<1> HIDE DEF d
<1>4. ASSUME NEW i \in 1..Len(d) PROVE d[i] = f[i]
  <2>1. CASE i <= Len(a)
    BY <1>1, <1>2, <1>3, <2>1
  <2>2. CASE i = Len(a) + 1
    BY <1>1, <1>2, <1>3, <2>2
  <2>3. CASE i > Len(a) + 1
    <3> DEFINE k == i - (Len(a) + 1)
    <3>1. k \in 1..Len(c) /\ Len(a) + 1 + k = i /\ i - Len(b) = k
      BY <1>1, <1>2, <1>3, <2>3
    <3> HIDE DEF k
    <3> QED BY <1>1, <1>2, <1>3, <2>3, <3>1
  <2> QED BY <1>1, <1>2, <1>3, <2>1, <2>2, <2>3
<1>5. Len(d) = Len(f)
  BY <1>1, <1>2, <1>3
<1>6. d = f
  BY <1>3, <1>4, <1>5, SeqEqual
<1> QED BY <1>6 DEF d, b

-----------------------------------------------------------------------------
(* What a context holds *)

\* The context that has been given a message: the count of its bits, its whole
\* blocks, and the rest at the beginning of the buffer.
Holds(ctx, s) ==
    \E buffer \in MdBlocks :
        /\ ctx = [count |-> Counts(Len(s)), state |-> BlocksOf(s, Len(s) \div Block),
                  buffer |-> buffer]
        /\ \A i \in 1..(Len(s) % Block) : buffer[i] = s[(Len(s) \div Block) * Block + i]

\* MD5Update adds its input to the message, however little or much of the buffer
\* was filled.
LEMMA UpdateHolds ==
    ASSUME NEW s \in Seq(MdBytes), NEW input \in Seq(MdBytes), NEW ctx, Holds(ctx, s)
    PROVE  Holds(MD5Update(ctx, input), s \o input)
<1> DEFINE n == Len(s)
           L == Len(input)
           t == s \o input
           q == n \div Block
           r == n % Block
<1>0. Block \in Nat \ {0} /\ n \in Nat /\ L \in Nat
  BY Md5Assumption, LenProperties
<1>1. q \in Nat /\ r \in 0..(Block - 1) /\ n = (q * Block) + r /\ q * Block \in Nat
  <2>1. q \in Nat /\ r \in 0..(Block - 1) /\ n = (q * Block) + r
    <3> HIDE DEF n
    <3> QED BY <1>0, DivMod
  <2> HIDE DEF n, q, r
  <2> QED BY <1>0, <2>1
<1>2. PICK buffer \in MdBlocks :
          /\ ctx = [count |-> Counts(n), state |-> BlocksOf(s, q), buffer |-> buffer]
          /\ \A i \in 1..r : buffer[i] = s[q * Block + i]
  BY DEF Holds
<1>3. Index(ctx) = r
  BY <1>0, <1>2, IndexOfCounts
<1>4. Added(ctx.count, L) = Counts(n + L)
  BY <1>0, <1>2, AddedCounts
<1>5. /\ t \in Seq(MdBytes) /\ Len(t) = n + L
      /\ \A i \in 1..n : t[i] = s[i]
      /\ \A i \in 1..L : t[n + i] = input[i]
  <2>1. /\ t \in Seq(MdBytes) /\ Len(t) = n + L
        /\ \A i \in 1..(n + L) : t[i] = IF i <= n THEN s[i] ELSE input[i - n]
    BY ConcatProperties
  <2> HIDE DEF t, n, L
  <2>2. \A i \in 1..L : n + i \in 1..(n + L) /\ ~(n + i <= n) /\ (n + i) - n = i
    BY <1>0
  <2>3. \A i \in 1..n : i \in 1..(n + L) /\ i <= n
    BY <1>0
  <2> QED BY <2>1, <2>2, <2>3
<1> HIDE DEF n, L, t, q, r
<1>6. \A k \in 1..q : BlockAt(t, k) = BlockAt(s, k)
  <2> SUFFICES ASSUME NEW k \in 1..q, NEW i \in 1..Block
               PROVE  t[(k - 1) * Block + i] = s[(k - 1) * Block + i]
    BY DEF BlockAt
  <2> DEFINE j == (k - 1) * Block + i
  <2>1. j \in 1..(q * Block)
    BY <1>1, InBlock
  <2> HIDE DEF j
  <2>2. j \in 1..n
    BY <1>0, <1>1, <2>1
  <2> QED BY <1>5, <2>2 DEF j
<1>7. CASE L < Block - r
  <2> DEFINE new == Copy(buffer, r, input)
  <2>1. MD5Update(ctx, input) = [count |-> Counts(n + L), state |-> BlocksOf(s, q), buffer |-> new]
    <3>1. MD5Update(ctx, input) = [ctx EXCEPT !.count = Added(@, L), !.buffer = Copy(@, r, input)]
      BY <1>3, <1>7 DEF MD5Update, L
    <3> QED BY <1>2, <1>4, <3>1
  <2>2. (n + L) \div Block = q /\ (n + L) % Block = r + L
    <3> DEFINE e == r + L
    <3>1. e \in 0..(Block - 1) /\ n + L = (q * Block) + e
      BY <1>0, <1>1, <1>7
    <3> HIDE DEF e
    <3>2. ((q * Block) + e) \div Block = q /\ ((q * Block) + e) % Block = e
      BY <1>0, <1>1, <3>1, DivModUnique
    <3> QED BY <3>1, <3>2 DEF e
  <2>3. BlocksOf(t, q) = BlocksOf(s, q)
    BY <1>6 DEF BlocksOf
  <2>4. /\ new \in MdBlocks
        /\ \A i \in 1..Block : new[i] = IF i \in (r + 1)..(r + L) THEN input[i - r] ELSE buffer[i]
    <3>1. r \in Nat /\ r + Len(input) <= Block
      BY <1>0, <1>1, <1>7 DEF L
    <3> QED BY <3>1, CopyFits DEF L
  <2> HIDE DEF new
  <2>5. ASSUME NEW i \in 1..(r + L) PROVE new[i] = t[q * Block + i]
    <3>0. i \in 1..Block
      BY <1>0, <1>1, <1>7
    <3>1. CASE i <= r
      <4>1. new[i] = buffer[i] /\ i \in 1..r
        BY <1>0, <1>1, <2>4, <3>0, <3>1
      <4>2. q * Block + i \in 1..n
        BY <1>0, <1>1, <4>1
      <4> QED BY <1>2, <1>5, <4>1, <4>2
    <3>2. CASE i > r
      <4> DEFINE j == i - r
      <4>1. j \in 1..L /\ n + j = q * Block + i /\ i \in (r + 1)..(r + L)
        BY <1>0, <1>1, <3>2
      <4>2. new[i] = input[j]
        BY <2>4, <3>0, <4>1
      <4> HIDE DEF j
      <4> QED BY <1>5, <4>1, <4>2
    <3> QED BY <1>1, <3>1, <3>2
  <2>6. /\ MD5Update(ctx, input) = [count |-> Counts(Len(t)), state |-> BlocksOf(t, Len(t) \div Block),
                                     buffer |-> new]
        /\ \A i \in 1..(Len(t) % Block) : new[i] = t[(Len(t) \div Block) * Block + i]
    BY <1>5, <2>1, <2>2, <2>3, <2>5
  <2> QED BY <2>4, <2>6 DEF Holds, t
<1>8. CASE L >= Block - r
  <2> DEFINE gap == Block - r
             w == (L - gap) \div Block
             e == (L - gap) % Block
             y == w * Block
             used == gap + y
             m == q + 1 + w
             front == SubSeq(input, 1, gap)
             rest == SubSeq(input, used + 1, L)
             first == Copy(buffer, r, front)
             whole == [k \in 1..w |-> SubSeq(input, gap + (k - 1) * Block + 1, gap + k * Block)]
             new == Copy(first, 0, rest)
  <2>1. gap \in 1..Block /\ r + gap = Block /\ L - gap \in Nat
    BY <1>0, <1>1, <1>8
  <2>2. MD5Update(ctx, input) = [count |-> Counts(n + L),
                                 state |-> BlocksOf(s, q) \o <<first>> \o whole, buffer |-> new]
    <3>1. ~(L < Block - r)
      BY <1>0, <1>1, <1>8
    <3>2. /\ ctx.count = Counts(n) /\ ctx.state = BlocksOf(s, q) /\ ctx.buffer = buffer
          /\ Added(Counts(n), L) = Counts(n + L)
      BY <1>2, <1>4
    <3> QED BY <1>3, <3>1, <3>2 DEF MD5Update, L
  <2>3. w \in Nat /\ e \in 0..(Block - 1) /\ L - gap = y + e /\ y \in Nat
    <3> DEFINE x == L - gap
    <3>1. x \in Nat
      BY <2>1
    <3> HIDE DEF x
    <3>2. x \div Block \in Nat /\ x % Block \in 0..(Block - 1) /\ x = ((x \div Block) * Block) + (x % Block)
      BY <1>0, <3>1, DivMod
    <3>3. w \in Nat /\ e \in 0..(Block - 1) /\ L - gap = (w * Block) + e
      BY <3>2 DEF x
    <3> HIDE DEF w, gap
    <3> QED BY <1>0, <3>3
  <2> HIDE DEF w, e, gap
  <2>4. m \in Nat /\ n + L = (m * Block) + e /\ m * Block = q * Block + Block + y
    BY <1>0, <1>1, <2>1, <2>3
  <2>y. y = w * Block
    OBVIOUS
  <2> HIDE DEF y
  <2>5. (n + L) \div Block = m /\ (n + L) % Block = e
    <3> HIDE DEF m
    <3>1. ((m * Block) + e) \div Block = m /\ ((m * Block) + e) % Block = e
      BY <1>0, <2>3, <2>4, DivModUnique
    <3> QED BY <2>4, <3>1
  <2>6. /\ front \in Seq(MdBytes) /\ Len(front) = gap
        /\ \A i \in 1..gap : front[i] = input[i]
    <3>1. \A i \in 1..gap : input[i] \in MdBytes
      BY <1>0, <2>1, ElementOfSeq DEF L
    <3>2. gap \in Int /\ 1 \in Int /\ 1 <= gap /\ gap - 1 + 1 = gap /\ \A i \in 1..gap : 1 + i - 1 = i
      BY <2>1
    <3> QED BY <3>1, <3>2, SubSeqProperties
  <2> HIDE DEF front
  <2>7. /\ first \in MdBlocks
        /\ \A i \in 1..Block : first[i] = IF i \in (r + 1)..(r + gap) THEN front[i - r] ELSE buffer[i]
    <3>1. r \in Nat /\ r + Len(front) <= Block
      BY <1>0, <1>1, <2>1, <2>6
    <3>2. /\ first \in MdBlocks
          /\ \A i \in 1..Block : first[i] =
                IF i \in (r + 1)..(r + Len(front)) THEN front[i - r] ELSE buffer[i]
      BY <2>6, <3>1, CopyFits
    <3> HIDE DEF first
    <3> QED BY <2>6, <3>2
  <2> HIDE DEF first
  <2>8. /\ rest \in Seq(MdBytes) /\ Len(rest) = e
        /\ \A i \in 1..e : rest[i] = input[used + i]
    <3> DEFINE lo == used + 1
    <3>1. used \in Nat /\ used + e = L
      BY <1>0, <2>1, <2>3
    <3>2. \A i \in lo..L : input[i] \in MdBytes
      BY <1>0, <3>1, ElementOfSeq DEF L
    <3>3. /\ lo \in Int /\ L \in Int /\ L - lo + 1 = e /\ (lo <= L <=> e > 0)
          /\ \A i \in 1..e : lo + i - 1 = used + i
      <4> HIDE DEF used
      <4> QED BY <1>0, <2>3, <3>1
    <3> HIDE DEF used, lo
    <3>4. /\ SubSeq(input, lo, L) \in Seq(MdBytes)
          /\ Len(SubSeq(input, lo, L)) = IF lo <= L THEN L - lo + 1 ELSE 0
          /\ \A i \in 1..(L - lo + 1) : SubSeq(input, lo, L)[i] = input[lo + i - 1]
      BY <3>2, <3>3, SubSeqProperties
    <3>5. Len(SubSeq(input, lo, L)) = e
      BY <2>3, <3>3, <3>4
    <3> QED BY <3>3, <3>4, <3>5 DEF lo
  <2> HIDE DEF rest
  <2>9. /\ new \in MdBlocks
        /\ \A i \in 1..Block : new[i] = IF i \in 1..e THEN rest[i] ELSE first[i]
    <3>1. 0 \in Nat /\ 0 + Len(rest) <= Block
      BY <1>0, <2>3, <2>8
    <3>2. /\ new \in MdBlocks
          /\ \A i \in 1..Block : new[i] = IF i \in (0 + 1)..(0 + Len(rest)) THEN rest[i - 0] ELSE first[i]
      BY <2>7, <2>8, <3>1, CopyFits
    <3>3. 0 + 1 = 1 /\ 0 + Len(rest) = e /\ \A i \in 1..Block : i - 0 = i
      BY <1>0, <2>3, <2>8
    <3> HIDE DEF new
    <3> QED BY <3>2, <3>3
  <2> HIDE DEF new
  <2>10. first = BlockAt(t, q + 1)
    <3>1. ASSUME NEW i \in 1..Block PROVE first[i] = t[q * Block + i]
      <4>1. CASE i <= r
        <5>1. first[i] = buffer[i] /\ i \in 1..r
          BY <1>0, <1>1, <2>7, <4>1
        <5>2. q * Block + i \in 1..n
          BY <1>0, <1>1, <5>1
        <5> QED BY <1>2, <1>5, <5>1, <5>2
      <4>2. CASE i > r
        <5> DEFINE j == i - r
        <5>1. j \in 1..gap /\ j \in 1..L /\ n + j = q * Block + i /\ i \in (r + 1)..(r + gap)
          BY <1>0, <1>1, <2>1, <4>2
        <5>2. first[i] = front[j]
          BY <2>7, <5>1
        <5> HIDE DEF j
        <5> QED BY <1>5, <2>6, <5>1, <5>2
      <4> QED BY <1>1, <4>1, <4>2
    <3>2. ((q + 1) - 1) * Block = q * Block
      BY <1>1
    <3>3. BlockAt(t, q + 1) = [i \in 1..Block |-> t[q * Block + i]]
      BY <3>2 DEF BlockAt
    <3> QED BY <2>7, <3>1, <3>3 DEF MdBlocks
  <2>11. ASSUME NEW k \in 1..w
         PROVE  /\ whole[k] = BlockAt(t, q + 1 + k)
                /\ whole[k] \in MdBlocks
    <3> DEFINE a == gap + (k - 1) * Block
    <3>1. a \in Nat /\ a + Block = gap + k * Block
      BY <1>0, <2>1
    <3>2. (k - 1) * Block + Block \in 1..y
      BY <1>0, <2>3, <2>y, InBlock
    <3>3. a + Block <= L
      <4> DEFINE b == (k - 1) * Block
      <4>1. b + Block <= y /\ a = gap + b /\ b \in Int
        BY <1>0, <3>2
      <4> HIDE DEF b, a
      <4> QED BY <1>0, <2>1, <2>3, <4>1
    <3>4. n + a = ((q + 1 + k) - 1) * Block
      <4>1. (k - 1) * Block \in Int /\ ((q + 1 + k) - 1) * Block = q * Block + Block + (k - 1) * Block
        BY <1>0, <1>1
      <4> QED BY <1>0, <1>1, <2>1, <4>1
    <3>5. whole[k] = SubSeq(input, a + 1, a + Block)
      BY <3>1
    <3> HIDE DEF a, whole
    <3>6. whole[k] = [i \in 1..Block |-> input[a + i]] /\ whole[k] \in MdBlocks
      BY <3>1, <3>3, <3>5, PieceIsBlock DEF L
    <3>7. ASSUME NEW i \in 1..Block PROVE input[a + i] = t[n + (a + i)]
      <4>1. a + i \in 1..L
        BY <1>0, <3>1, <3>3
      <4> QED BY <1>5, <4>1
    <3>8. \A i \in 1..Block : n + (a + i) = ((q + 1 + k) - 1) * Block + i
      BY <1>0, <3>1, <3>4
    <3> QED BY <3>6, <3>7, <3>8 DEF BlockAt
  <2>12. whole \in Seq(MdBlocks) /\ Len(whole) = w
    <3>1. whole \in [1..w -> MdBlocks]
      BY <2>11
    <3> HIDE DEF whole
    <3>2. whole \in Seq(MdBlocks)
      BY <2>3, <3>1, SeqDef
    <3> QED BY <2>3, <3>1, <3>2, LenProperties
  <2> HIDE DEF whole
  <2>13. BlocksOf(s, q) \in Seq(MdBlocks) /\ Len(BlocksOf(s, q)) = q
    BY <1>0, <1>1, BlockAtType DEF n
  <2>14. BlocksOf(t, m) \in Seq(MdBlocks) /\ Len(BlocksOf(t, m)) = m
    <3>1. m * Block <= Len(t)
      BY <1>0, <1>5, <2>3, <2>4
    <3> HIDE DEF m
    <3> QED BY <1>5, <2>4, <3>1, BlockAtType
  <2>15. BlocksOf(s, q) \o <<first>> \o whole = BlocksOf(t, m)
    <3>1. \A i \in 1..q : BlocksOf(t, m)[i] = BlocksOf(s, q)[i]
      BY <1>1, <1>6, <2>3 DEF BlocksOf
    <3>2. BlocksOf(t, m)[q + 1] = first
      BY <1>1, <2>3, <2>10 DEF BlocksOf
    <3>3. \A k \in 1..w : BlocksOf(t, m)[q + 1 + k] = whole[k]
      BY <1>1, <2>3, <2>11 DEF BlocksOf
    <3>4. Len(BlocksOf(t, m)) = Len(BlocksOf(s, q)) + 1 + Len(whole)
      BY <2>12, <2>13, <2>14
    <3> HIDE DEF m
    <3>5. /\ \A i \in 1..Len(BlocksOf(s, q)) : BlocksOf(t, m)[i] = BlocksOf(s, q)[i]
          /\ BlocksOf(t, m)[Len(BlocksOf(s, q)) + 1] = first
          /\ \A k \in 1..Len(whole) : BlocksOf(t, m)[Len(BlocksOf(s, q)) + 1 + k] = whole[k]
      BY <2>12, <2>13, <3>1, <3>2, <3>3
    <3> DEFINE a == BlocksOf(s, q)
               f == BlocksOf(t, m)
    <3>6. a \in Seq(MdBlocks) /\ f \in Seq(MdBlocks) /\ Len(f) = Len(a) + 1 + Len(whole)
      BY <2>13, <2>14, <3>4
    <3>7. /\ \A i \in 1..Len(a) : f[i] = a[i]
          /\ f[Len(a) + 1] = first
          /\ \A k \in 1..Len(whole) : f[Len(a) + 1 + k] = whole[k]
      BY <3>5
    <3> HIDE DEF a, f
    <3>8. whole \in Seq(MdBlocks) /\ first \in MdBlocks
      BY <2>7, <2>12
    <3>9. a \o <<first>> \o whole = f
      BY <3>6, <3>7, <3>8, BlocksJoin
    <3> QED BY <3>9 DEF a, f
  <2>16. ASSUME NEW i \in 1..e PROVE new[i] = t[m * Block + i]
    <3> DEFINE j == used + i
    <3>1. i \in 1..Block /\ j \in 1..L /\ n + j = m * Block + i
      BY <1>0, <1>1, <2>1, <2>3, <2>4
    <3>2. new[i] = input[j]
      BY <2>8, <2>9, <3>1
    <3> HIDE DEF j, m
    <3> QED BY <1>5, <3>1, <3>2
  <2> HIDE DEF m
  <2>17. /\ MD5Update(ctx, input) = [count |-> Counts(Len(t)), state |-> BlocksOf(t, Len(t) \div Block),
                                      buffer |-> new]
         /\ \A i \in 1..(Len(t) % Block) : new[i] = t[(Len(t) \div Block) * Block + i]
    BY <1>5, <2>2, <2>5, <2>15, <2>16
  <2> QED BY <2>9, <2>17 DEF Holds, t
<1> QED BY <1>0, <1>1, <1>7, <1>8

-----------------------------------------------------------------------------
(* The message and its padding *)

LEMMA BytesType ==
    ASSUME NEW n \in Nat, NEW len \in Nat
    PROVE  /\ Bytes(n + 1, n + len) \in Seq(MdBytes)
           /\ Len(Bytes(n + 1, n + len)) = len
           /\ \A i \in 1..len : Bytes(n + 1, n + len)[i] = MessageByte(n + i)
<1> DEFINE b == [i \in 1..len |-> MessageByte(n + i)]
<1>1. Bytes(n + 1, n + len) = b
  <2>1. (n + len) - (n + 1) + 1 = len /\ \A i \in 1..len : (n + 1) + i - 1 = n + i
    OBVIOUS
  <2> QED BY <2>1 DEF Bytes
<1>2. \A i \in 1..len : MessageByte(n + i) \in MdBytes
  BY DEF MessageByte, MdBytes
<1>3. b \in [1..len -> MdBytes] /\ \A i \in 1..len : b[i] = MessageByte(n + i)
  BY <1>2
<1> HIDE DEF b
<1>4. b \in Seq(MdBytes)
  BY <1>3, SeqDef
<1> QED BY <1>1, <1>3, <1>4, LenProperties

LEMMA MessageType ==
    ASSUME NEW n \in Nat
    PROVE  /\ Bytes(1, n) \in Seq(MdBytes) /\ Len(Bytes(1, n)) = n
           /\ \A i \in 1..n : Bytes(1, n)[i] = MessageByte(i)
<1>1. 0 + 1 = 1 /\ 0 + n = n /\ \A i \in 1..n : 0 + i = i
  OBVIOUS
<1> QED BY <1>1, BytesType, 0 \in Nat

LEMMA BytesJoin ==
    ASSUME NEW n \in Nat, NEW len \in Nat
    PROVE  Bytes(1, n) \o Bytes(n + 1, n + len) = Bytes(1, n + len)
<1> DEFINE a == Bytes(1, n)
           b == Bytes(n + 1, n + len)
           c == Bytes(1, n + len)
           d == a \o b
<1>1. a \in Seq(MdBytes) /\ Len(a) = n /\ \A i \in 1..n : a[i] = MessageByte(i)
  BY MessageType
<1>2. b \in Seq(MdBytes) /\ Len(b) = len /\ \A i \in 1..len : b[i] = MessageByte(n + i)
  BY BytesType
<1>3. c \in Seq(MdBytes) /\ Len(c) = n + len /\ \A i \in 1..(n + len) : c[i] = MessageByte(i)
  BY MessageType, n + len \in Nat
<1> HIDE DEF a, b, c
<1>4. /\ d \in Seq(MdBytes) /\ Len(d) = n + len
      /\ \A i \in 1..(n + len) : d[i] = IF i <= n THEN a[i] ELSE b[i - n]
  BY <1>1, <1>2, ConcatProperties
<1> HIDE DEF d
<1>5. ASSUME NEW i \in 1..(n + len) PROVE d[i] = c[i]
  <2>1. CASE i <= n
    BY <1>1, <1>3, <1>4, <2>1
  <2>2. CASE i > n
    <3> DEFINE j == i - n
    <3>1. j \in 1..len /\ n + j = i
      BY <2>2
    <3>2. d[i] = b[j]
      BY <1>4, <2>2
    <3> HIDE DEF j
    <3> QED BY <1>2, <1>3, <3>1, <3>2
  <2> QED BY <2>1, <2>2
<1>6. d = c
  BY <1>3, <1>4, <1>5, SeqEqual
<1> QED BY <1>6 DEF d, a, b, c

\* The padding leaves the length at the end of a block, and is the only one that
\* does with fewer zeros than a block has bytes.
LEMMA PadLengthFits ==
    ASSUME NEW n \in Nat
    PROVE  /\ PadLength(n % Block) \in 1..Block
           /\ \A z \in 0..(Block - 1) :
                (n + 1 + z + Field) % Block = 0 <=> z = PadLength(n % Block) - 1
<1> DEFINE q == n \div Block
           r == n % Block
           p == PadLength(r)
           Q == IF r < Block - Field THEN q + 1 ELSE q + 2
<1>0. Block \in Nat \ {0} /\ Field \in 1..(Block - 1)
  BY Md5Assumption
<1>1. q \in Nat /\ r \in 0..(Block - 1) /\ n = (q * Block) + r
  BY <1>0, DivMod
<1> HIDE DEF q, r
<1>2. p \in 1..Block /\ Q \in Nat \ {0} /\ n + p + Field = Q * Block
  BY <1>0, <1>1 DEF PadLength
<1> HIDE DEF p, Q
<1>3. ASSUME NEW z \in 0..(Block - 1)
      PROVE  (n + 1 + z + Field) % Block = 0 <=> z = p - 1
  <2> DEFINE d == z - (p - 1)
             e == Block + d
             u == n + 1 + z + Field
  <2>1. u = (Q * Block) + d /\ (d = 0 <=> z = p - 1) /\ d \in (1 - Block)..(Block - 1)
    BY <1>0, <1>2
  <2>2. CASE d >= 0
    <3>1. d \in 0..(Block - 1)
      BY <1>0, <2>1, <2>2
    <3> HIDE DEF d, u
    <3>2. u % Block = d
      BY <1>0, <1>2, <2>1, <3>1, DivModUnique
    <3> QED BY <2>1, <3>2 DEF u
  <2>3. CASE d < 0
    <3> DEFINE P == Q - 1
    <3>1. e \in 1..(Block - 1) /\ P \in Nat /\ u = (P * Block) + e
      BY <1>0, <1>2, <2>1, <2>3
    <3> HIDE DEF d, e, u, P
    <3>2. u % Block = e
      BY <1>0, <3>1, DivModUnique
    <3> QED BY <2>1, <2>3, <3>1, <3>2 DEF u
  <2> QED BY <1>0, <1>2, <2>1, <2>2, <2>3
<1> QED BY <1>2, <1>3 DEF p, r

LEMMA PaddingType ==
    ASSUME NEW p \in Nat \ {0}
    PROVE  /\ Padding(p) \in Seq(MdBytes)
           /\ [i \in 1..(p - 1) |-> Zero] \in Seq(MdBytes)
           /\ <<Mark>> \in Seq(MdBytes)
           /\ Padding(p) = <<Mark>> \o [i \in 1..(p - 1) |-> Zero]
<1> DEFINE a == Padding(p)
           z == [i \in 1..(p - 1) |-> Zero]
           b == <<Mark>>
           d == b \o z
<1>0. Mark \in MdBytes /\ Zero \in MdBytes
  BY DEF Mark, Zero, MdBytes
<1>1. a \in [1..p -> MdBytes] /\ a[1] = Mark /\ \A i \in 2..p : a[i] = Zero
  BY <1>0 DEF Padding
<1>2. z \in [1..(p - 1) -> MdBytes] /\ \A i \in 1..(p - 1) : z[i] = Zero
  BY <1>0
<1> HIDE DEF a, z
<1>3. a \in Seq(MdBytes) /\ z \in Seq(MdBytes)
  BY <1>1, <1>2, SeqDef
<1>4. Len(a) = p /\ Len(z) = p - 1
  BY <1>1, <1>2, <1>3, LenProperties
<1>5. b \in Seq(MdBytes) /\ Len(b) = 1 /\ b[1] = Mark
  BY <1>0
<1> HIDE DEF b
<1>6. /\ d \in Seq(MdBytes) /\ Len(d) = 1 + (p - 1)
      /\ \A i \in 1..(1 + (p - 1)) : d[i] = IF i <= 1 THEN b[i] ELSE z[i - 1]
  <2>1. /\ d \in Seq(MdBytes) /\ Len(d) = Len(b) + Len(z)
        /\ \A i \in 1..(Len(b) + Len(z)) : d[i] = IF i <= Len(b) THEN b[i] ELSE z[i - Len(b)]
    BY <1>3, <1>5, ConcatProperties
  <2> HIDE DEF d
  <2> QED BY <1>4, <1>5, <2>1
<1> HIDE DEF d
<1>7. ASSUME NEW i \in 1..p PROVE a[i] = d[i]
  <2>1. CASE i = 1
    BY <1>1, <1>5, <1>6, <2>1
  <2>2. CASE i # 1
    <3>1. i \in 2..p /\ i - 1 \in 1..(p - 1) /\ ~(i <= 1)
      BY <2>2
    <3> QED BY <1>1, <1>2, <1>6, <3>1
  <2> QED BY <2>1, <2>2
<1>8. a = d
  BY <1>3, <1>4, <1>6, <1>7, SeqEqual
<1> QED BY <1>3, <1>5, <1>8 DEF a, z, b, d

LEMMA EncodeType ==
    ASSUME NEW n \in Nat
    PROVE  MD5Encode(Counts(n)) \in Seq(MdBytes)
<1>0. Field \in Nat /\ Word \in Nat \ {0}
  BY Md5Assumption
<1> DEFINE c == Counts(n)[1] + Word * Counts(n)[2]
<1>1. c \in Nat
  <2> DEFINE m == 8 * n
  <2>1. m \in Nat
    OBVIOUS
  <2> HIDE DEF m
  <2>2. m % Word \in Nat /\ m \div Word \in Nat
    BY <1>0, <2>1, DivMod
  <2>3. (m \div Word) % Word \in Nat
    BY <1>0, <2>2, DivMod
  <2>4. Counts(n)[1] \in Nat /\ Counts(n)[2] \in Nat
    BY <2>2, <2>3 DEF Counts, m
  <2> QED BY <1>0, <2>4
<1> HIDE DEF c
<1>2. MD5Encode(Counts(n)) = [i \in 1..Field |-> LengthByte(c, i)]
  BY DEF MD5Encode, c
<1>3. \A i \in 1..Field : LengthByte(c, i) \in MdBytes
  BY <1>0, <1>1 DEF LengthByte, MdBytes
<1> QED BY <1>0, <1>2, <1>3, SeqDef

\* MD5Final gives what the whole message would, padded.
LEMMA FinalIsPadded ==
    ASSUME NEW n \in Nat, NEW ctx, Holds(ctx, Bytes(1, n))
    PROVE  MD5Final(ctx) = CutIntoBlocks(Padded(n))
<1> DEFINE s == Bytes(1, n)
           p == PadLength(n % Block)
           bits == MD5Encode(Counts(n))
           u == s \o Padding(p)
           t == u \o bits
           mid == MD5Update(ctx, Padding(p))
<1>1. s \in Seq(MdBytes) /\ Len(s) = n
  BY MessageType
<1>2. ctx.count = Counts(n)
  BY <1>1 DEF Holds
<1>3. Index(ctx) = n % Block
  BY <1>2, IndexOfCounts
<1>4. MD5Final(ctx) = MD5Update(mid, bits).state
  BY <1>2, <1>3 DEF MD5Final
<1>5. p \in 1..Block /\ p \in Nat \ {0}
  <2>1. p \in 1..Block
    BY PadLengthFits
  <2> HIDE DEF p
  <2> QED BY <2>1, Md5Assumption
<1>6. \A z \in 0..(Block - 1) : (n + 1 + z + Field) % Block = 0 <=> z = p - 1
  BY PadLengthFits
<1> HIDE DEF p
<1>7. bits \in Seq(MdBytes)
  BY EncodeType
<1>8. Padding(p) \in Seq(MdBytes)
  BY <1>5, PaddingType
<1>9. u \in Seq(MdBytes) /\ t \in Seq(MdBytes)
  BY <1>1, <1>7, <1>8, ConcatProperties
<1>10. Holds(mid, u)
  BY <1>1, <1>8, UpdateHolds
<1> HIDE DEF mid
<1>11. Holds(MD5Update(mid, bits), t)
  <2> HIDE DEF u, bits
  <2> QED BY <1>7, <1>9, <1>10, UpdateHolds
<1>12. MD5Update(mid, bits).state = CutIntoBlocks(t)
  <2> HIDE DEF t
  <2> QED BY <1>9, <1>11, CutIsBlocks DEF Holds
<1>13. Padded(n) = t
  <2> DEFINE zeros == CHOOSE z \in 0..(Block - 1) : (n + 1 + z + Field) % Block = 0
             Z(z) == [i \in 1..z |-> Zero]
  <2>1. zeros = p - 1
    <3>1. p - 1 \in 0..(Block - 1)
      BY <1>5, Md5Assumption
    <3> QED BY <1>6, <3>1
  <2>2. Padded(n) = ((s \o <<Mark>>) \o Z(zeros)) \o bits
    BY DEF Padded, Counts
  <2> HIDE DEF zeros, bits, s
  <2>3. /\ Padding(p) = <<Mark>> \o Z(p - 1)
        /\ <<Mark>> \in Seq(MdBytes) /\ Z(p - 1) \in Seq(MdBytes)
    BY <1>5, PaddingType
  <2>4. (s \o <<Mark>>) \o Z(p - 1) = s \o Padding(p)
    <3> HIDE DEF Z
    <3> QED BY <1>1, <2>3, ConcatAssociative
  <2> QED BY <2>1, <2>2, <2>4
<1> QED BY <1>4, <1>12, <1>13

-----------------------------------------------------------------------------
(* The theorem about Md5 *)

MdInv ==
    /\ fed \in Nat
    /\ Holds(context, Bytes(1, fed))
    /\ DigestIsOfPadded

LEMMA InitHolds == Holds(MD5Init, Bytes(1, 0))
<1> DEFINE b == [i \in 1..Block |-> Junk]
           s == Bytes(1, 0)
<1>0. Block \in Nat \ {0} /\ Word \in Nat \ {0}
  BY Md5Assumption
<1>1. s \in Seq(MdBytes) /\ Len(s) = 0
  BY MessageType, 0 \in Nat
<1>2. 0 \div Block = 0 /\ 0 % Block = 0
  <2>1. 0 = (0 * Block) + 0 /\ 0 \in 0..(Block - 1)
    BY <1>0
  <2> QED BY <1>0, <2>1, DivModUnique
<1>3. 0 \div Word = 0 /\ 0 % Word = 0
  <2>1. 0 = (0 * Word) + 0 /\ 0 \in 0..(Word - 1)
    BY <1>0
  <2> QED BY <1>0, <2>1, DivModUnique
<1>4. Counts(0) = <<0, 0>>
  BY <1>3 DEF Counts
<1>5. BlocksOf(s, 0) = <<>>
  <2>1. BlocksOf(s, 0) \in Seq(MdBlocks) /\ Len(BlocksOf(s, 0)) = 0
    <3>1. 0 * Block <= Len(s) /\ 0 \in Nat
      BY <1>0, <1>1
    <3> HIDE DEF s
    <3> QED BY <1>1, <3>1, BlockAtType
  <2> QED BY <2>1, EmptySeq
<1>6. b \in MdBlocks
  BY DEF Junk, MdBytes, MdBlocks
<1>7. MD5Init = [count |-> Counts(0), state |-> BlocksOf(s, 0), buffer |-> b]
  BY <1>4, <1>5 DEF MD5Init
<1> HIDE DEF b, s
<1>8. \A i \in 1..0 : b[i] = s[0 * Block + i]
  OBVIOUS
<1>9. Holds(MD5Init, s)
  BY <1>1, <1>2, <1>6, <1>7, <1>8 DEF Holds
<1> QED BY <1>9 DEF s

LEMMA HoldsIsExact ==
    ASSUME MdInv
    PROVE  ContextIsExact
<1> DEFINE s == Bytes(1, fed)
           q == fed \div Block
           r == fed % Block
           lo == q * Block
           new == Bytes(fed - r + 1, fed)
<1>0. Block \in Nat \ {0} /\ fed \in Nat
  BY Md5Assumption DEF MdInv
<1>1. q \in Nat /\ r \in 0..(Block - 1) /\ fed = lo + r /\ lo \in Nat
  <2>1. q \in Nat /\ r \in 0..(Block - 1) /\ fed = lo + r
    BY <1>0, DivMod
  <2> HIDE DEF q, r
  <2> QED BY <1>0, <2>1
<1>2. s \in Seq(MdBytes) /\ Len(s) = fed /\ \A i \in 1..fed : s[i] = MessageByte(i)
  BY <1>0, MessageType
<1>3. PICK buffer \in MdBlocks :
          /\ context = [count |-> Counts(fed), state |-> BlocksOf(s, q), buffer |-> buffer]
          /\ \A i \in 1..r : buffer[i] = s[q * Block + i]
  BY <1>2 DEF MdInv, Holds
<1>4. context.count[1] + Word * context.count[2] = (8 * fed) % (Word * Word)
  BY <1>0, <1>3, TwoWords
<1>5. context.state = CutIntoBlocks(Bytes(1, fed))
  BY <1>2, <1>3, CutIsBlocks
<1>6. /\ new \in Seq(MdBytes) /\ Len(new) = r
      /\ \A i \in 1..r : new[i] = MessageByte(lo + i)
  <2>1. fed - r + 1 = lo + 1 /\ fed = lo + r /\ r \in Nat
    BY <1>0, <1>1
  <2>2. new = Bytes(lo + 1, lo + r)
    <3> HIDE DEF lo, r
    <3> QED BY <2>1
  <2> HIDE DEF lo, r, new
  <2> QED BY <1>1, <2>1, <2>2, BytesType
<1> HIDE DEF new, q, r, s
<1>7. SubSeq(context.buffer, 1, r) = new
  <2> DEFINE old == SubSeq(buffer, 1, r)
  <2>1. \A i \in 1..r : i \in 1..Block /\ buffer[i] \in MdBytes
    BY <1>0, <1>1 DEF MdBlocks
  <2>2. /\ old \in Seq(MdBytes) /\ Len(old) = r
        /\ \A i \in 1..r : old[i] = buffer[i]
    <3>1. /\ 1 \in Int /\ r \in Int /\ (r = 0 \/ 1 <= r) /\ r - 1 + 1 = r
          /\ \A i \in 1..r : 1 + i - 1 = i
      BY <1>0, <1>1
    <3>2. \A i \in 1..r : buffer[i] \in MdBytes
      BY <2>1
    <3>3. /\ old \in Seq(MdBytes) /\ Len(old) = IF 1 <= r THEN r - 1 + 1 ELSE 0
          /\ \A i \in 1..(r - 1 + 1) : old[i] = buffer[1 + i - 1]
      BY <3>1, <3>2, SubSeqProperties
    <3> HIDE DEF old
    <3> QED BY <3>1, <3>3
  <2> HIDE DEF old
  <2>3. ASSUME NEW i \in 1..r PROVE old[i] = new[i]
    <3>1. lo + i \in 1..fed
      BY <1>0, <1>1
    <3>2. s[lo + i] = MessageByte(lo + i)
      <4> HIDE DEF lo
      <4> QED BY <1>2, <3>1
    <3> QED BY <1>3, <1>6, <2>2, <3>2
  <2>4. old = new
    BY <1>6, <2>2, <2>3, SeqEqual
  <2> QED BY <1>3, <2>4 DEF old
<1> QED BY <1>4, <1>5, <1>7 DEF ContextIsExact, new, r

\* In whatever pieces a message of any length comes, MD5Final gives what RFC 1321
\* says of the message in one piece, and between two calls of MD5Update the context
\* holds exactly what has come; for every size of a block, of the length field and
\* of a word.
THEOREM MessageIsHashed == Md5Spec => []HashesTheMessage
<1>1. Md5Init => MdInv
  BY InitHolds DEF Md5Init, MdInv, DigestIsOfPadded
<1>2. MdInv /\ [Md5Next]_md5vars => MdInv'
  <2> SUFFICES ASSUME MdInv, [Md5Next]_md5vars PROVE MdInv'
    OBVIOUS
  <2>1. CASE Update
    <3>1. PICK len \in {n \in 0..(Word - Block) : fed + n <= MaxLen} :
              /\ context' = MD5Update(context, Bytes(fed + 1, fed + len))
              /\ fed' = fed + len
      BY <2>1 DEF Update
    <3>2. fed \in Nat /\ len \in Nat /\ fed' \in Nat
      BY <3>1 DEF MdInv
    <3>3. Bytes(1, fed) \in Seq(MdBytes) /\ Bytes(fed + 1, fed + len) \in Seq(MdBytes)
      BY <3>2, MessageType, BytesType
    <3>4. Holds(context', Bytes(1, fed) \o Bytes(fed + 1, fed + len))
      BY <3>1, <3>3, UpdateHolds DEF MdInv
    <3>5. Bytes(1, fed) \o Bytes(fed + 1, fed + len) = Bytes(1, fed')
      BY <3>1, <3>2, BytesJoin
    <3>6. Holds(context', Bytes(1, fed'))
      BY <3>4, <3>5
    <3>7. DigestIsOfPadded'
      BY <2>1 DEF Update, DigestIsOfPadded
    <3> QED BY <3>2, <3>6, <3>7 DEF MdInv
  <2>2. CASE Final
    <3>1. context' = context /\ fed' = fed /\ digest' = MD5Final(context)
      BY <2>2 DEF Final
    <3>2. digest' = CutIntoBlocks(Padded(fed))
      BY <3>1, FinalIsPadded DEF MdInv
    <3> QED BY <3>1, <3>2 DEF MdInv, DigestIsOfPadded
  <2>3. CASE UNCHANGED md5vars
    BY <2>3 DEF md5vars, MdInv, DigestIsOfPadded
  <2> QED BY <2>1, <2>2, <2>3 DEF Md5Next
<1>3. MdInv => HashesTheMessage
  BY HoldsIsExact DEF MdInv, HashesTheMessage
<1> QED BY <1>1, <1>2, <1>3, PTL DEF Md5Spec

-----------------------------------------------------------------------------
-----------------------------------------------------------------------------
(* Least and greatest numbers *)

\* The least number of a set: what stands in for induction below.
LEMMA LeastNat ==
    ASSUME NEW T \in SUBSET Nat, T # {}
    PROVE  \E x \in T : \A y \in T : x <= y
<1> DEFINE R == OpToRel(<, Nat)
<1>1. IsWellFoundedOn(R, Nat)
  BY NatLessThanWellFounded
<1>2. \A x, y \in Nat : <<y, x>> \notin R => x <= y
  BY DEF OpToRel
<1> HIDE DEF R
<1>3. \E x \in T : \A y \in T : <<y, x>> \notin R
  BY <1>1, WFMin
<1> QED BY <1>2, <1>3

\* Induction over the numbers up to n, the predicate given as the set where it holds.
LEMMA Induction ==
    ASSUME NEW n \in Nat, NEW T \in SUBSET (0..n), 0 \in T,
           \A i \in 1..n : i - 1 \in T => i \in T
    PROVE  T = 0..n
<1> DEFINE U == (0..n) \ T
<1>1. ASSUME U # {} PROVE FALSE
  <2>1. PICK m \in U : \A j \in U : m <= j
    <3>1. U \in SUBSET Nat
      OBVIOUS
    <3> HIDE DEF U
    <3> QED BY <1>1, <3>1, LeastNat
  <2>2. m \in 0..n /\ m \notin T
    OBVIOUS
  <2>3. m \in 1..n /\ m - 1 \in 0..n /\ ~(m <= m - 1)
    BY <2>2
  <2>4. m - 1 \in T
    BY <2>1, <2>3
  <2> QED BY <2>2, <2>3, <2>4
<1> QED BY <1>1

\* A recursion over the numbers up to n has a solution.
Solutions(n, X, x, f) ==
    {g \in [0..n -> X] : g[0] = x /\ \A i \in 1..n : g[i] = f[i][g[i - 1]]}

LEMMA Recursion ==
    ASSUME NEW n \in Nat, NEW X, NEW x \in X, NEW f \in [1..n -> [X -> X]]
    PROVE  Solutions(n, X, x, f) # {}
<1> DEFINE Solves(m, g) == g[0] = x /\ \A i \in 1..m : g[i] = f[i][g[i - 1]]
           T == {m \in 0..n : \E g \in [0..m -> X] : Solves(m, g)}
<1>1. 0 \in T
  <2>1. [i \in 0..0 |-> x] \in [0..0 -> X] /\ Solves(0, [i \in 0..0 |-> x])
    OBVIOUS
  <2> HIDE DEF Solves
  <2> QED BY <2>1
<1>2. ASSUME NEW m \in 1..n, m - 1 \in T PROVE m \in T
  <2>1. PICK h \in [0..(m - 1) -> X] : Solves(m - 1, h)
    BY <1>2
  <2> DEFINE k == f[m][h[m - 1]]
             g == [i \in 0..m |-> IF i = m THEN k ELSE h[i]]
  <2>2. m \in Nat /\ m - 1 \in 0..(m - 1) /\ 0 # m
    OBVIOUS
  <2>3. k \in X
    BY <2>1, <2>2
  <2>4. \A i \in 0..m : i # m => i \in 0..(m - 1)
    BY <2>2
  <2>5. g \in [0..m -> X] /\ g[0] = x
    <3> HIDE DEF k
    <3> QED BY <2>1, <2>2, <2>3, <2>4
  <2>6. ASSUME NEW i \in 1..m PROVE g[i] = f[i][g[i - 1]]
    <3>1. i \in 0..m /\ i - 1 \in 0..m /\ i - 1 # m
      BY <2>2
    <3>2. g[i - 1] = h[i - 1]
      BY <3>1
    <3>3. CASE i = m
      BY <3>1, <3>2, <3>3
    <3>4. CASE i # m
      <4>1. i \in 1..(m - 1)
        BY <2>2, <3>4
      <4>2. g[i] = h[i]
        BY <3>1, <3>4
      <4> QED BY <2>1, <3>2, <4>1, <4>2
    <3> QED BY <3>3, <3>4
  <2>7. Solves(m, g)
    <3> HIDE DEF g
    <3> QED BY <2>5, <2>6
  <2>8. m \in 0..n
    OBVIOUS
  <2> HIDE DEF Solves, g
  <2> QED BY <2>5, <2>7, <2>8
<1>3. T = 0..n
  <2>1. T \in SUBSET (0..n)
    OBVIOUS
  <2> HIDE DEF T
  <2> QED BY <1>1, <1>2, <2>1, Induction
<1>4. n \in T
  <2>1. n \in 0..n
    OBVIOUS
  <2> HIDE DEF T
  <2> QED BY <1>3, <2>1
<1> QED BY <1>4 DEF Solutions

LEMMA GreatestNat ==
    ASSUME NEW n \in Nat, NEW T \in SUBSET (0..n), T # {}
    PROVE  \E x \in T : \A y \in T : x >= y
<1> DEFINE U == {n - x : x \in T}
<1>1. U \in SUBSET Nat /\ U # {}
  <2>1. \A x \in T : n - x \in Nat
    OBVIOUS
  <2> QED BY <2>1
<1>2. PICK u \in U : \A v \in U : u <= v
  <2> HIDE DEF U
  <2> QED BY <1>1, LeastNat
<1>3. PICK x \in T : u = n - x
  OBVIOUS
<1>4. ASSUME NEW y \in T PROVE x >= y
  <2>1. u <= n - y
    BY <1>2
  <2>2. x \in 0..n /\ y \in 0..n
    OBVIOUS
  <2> QED BY <1>3, <2>1, <2>2
<1> QED BY <1>4

LEMMA MaxIs ==
    ASSUME NEW n \in Nat, NEW T \in SUBSET (0..n), T # {}
    PROVE  Max(T) \in T /\ \A y \in T : Max(T) >= y
BY GreatestNat DEF Max

\* Dividing twice is dividing by the product.
LEMMA DivDiv ==
    ASSUME NEW n \in Nat, NEW a \in Nat \ {0}, NEW b \in Nat \ {0}
    PROVE  (n \div a) \div b = n \div (a * b)
<1> DEFINE q == n \div a
           r == n % a
           c == a * b
<1>1. q \in Nat /\ r \in 0..(a - 1) /\ n = (q * a) + r
  BY DivMod
<1> HIDE DEF q, r
<1> DEFINE p == q \div b
           s == q % b
<1>2. p \in Nat /\ s \in 0..(b - 1) /\ q = (p * b) + s
  BY <1>1, DivMod
<1> HIDE DEF p, s
<1> DEFINE u == (s * a) + r
<1>3. n = (p * c) + u
  BY <1>1, <1>2
<1>4. c \in Nat \ {0}
  OBVIOUS
<1>5. u \in 0..(c - 1)
  <2>1. (b - 1 - s) * a \in Nat /\ s * a \in Nat
    BY <1>2
  <2>2. (b - 1 - s) * a = c - a - s * a
    BY <1>2
  <2>3. c \in Nat
    OBVIOUS
  <2> DEFINE x == s * a
  <2> HIDE DEF c, x
  <2> QED BY <1>1, <2>1, <2>2, <2>3 DEF x
<1> HIDE DEF c, u
<1>6. n \div c = p
  BY <1>2, <1>3, <1>4, <1>5, DivModUnique
<1> QED BY <1>6 DEF c, p, q

-----------------------------------------------------------------------------
(* Numbers in memory *)

LEMMA ReverseIs ==
    ASSUME NEW S, NEW s \in Seq(S)
    PROVE  /\ Reverse(s) \in Seq(S) /\ Len(Reverse(s)) = Len(s)
           /\ \A i \in 1..Len(s) : Reverse(s)[i] = s[Len(s) - i + 1]
           /\ Reverse(Reverse(s)) = s
<1> DEFINE n == Len(s)
           r == [i \in 1..n |-> s[(n - i) + 1]]
<1>1. n \in Nat /\ \A i \in 1..n : s[i] \in S
  BY LenProperties, ElementOfSeq
<1>2. Reverse(s) = r
  BY DEF Reverse
<1>3. \A i \in 1..n : (n - i) + 1 \in 1..n
  BY <1>1
<1>4. r \in [1..n -> S]
  BY <1>1, <1>3
<1>5. r \in Seq(S)
  BY <1>1, <1>4, SeqDef
<1>6. Len(r) = n
  BY <1>1, <1>4, <1>5, LenProperties
<1>7. \A i \in 1..n : r[i] = s[n - i + 1]
  OBVIOUS
<1> HIDE DEF n, r
<1>8. Reverse(r) = s
  <2>1. Reverse(r) = [i \in 1..n |-> r[(n - i) + 1]]
    BY <1>6 DEF Reverse
  <2>2. \A i \in 1..n : r[(n - i) + 1] = s[i]
    <3> SUFFICES ASSUME NEW i \in 1..n PROVE r[(n - i) + 1] = s[i]
      OBVIOUS
    <3>1. n - ((n - i) + 1) + 1 = i
      BY <1>1
    <3> QED BY <1>3, <1>7, <3>1
  <2>3. s = [i \in 1..n |-> s[i]]
    BY LenProperties DEF n
  <2> QED BY <2>1, <2>2, <2>3
<1> QED BY <1>2, <1>5, <1>6, <1>7, <1>8 DEF n

\* The recursion of FromMemory is one: it has a value for every sequence of bytes.
Value(h, s) ==
    /\ h \in [0..Len(s) -> Nat]
    /\ h[0] = 0
    /\ \A i \in 1..Len(s) : h[i] = h[i - 1] * Base + s[i]

LEMMA ValueExists ==
    ASSUME NEW s \in Seq(Byte)
    PROVE  \E h : Value(h, s)
<1> DEFINE n == Len(s)
           f == [i \in 1..n |-> [y \in Nat |-> y * Base + s[i]]]
<1>1. Base \in Nat /\ n \in Nat /\ \A i \in 1..n : s[i] \in Nat
  <2>1. Base \in Nat \ {0}
    BY BufferAssumption
  <2>2. \A i \in 1..n : s[i] \in Byte
    BY ElementOfSeq
  <2> QED BY <2>1, <2>2, LenProperties DEF Byte
<1> HIDE DEF n
<1>2. ASSUME NEW i \in 1..n, NEW y \in Nat PROVE y * Base + s[i] \in Nat
  <2> DEFINE z == y * Base
  <2>1. z \in Nat /\ s[i] \in Nat
    BY <1>1
  <2> HIDE DEF z
  <2>2. z + s[i] \in Nat
    BY <2>1
  <2> QED BY <2>2 DEF z
<1>3. f \in [1..n -> [Nat -> Nat]]
  BY <1>2
<1>4. \A i \in 1..n : \A y \in Nat : f[i][y] = y * Base + s[i]
  OBVIOUS
<1> HIDE DEF f
<1>5. PICK g \in [0..n -> Nat] : g[0] = 0 /\ \A i \in 1..n : g[i] = f[i][g[i - 1]]
  <2>1. Solutions(n, Nat, 0, f) # {}
    BY <1>1, <1>3, Recursion
  <2> QED BY <2>1 DEF Solutions
<1>6. \A i \in 1..n : g[i - 1] \in Nat
  BY <1>1, <1>5
<1> QED BY <1>4, <1>5, <1>6 DEF Value, n

LEMMA FromMemoryIs ==
    ASSUME NEW s \in Seq(Byte), NEW big \in BOOLEAN
    PROVE  /\ \E h : /\ Value(h, IF big THEN s ELSE Reverse(s))
                     /\ FromMemory(s, big) = h[Len(s)]
           /\ FromMemory(s, big) \in Nat
<1> DEFINE high == IF big THEN s ELSE Reverse(s)
           v[i \in 0..Len(s)] == IF i = 0 THEN 0 ELSE v[i - 1] * Base + high[i]
           F(f) == [i \in 0..Len(s) |-> IF i = 0 THEN 0 ELSE f[i - 1] * Base + high[i]]
<1>1. high \in Seq(Byte) /\ Len(high) = Len(s) /\ Len(s) \in Nat
  BY ReverseIs, LenProperties
<1>2. v = CHOOSE f : f = F(f)
  BY DEF v
<1>3. FromMemory(s, big) = v[Len(s)]
  BY DEF FromMemory
<1> HIDE DEF v, high
<1>4. PICK g : Value(g, high)
  BY <1>1, ValueExists
<1>5. g = F(g)
  <2>1. \A i \in 0..Len(s) : i # 0 => i \in 1..Len(s)
    BY <1>1
  <2> QED BY <1>1, <1>4, <2>1 DEF Value
<1> HIDE DEF F
<1>6. v = F(v)
  BY <1>2, <1>5
<1>7. v = g
  <2> DEFINE T == {i \in 0..Len(s) : v[i] = g[i]}
  <2>1. 0 \in T
    BY <1>1, <1>4, <1>6 DEF F, Value
  <2>2. ASSUME NEW i \in 1..Len(s), i - 1 \in T PROVE i \in T
    <3>1. i \in 0..Len(s) /\ i # 0 /\ v[i - 1] = g[i - 1]
      BY <1>1, <2>2
    <3>2. F(v)[i] = F(g)[i]
      BY <3>1 DEF F
    <3>3. v[i] = g[i]
      BY <1>5, <1>6, <3>2
    <3> QED BY <3>1, <3>3
  <2>3. T = 0..Len(s)
    <3>1. T \in SUBSET (0..Len(s))
      OBVIOUS
    <3> HIDE DEF T
    <3> QED BY <1>1, <2>1, <2>2, <3>1, Induction
  <2>4. \A i \in 0..Len(s) : v[i] = g[i]
    BY <2>3
  <2>5. v = [i \in 0..Len(s) |-> v[i]]
    BY <1>6 DEF F
  <2>6. g = [i \in 0..Len(s) |-> g[i]]
    BY <1>1, <1>4 DEF Value
  <2> QED BY <2>4, <2>5, <2>6
<1>8. v[Len(s)] \in Nat
  <2>1. Len(s) \in 0..Len(s)
    BY <1>1
  <2> QED BY <1>1, <1>4, <1>7, <2>1 DEF Value
<1> QED BY <1>3, <1>4, <1>7, <1>8 DEF high

LEMMA PlaceIs ==
    /\ Place[1] = 1 /\ Place[2] = Base /\ Place[3] = Base * Base
    /\ Place[4] = Base * Base * Base
    /\ Base \in Nat \ {0, 1} /\ Base * Base \in Nat \ {0} /\ Base * Base * Base \in Nat \ {0}
    /\ MaxByte \in Nat /\ MaxShort \in Nat /\ MaxInt \in Nat /\ MaxByte < MaxShort
    /\ MaxByte \in Byte
<1>1. Base \in Nat \ {0, 1}
  BY BufferAssumption
<1>2. Base * Base \in Nat \ {0} /\ Base * Base > Base
  <2>1. (Base - 1) * Base \in Nat /\ (Base - 1) * Base > 0
    BY <1>1
  <2>2. Base * Base = (Base - 1) * Base + Base
    BY <1>1
  <2> QED BY <1>1, <2>1, <2>2
<1>3. Base * Base * Base \in Nat \ {0}
  <2> DEFINE c == Base * Base
  <2>1. c \in Nat \ {0}
    BY <1>2
  <2> HIDE DEF c
  <2>2. c * Base \in Nat \ {0}
    BY <1>1, <2>1
  <2> QED BY <2>2 DEF c
<1>4. Base * Base * Base * Base \in Nat \ {0}
  <2> DEFINE c == Base * Base * Base
  <2>1. c \in Nat \ {0}
    BY <1>3
  <2> HIDE DEF c
  <2>2. c * Base \in Nat \ {0}
    BY <1>1, <2>1
  <2> QED BY <2>2 DEF c
<1> DEFINE a == Base * Base
           b == Base * Base * Base * Base
<1>5. a \in Nat \ {0} /\ a > Base /\ b \in Nat \ {0}
  BY <1>2, <1>4
<1>6. MaxByte = Base - 1 /\ MaxShort = a - 1 /\ MaxInt = b - 1
  BY DEF MaxByte, MaxShort, MaxInt
<1> HIDE DEF a, b
<1>7. MaxByte \in Nat /\ MaxShort \in Nat /\ MaxInt \in Nat /\ MaxByte < MaxShort /\ MaxByte \in Byte
  BY <1>1, <1>5, <1>6 DEF Byte
<1>8. Place[1] = 1 /\ Place[2] = Base /\ Place[3] = Base * Base /\ Place[4] = Base * Base * Base
  BY DEF Place
<1> QED BY <1>1, <1>2, <1>3, <1>7, <1>8

\* The bytes of a number, the lowest first.
Little(v, w) == [i \in 1..w |-> (v \div Place[i]) % Base]

LEMMA LittleIs ==
    ASSUME NEW v \in Nat, NEW w \in 1..4
    PROVE  /\ Little(v, w) \in Seq(Byte) /\ Len(Little(v, w)) = w
           /\ \A i \in 1..w : Little(v, w)[i] = (v \div Place[i]) % Base
<1>1. ASSUME NEW i \in 1..w PROVE (v \div Place[i]) % Base \in Byte
  <2> DEFINE p == Place[i]
             q == v \div p
  <2>1. p \in Nat \ {0} /\ Base \in Nat \ {0}
    BY PlaceIs
  <2> HIDE DEF p
  <2>2. q \in Nat
    BY <2>1, DivMod
  <2> HIDE DEF q
  <2>3. q % Base \in Byte
    BY <2>1, <2>2, DivMod DEF Byte
  <2> QED BY <2>3 DEF q, p
<1>2. Little(v, w) \in [1..w -> Byte] /\ \A i \in 1..w : Little(v, w)[i] = (v \div Place[i]) % Base
  BY <1>1 DEF Little
<1> HIDE DEF Little
<1>3. w \in Nat
  OBVIOUS
<1>4. Little(v, w) \in Seq(Byte)
  BY <1>2, <1>3, SeqDef
<1>5. Len(Little(v, w)) = w
  BY <1>2, <1>3, <1>4, LenProperties
<1> QED BY <1>2, <1>4, <1>5

LEMMA InMemoryIs ==
    ASSUME NEW v \in Nat, NEW w \in 1..4, NEW big \in BOOLEAN
    PROVE  /\ InMemory(v, w, big) = IF big THEN Reverse(Little(v, w)) ELSE Little(v, w)
           /\ InMemory(v, w, big) \in Seq(Byte) /\ Len(InMemory(v, w, big)) = w
           /\ Reverse(InMemory(v, w, big)) = InMemory(v, w, ~big)
           /\ (IF big THEN InMemory(v, w, big) ELSE Reverse(InMemory(v, w, big)))
                = Reverse(Little(v, w))
<1> DEFINE l == Little(v, w)
<1>1. InMemory(v, w, big) = (IF big THEN Reverse(l) ELSE l)
      /\ InMemory(v, w, ~big) = (IF big THEN l ELSE Reverse(l))
  BY DEF InMemory, Little
<1>2. l \in Seq(Byte) /\ Len(l) = w
  BY LittleIs
<1> HIDE DEF l
<1>3. Reverse(l) \in Seq(Byte) /\ Len(Reverse(l)) = w /\ Reverse(Reverse(l)) = l
  BY <1>2, ReverseIs
<1>4. CASE big
  BY <1>1, <1>2, <1>3, <1>4 DEF l
<1>5. CASE ~big
  BY <1>1, <1>2, <1>3, <1>5 DEF l
<1> QED BY <1>4, <1>5

\* A number that fits is the one its bytes make.
LEMMA MemoryBack ==
    ASSUME NEW v \in Nat, NEW w \in {1, 2, 4}, NEW big \in BOOLEAN, v < Base * Place[w]
    PROVE  FromMemory(InMemory(v, w, big), big) = v
<1> DEFINE s == InMemory(v, w, big)
           l == Little(v, w)
           high == Reverse(l)
<1>0. Base \in Nat \ {0}
  BY PlaceIs
<1>1. w \in 1..4
  OBVIOUS
<1>2. s \in Seq(Byte) /\ Len(s) = w /\ (IF big THEN s ELSE Reverse(s)) = high
  BY <1>1, InMemoryIs
<1>3. l \in Seq(Byte) /\ Len(l) = w /\ \A i \in 1..w : l[i] = (v \div Place[i]) % Base
  BY <1>1, LittleIs
<1>4. Len(high) = w /\ \A i \in 1..w : high[i] = l[w - i + 1]
  <2> HIDE DEF l
  <2> QED BY <1>3, ReverseIs
<1> HIDE DEF s, l, high
<1>5. PICK h : Value(h, high) /\ FromMemory(s, big) = h[w]
  BY <1>2, FromMemoryIs
<1>6. h[0] = 0 /\ \A i \in 1..w : h[i] = h[i - 1] * Base + high[i]
  BY <1>4, <1>5 DEF Value
<1> DEFINE a == v \div Base
           d == v % Base
<1>7. a \in Nat /\ d \in 0..(Base - 1) /\ v = (a * Base) + d
  BY <1>0, DivMod
<1>8. v \div 1 = v
  OBVIOUS
<1>9. l[1] = d
  BY <1>1, <1>3, <1>8, PlaceIs
<1>d. w = 1 \/ w = 2 \/ w = 4
  OBVIOUS
<1>10. CASE w = 1
  <2>1. v < Base
    BY <1>0, <1>10, PlaceIs
  <2>2. d = v
    <3>1. v = (0 * Base) + v /\ v \in 0..(Base - 1) /\ 0 \in Nat
      BY <1>0, <2>1
    <3> HIDE DEF d
    <3>2. ((0 * Base) + v) % Base = v
      BY <1>0, <3>1, DivModUnique
    <3>3. v % Base = v
      BY <3>1, <3>2
    <3> QED BY <3>3 DEF d
  <2>3. h[1] = h[0] * Base + high[1] /\ high[1] = l[1]
    BY <1>4, <1>6, <1>10
  <2> HIDE DEF d
  <2>4. h[1] = d
    BY <1>0, <1>6, <1>7, <1>9, <2>3
  <2> QED BY <1>5, <1>10, <2>2, <2>4 DEF s
<1>11. CASE w = 2
  <2>1. v < Base * Base
    BY <1>11, PlaceIs
  <2> HIDE DEF a, d
  <2>2. a < Base
    <3>1. CASE a >= Base
      <4>1. (a - Base) * Base \in Nat
        BY <1>0, <1>7, <3>1
      <4>2. a * Base = (a - Base) * Base + Base * Base
        BY <1>0, <1>7
      <4> DEFINE x == a * Base
                 y == Base * Base
                 z == (a - Base) * Base
      <4>3. x \in Int /\ y \in Int /\ z \in Nat /\ x = z + y
        BY <1>0, <1>7, <4>1, <4>2
      <4>4. v < y /\ v = x + d /\ d \in Nat
        BY <1>0, <1>7, <2>1
      <4> HIDE DEF x, y, z
      <4> QED BY <4>3, <4>4
    <3> QED BY <1>0, <1>7, <3>1
  <2>3. a % Base = a
    <3>1. a = (0 * Base) + a /\ a \in 0..(Base - 1)
      BY <1>0, <1>7, <2>2
    <3> QED BY <1>0, <3>1, DivModUnique
  <2>4. l[2] = a
    BY <1>1, <1>3, <1>11, <2>3, PlaceIs DEF a
  <2>5. h[1] = h[0] * Base + high[1] /\ high[1] = l[2] /\ h[2] = h[1] * Base + high[2] /\ high[2] = l[1]
    BY <1>4, <1>6, <1>11
  <2>6. h[1] = a
    BY <1>0, <1>6, <1>7, <2>4, <2>5
  <2> QED BY <1>5, <1>7, <1>9, <1>11, <2>5, <2>6 DEF s
<1>12. CASE w = 4
  <2> DEFINE b == a \div Base
             e == a % Base
             c == b \div Base
             f == b % Base
  <2>1. b \in Nat /\ e \in 0..(Base - 1) /\ a = (b * Base) + e
    <3> HIDE DEF a, d
    <3> QED BY <1>0, <1>7, DivMod
  <2>2. c \in Nat /\ f \in 0..(Base - 1) /\ b = (c * Base) + f
    <3> HIDE DEF b, e
    <3> QED BY <1>0, <2>1, DivMod
  <2>3. b = v \div (Base * Base)
    BY <1>0, DivDiv
  <2>4. c = v \div (Base * Base * Base)
    <3> DEFINE m == Base * Base
    <3>1. m \in Nat \ {0}
      BY PlaceIs
    <3>2. c = (v \div m) \div Base
      BY <2>3
    <3> HIDE DEF m, c
    <3>3. (v \div m) \div Base = v \div (m * Base)
      BY <1>0, <3>1, DivDiv
    <3> QED BY <3>2, <3>3 DEF m
  <2>5. l[2] = e /\ l[3] = f /\ l[4] = c % Base
    <3>1. l[2] = (v \div Base) % Base /\ l[3] = (v \div (Base * Base)) % Base
          /\ l[4] = (v \div (Base * Base * Base)) % Base
      <4>1. 2 \in 1..w /\ 3 \in 1..w /\ 4 \in 1..w
        BY <1>12
      <4>2. l[2] = (v \div Place[2]) % Base /\ l[3] = (v \div Place[3]) % Base
            /\ l[4] = (v \div Place[4]) % Base
        BY <1>3, <4>1
      <4> QED BY <4>2, PlaceIs
    <3>2. l[2] = e
      BY <3>1
    <3>3. l[3] = f
      BY <2>3, <3>1
    <3>4. l[4] = c % Base
      BY <2>4, <3>1
    <3> QED BY <3>2, <3>3, <3>4
  <2>6. v < Base * (Base * Base * Base)
    BY <1>12, PlaceIs
  <2> DEFINE m == Base * Base * Base
             r == v % m
  <2>7. m \in Nat \ {0} /\ r \in Nat /\ v = (c * m) + r
    <3>1. m \in Nat \ {0}
      BY PlaceIs
    <3> HIDE DEF m, c
    <3>2. v \div m \in Nat /\ v % m \in 0..(m - 1) /\ v = ((v \div m) * m) + (v % m)
      BY <3>1, DivMod
    <3> QED BY <2>4, <3>1, <3>2 DEF m
  <2> HIDE DEF a, d, b, e, c, f, m, r
  <2>8. c < Base
    <3>0. v < Base * m
      BY <2>6 DEF m
    <3>1. CASE c >= Base
      <4> DEFINE x == c * m
                 y == Base * m
                 z == (c - Base) * m
      <4>1. z \in Nat /\ x = z + y /\ x \in Int /\ y \in Int
        BY <1>0, <2>2, <2>7, <3>1
      <4>2. v < y /\ v = x + r
        BY <2>7, <3>0
      <4> HIDE DEF x, y, z
      <4> QED BY <2>7, <4>1, <4>2
    <3> QED BY <1>0, <2>2, <3>1
  <2>9. c % Base = c
    <3>1. c = (0 * Base) + c /\ c \in 0..(Base - 1)
      BY <1>0, <2>2, <2>8
    <3> QED BY <1>0, <3>1, DivModUnique
  <2>10. /\ h[1] = h[0] * Base + high[1] /\ high[1] = l[4]
         /\ h[2] = h[1] * Base + high[2] /\ high[2] = l[3]
         /\ h[3] = h[2] * Base + high[3] /\ high[3] = l[2]
         /\ h[4] = h[3] * Base + high[4] /\ high[4] = l[1]
    BY <1>4, <1>6, <1>12
  <2>11. h[1] = c
    BY <1>0, <1>6, <2>2, <2>5, <2>9, <2>10
  <2>12. h[2] = b
    BY <2>2, <2>5, <2>10, <2>11
  <2>13. h[3] = a
    BY <2>1, <2>5, <2>10, <2>12
  <2>14. h[4] = v
    BY <1>7, <1>9, <2>10, <2>13
  <2> QED BY <1>5, <1>12, <2>14 DEF s
<1> QED BY <1>d, <1>10, <1>11, <1>12

-----------------------------------------------------------------------------
(* What the bytes of a buffer hold *)

\* From pos on the bytes b are those of s.
HoldsAt(b, pos, s) ==
    /\ pos + Len(s) <= Len(b)
    /\ \A i \in 1..Len(s) : b[pos + i] = s[i]

LEMMA SubSeqIs ==
    ASSUME NEW S, NEW s \in Seq(S), NEW a \in Nat, NEW n \in Nat, a + n <= Len(s)
    PROVE  /\ SubSeq(s, a + 1, a + n) \in Seq(S) /\ Len(SubSeq(s, a + 1, a + n)) = n
           /\ \A i \in 1..n : SubSeq(s, a + 1, a + n)[i] = s[a + i]
<1> DEFINE t == SubSeq(s, a + 1, a + n)
<1>1. Len(s) \in Nat /\ \A i \in 1..Len(s) : s[i] \in S
  BY LenProperties, ElementOfSeq
<1>2. t = [i \in 1..n |-> s[a + i]]
  <2>1. (a + n) - (a + 1) + 1 = n /\ \A i \in 1..n : i + (a + 1) - 1 = a + i
    OBVIOUS
  <2> QED BY <2>1
<1>3. \A i \in 1..n : a + i \in 1..Len(s)
  BY <1>1
<1> HIDE DEF t
<1>4. t \in [1..n -> S]
  BY <1>1, <1>2, <1>3
<1>5. t \in Seq(S)
  BY <1>4, SeqDef
<1>6. Len(t) = n
  BY <1>4, <1>5, LenProperties
<1>7. \A i \in 1..n : t[i] = s[a + i]
  BY <1>2
<1> QED BY <1>5, <1>6, <1>7 DEF t

LEMMA EqualSeqs ==
    ASSUME NEW S, NEW s \in Seq(S), NEW t \in Seq(S), Len(s) = Len(t),
           \A i \in 1..Len(s) : s[i] = t[i]
    PROVE  s = t
BY SeqEqual

LEMMA HeldIsSubSeq ==
    ASSUME NEW b \in Seq(Byte), NEW pos \in Nat, NEW s \in Seq(Byte), HoldsAt(b, pos, s)
    PROVE  SubSeq(b, pos + 1, pos + Len(s)) = s
<1> DEFINE t == SubSeq(b, pos + 1, pos + Len(s))
<1>1. Len(s) \in Nat /\ pos + Len(s) <= Len(b) /\ \A i \in 1..Len(s) : b[pos + i] = s[i]
  BY LenProperties DEF HoldsAt
<1>2. t \in Seq(Byte) /\ Len(t) = Len(s) /\ \A i \in 1..Len(s) : t[i] = b[pos + i]
  BY <1>1, SubSeqIs
<1> HIDE DEF t
<1>3. t = s
  BY <1>1, <1>2, EqualSeqs
<1> QED BY <1>3 DEF t

LEMMA HoldsAtParts ==
    ASSUME NEW b \in Seq(Byte), NEW pos \in Nat, NEW s \in Seq(Byte), NEW t \in Seq(Byte),
           HoldsAt(b, pos, s \o t)
    PROVE  HoldsAt(b, pos, s) /\ HoldsAt(b, pos + Len(s), t)
<1> DEFINE u == s \o t
<1>1. Len(s) \in Nat /\ Len(t) \in Nat /\ Len(b) \in Nat
  BY LenProperties
<1>2. Len(u) = Len(s) + Len(t) /\ \A i \in 1..Len(u) : u[i] = IF i <= Len(s) THEN s[i] ELSE t[i - Len(s)]
  BY ConcatProperties
<1>3. pos + Len(u) <= Len(b) /\ \A i \in 1..Len(u) : b[pos + i] = u[i]
  BY DEF HoldsAt
<1> HIDE DEF u
<1>4. ASSUME NEW i \in 1..Len(s) PROVE b[pos + i] = s[i]
  <2>1. i \in 1..Len(u) /\ i <= Len(s)
    BY <1>1, <1>2
  <2> QED BY <1>2, <1>3, <2>1
<1>5. ASSUME NEW i \in 1..Len(t) PROVE b[(pos + Len(s)) + i] = t[i]
  <2> DEFINE j == Len(s) + i
  <2>1. j \in 1..Len(u) /\ ~(j <= Len(s)) /\ j - Len(s) = i /\ (pos + Len(s)) + i = pos + j
    BY <1>1, <1>2
  <2> HIDE DEF j
  <2> QED BY <1>2, <1>3, <2>1
<1>6. pos + Len(s) <= Len(b) /\ (pos + Len(s)) + Len(t) <= Len(b)
  BY <1>1, <1>2, <1>3
<1> QED BY <1>4, <1>5, <1>6 DEF HoldsAt

LEMMA HoldsAppended ==
    ASSUME NEW b \in Seq(Byte), NEW c \in Seq(Byte)
    PROVE  /\ HoldsAt(b \o c, Len(b), c)
           /\ \A pos \in Nat : \A s \in Seq(Byte) : HoldsAt(b, pos, s) => HoldsAt(b \o c, pos, s)
<1> DEFINE u == b \o c
<1>1. Len(b) \in Nat /\ Len(c) \in Nat
  BY LenProperties
<1>2. Len(u) = Len(b) + Len(c) /\ \A i \in 1..Len(u) : u[i] = IF i <= Len(b) THEN b[i] ELSE c[i - Len(b)]
  BY ConcatProperties
<1> HIDE DEF u
<1>3. HoldsAt(u, Len(b), c)
  <2>1. ASSUME NEW i \in 1..Len(c) PROVE u[Len(b) + i] = c[i]
    <3> DEFINE j == Len(b) + i
    <3>1. j \in 1..Len(u) /\ ~(j <= Len(b)) /\ j - Len(b) = i
      BY <1>1, <1>2
    <3> HIDE DEF j
    <3>2. u[j] = c[i]
      BY <1>2, <3>1
    <3> QED BY <3>2 DEF j
  <2> QED BY <1>1, <1>2, <2>1 DEF HoldsAt
<1>4. ASSUME NEW pos \in Nat, NEW s \in Seq(Byte), HoldsAt(b, pos, s) PROVE HoldsAt(u, pos, s)
  <2>1. Len(s) \in Nat /\ pos + Len(s) <= Len(b) /\ \A i \in 1..Len(s) : b[pos + i] = s[i]
    BY <1>4, LenProperties DEF HoldsAt
  <2>2. ASSUME NEW i \in 1..Len(s) PROVE u[pos + i] = s[i]
    <3> DEFINE j == pos + i
    <3>1. j \in 1..Len(u) /\ j <= Len(b)
      BY <1>1, <1>2, <2>1
    <3>2. b[j] = s[i]
      BY <2>1
    <3> HIDE DEF j
    <3>3. u[j] = s[i]
      BY <1>2, <3>1, <3>2
    <3> QED BY <3>3 DEF j
  <2> QED BY <1>1, <1>2, <2>1, <2>2 DEF HoldsAt
<1> QED BY <1>3, <1>4 DEF u

-----------------------------------------------------------------------------
(* Numbers in the order asked for *)

\* Whatever the machine, the bytes sent are those of the order asked for.
LEMMA NumberBytesAre ==
    ASSUME biged \in BOOLEAN, sender \in BOOLEAN, NEW v \in Nat, NEW w \in 1..4
    PROVE  /\ NumberBytes(v, w) = InMemory(v, w, biged)
           /\ NumberBytes(v, w) \in Seq(Byte) /\ Len(NumberBytes(v, w)) = w
<1>1. NumberBytes(v, w) = InMemory(v, w, biged)
  <2>1. CASE sender = biged
    BY <2>1 DEF NumberBytes, CareED
  <2>2. CASE sender # biged
    <3>1. biged = ~sender
      BY <2>2
    <3>2. Reverse(InMemory(v, w, sender)) = InMemory(v, w, ~sender)
      BY InMemoryIs
    <3> QED BY <2>2, <3>1, <3>2 DEF NumberBytes, CareED
  <2> QED BY <2>1, <2>2
<1>2. InMemory(v, w, biged) \in Seq(Byte) /\ Len(InMemory(v, w, biged)) = w
  BY InMemoryIs
<1> QED BY <1>1, <1>2

\* ... and are read so.
LEMMA ReadBack ==
    ASSUME biged \in BOOLEAN, receiver \in BOOLEAN, NEW s \in Seq(Byte)
    PROVE  /\ FromMemory(CareED(s, receiver), receiver) = FromMemory(s, biged)
           /\ FromMemory(CareED(s, receiver), receiver) \in Nat
<1>1. FromMemory(s, biged) \in Nat
  BY FromMemoryIs
<1>2. CASE receiver = biged
  BY <1>1, <1>2 DEF CareED
<1>3. CASE receiver # biged
  <2>1. CareED(s, receiver) = Reverse(s) /\ receiver = ~biged
    BY <1>3 DEF CareED
  <2>2. Reverse(Reverse(s)) = s /\ Len(Reverse(s)) = Len(s)
    BY ReverseIs
  <2>3. FromMemory(Reverse(s), ~biged) = FromMemory(s, biged)
    <3>1. CASE biged
      BY <2>2, <3>1 DEF FromMemory
    <3>2. CASE ~biged
      BY <2>2, <3>2 DEF FromMemory
    <3> QED BY <3>1, <3>2
  <2> QED BY <1>1, <2>1, <2>3
<1> QED BY <1>2, <1>3

LEMMA NumberAtIs ==
    ASSUME biged \in BOOLEAN, receiver \in BOOLEAN, bytes \in Seq(Byte),
           NEW pos \in Nat, NEW w \in Nat, pos + w <= Len(bytes)
    PROVE  NumberAt(pos, w) \in Nat
<1>1. SubSeq(bytes, pos + 1, pos + w) \in Seq(Byte)
  BY SubSeqIs
<1> QED BY <1>1, ReadBack DEF NumberAt

LEMMA NumberHeld ==
    ASSUME biged \in BOOLEAN, receiver \in BOOLEAN, bytes \in Seq(Byte),
           NEW v \in Nat, NEW w \in {1, 2, 4}, v < Base * Place[w],
           NEW pos \in Nat, HoldsAt(bytes, pos, InMemory(v, w, biged))
    PROVE  NumberAt(pos, w) = v
<1> DEFINE s == InMemory(v, w, biged)
<1>1. w \in 1..4
  OBVIOUS
<1>2. s \in Seq(Byte) /\ Len(s) = w
  BY <1>1, InMemoryIs
<1>3. FromMemory(s, biged) = v
  BY MemoryBack
<1> HIDE DEF s
<1>4. SubSeq(bytes, pos + 1, pos + w) = s
  <2>1. HoldsAt(bytes, pos, s)
    BY DEF s
  <2> QED BY <1>2, <2>1, HeldIsSubSeq
<1>5. FromMemory(CareED(s, receiver), receiver) = FromMemory(s, biged)
  BY <1>2, ReadBack
<1> QED BY <1>3, <1>4, <1>5 DEF NumberAt

\* A byte is a number of one byte.
LEMMA ByteHeld ==
    ASSUME biged \in BOOLEAN, receiver \in BOOLEAN, bytes \in Seq(Byte),
           NEW v \in Byte, NEW pos \in Nat, HoldsAt(bytes, pos, <<v>>)
    PROVE  NumberAt(pos, 1) = v
<1> DEFINE s == InMemory(v, 1, biged)
<1>1. v \in Nat /\ Base \in Nat \ {0} /\ v \in 0..(Base - 1)
  BY PlaceIs DEF Byte
<1>2. s \in Seq(Byte) /\ Len(s) = 1
  <2>1. 1 \in 1..4
    OBVIOUS
  <2> QED BY <1>1, <2>1, InMemoryIs
<1>3. Little(v, 1) \in Seq(Byte) /\ Len(Little(v, 1)) = 1 /\ Little(v, 1)[1] = v
  <2>0. 1 \in 1..4 /\ 1 \in 1..1
    OBVIOUS
  <2>6. /\ Little(v, 1) \in Seq(Byte) /\ Len(Little(v, 1)) = 1
        /\ Little(v, 1)[1] = (v \div Place[1]) % Base
    BY <1>1, <2>0, LittleIs
  <2>1. Little(v, 1)[1] = (v \div 1) % Base
    BY <2>6, PlaceIs
  <2>2. v \div 1 = v
    BY <1>1
  <2>3. ((0 * Base) + v) % Base = v
    BY <1>1, DivModUnique
  <2>4. (0 * Base) + v = v
    BY <1>1
  <2> QED BY <2>1, <2>2, <2>3, <2>4, <2>6
<1>4. s[1] = v
  <2>1. CASE biged
    <3>1. s = Reverse(Little(v, 1))
      <4>1. 1 \in 1..4
        OBVIOUS
      <4>2. InMemory(v, 1, biged) = IF biged THEN Reverse(Little(v, 1)) ELSE Little(v, 1)
        BY <1>1, <4>1, InMemoryIs
      <4> QED BY <1>2, <2>1, <4>2
    <3>2. Reverse(Little(v, 1))[1] = Little(v, 1)[1]
      BY <1>3, ReverseIs
    <3> QED BY <1>3, <3>1, <3>2
  <2>2. CASE ~biged
    <3>1. 1 \in 1..4
      OBVIOUS
    <3>2. InMemory(v, 1, biged) = IF biged THEN Reverse(Little(v, 1)) ELSE Little(v, 1)
      BY <1>1, <3>1, InMemoryIs
    <3> QED BY <1>3, <2>2, <3>2
  <2> QED BY <2>1, <2>2
<1> HIDE DEF s
<1>5. s = <<v>>
  <2>1. <<v>> \in Seq(Byte) /\ Len(<<v>>) = 1 /\ <<v>>[1] = v
    OBVIOUS
  <2> QED BY <1>2, <1>4, <2>1, EqualSeqs
<1>6. v < Base * Place[1]
  BY <1>1, PlaceIs
<1>7. HoldsAt(bytes, pos, s)
  BY <1>5
<1> QED BY <1>1, <1>6, <1>7, NumberHeld DEF s

-----------------------------------------------------------------------------
(* The pieces of a string *)

\* The recursion of Write is one, too.
UpTo(u, pieces, S) ==
    /\ u \in [0..Len(pieces) -> Seq(S)]
    /\ u[0] = <<>>
    /\ \A k \in 1..Len(pieces) : u[k] = u[k - 1] \o pieces[k]

UpToFrom(u, pieces) ==
    [k \in 0..Len(pieces) |-> IF k = 0 THEN <<>> ELSE u[k - 1] \o pieces[k]]

LEMMA UpToExists ==
    ASSUME NEW S, NEW pieces \in Seq(Seq(S))
    PROVE  \E g : g = UpToFrom(g, pieces)
<1> DEFINE n == Len(pieces)
           X == Seq(S)
           step == [k \in 1..n |-> [x \in X |-> x \o pieces[k]]]
           none == <<>>
<1>1. n \in Nat /\ \A k \in 1..n : pieces[k] \in X
  BY LenProperties, ElementOfSeq
<1>2. none \in X
  OBVIOUS
<1>3. \A x \in X : \A y \in X : x \o y \in X
  BY ConcatProperties
<1>4. step \in [1..n -> [X -> X]]
  BY <1>1, <1>3
<1>5. \A k \in 1..n : \A x \in X : step[k][x] = x \o pieces[k]
  OBVIOUS
<1>6. \A f : UpToFrom(f, pieces) = [k \in 0..n |-> IF k = 0 THEN none ELSE f[k - 1] \o pieces[k]]
  BY DEF UpToFrom
<1> HIDE DEF n, X, step, none
<1>7. PICK g \in [0..n -> X] : g[0] = none /\ \A i \in 1..n : g[i] = step[i][g[i - 1]]
  <2>1. n \in Nat /\ none \in X /\ step \in [1..n -> [X -> X]]
    BY <1>1, <1>2, <1>4
  <2>2. Solutions(n, X, none, step) # {}
    BY <2>1, Recursion
  <2> QED BY <2>2 DEF Solutions
<1>8. ASSUME NEW i \in 1..n PROVE g[i] = g[i - 1] \o pieces[i]
  <2>1. i - 1 \in 0..n
    BY <1>1
  <2>2. g[i - 1] \in X
    BY <1>7, <2>1
  <2>3. g[i] = step[i][g[i - 1]]
    BY <1>7
  <2> QED BY <1>5, <2>2, <2>3
<1>9. g = UpToFrom(g, pieces)
  <2>1. \A i \in 0..n : i # 0 => i \in 1..n
    BY <1>1
  <2>2. g = [i \in 0..n |-> g[i]]
    BY <1>7
  <2>3. \A i \in 0..n : g[i] = IF i = 0 THEN none ELSE g[i - 1] \o pieces[i]
    BY <1>7, <1>8, <2>1
  <2> QED BY <1>6, <2>2, <2>3
<1> QED BY <1>9

LEMMA UpToIs ==
    ASSUME NEW S, NEW pieces \in Seq(Seq(S)), NEW u, u = UpToFrom(u, pieces)
    PROVE  UpTo(u, pieces, S)
<1> DEFINE n == Len(pieces)
           X == Seq(S)
           none == <<>>
<1>1. n \in Nat /\ \A k \in 1..n : pieces[k] \in X
  BY LenProperties, ElementOfSeq
<1>2. none \in X
  OBVIOUS
<1>3. \A x \in X : \A y \in X : x \o y \in X
  BY ConcatProperties
<1>4. u = [k \in 0..n |-> IF k = 0 THEN none ELSE u[k - 1] \o pieces[k]]
  BY DEF UpToFrom
<1> HIDE DEF n, X, none
<1>5. u[0] = none /\ \A k \in 1..n : u[k] = u[k - 1] \o pieces[k]
  <2>1. 0 \in 0..n /\ \A k \in 1..n : k \in 0..n /\ k # 0
    BY <1>1
  <2> QED BY <1>4, <2>1
<1>6. \A k \in 0..n : u[k] \in X
  <2> DEFINE T == {k \in 0..n : u[k] \in X}
  <2>1. 0 \in T
    BY <1>1, <1>2, <1>5
  <2>2. ASSUME NEW k \in 1..n, k - 1 \in T PROVE k \in T
    <3>1. u[k - 1] \in X
      BY <2>2
    <3>2. u[k] = u[k - 1] \o pieces[k] /\ pieces[k] \in X
      BY <1>1, <1>5
    <3>3. u[k] \in X
      BY <1>3, <3>1, <3>2
    <3>4. k \in 0..n
      BY <1>1
    <3> QED BY <3>3, <3>4
  <2>3. T \in SUBSET (0..n)
    OBVIOUS
  <2>4. T = 0..n
    <3> HIDE DEF T
    <3> QED BY <1>1, <2>1, <2>2, <2>3, Induction
  <2> QED BY <2>4
<1>7. u \in [0..n -> X]
  BY <1>4, <1>6
<1> QED BY <1>5, <1>7 DEF UpTo, n, X, none

\* The length before a string of n bytes.
Prefix(n, big) ==
    IF n < MaxByte THEN <<n>>
    ELSE IF n < MaxShort THEN <<MaxByte>> \o InMemory(n, 2, big)
    ELSE (<<MaxByte>> \o InMemory(MaxShort, 2, big)) \o InMemory(n, 4, big)

LEMMA PrefixIs ==
    ASSUME NEW n \in Nat, NEW big \in BOOLEAN
    PROVE  /\ Prefix(n, big) \in Seq(Byte)
           /\ Len(Prefix(n, big)) = IF n < MaxByte THEN 1 ELSE IF n < MaxShort THEN 3 ELSE 7
<1>1. MaxByte \in Byte /\ MaxShort \in Nat /\ Byte \subseteq Nat /\ MaxByte \in Nat
      /\ (n < MaxByte => n \in Byte)
  BY PlaceIs DEF Byte
<1> DEFINE m == <<MaxByte>>
           x == InMemory(n, 2, big)
           y == InMemory(MaxShort, 2, big)
           z == InMemory(n, 4, big)
<1>2. x \in Seq(Byte) /\ y \in Seq(Byte) /\ z \in Seq(Byte) /\ Len(x) = 2 /\ Len(y) = 2 /\ Len(z) = 4
  <2>1. 2 \in 1..4 /\ 4 \in 1..4
    OBVIOUS
  <2> QED BY <1>1, <2>1, InMemoryIs
<1>3. m \in Seq(Byte) /\ Len(m) = 1
  BY <1>1
<1>4. CASE n < MaxByte
  BY <1>1, <1>4 DEF Prefix
<1>5. CASE ~(n < MaxByte) /\ n < MaxShort
  <2>1. Prefix(n, big) = m \o x
    BY <1>5 DEF Prefix
  <2> HIDE DEF m, x, y, z
  <2>2. m \o x \in Seq(Byte) /\ Len(m \o x) = Len(m) + Len(x)
    BY <1>2, <1>3, ConcatProperties
  <2> QED BY <1>2, <1>3, <1>5, <2>1, <2>2
<1>6. CASE ~(n < MaxByte) /\ ~(n < MaxShort)
  <2>1. Prefix(n, big) = (m \o y) \o z
    BY <1>6 DEF Prefix
  <2> HIDE DEF m, x, y, z
  <2>2. m \o y \in Seq(Byte) /\ Len(m \o y) = Len(m) + Len(y)
    BY <1>2, <1>3, ConcatProperties
  <2>3. (m \o y) \o z \in Seq(Byte) /\ Len((m \o y) \o z) = Len(m \o y) + Len(z)
    BY <1>2, <2>2, ConcatProperties
  <2> QED BY <1>2, <1>3, <1>6, <2>1, <2>2, <2>3
<1> QED BY <1>4, <1>5, <1>6

\* Lists put together.
LEMMA ListOfThree ==
    ASSUME NEW X, NEW p \in X, NEW q \in X, NEW r \in X
    PROVE  <<p>> \o <<q>> = <<p, q>> /\ <<p, q>> \o <<r>> = <<p, q, r>>
<1>1. <<p, q>> = Append(<<p>>, q) /\ <<p, q, r>> = Append(<<p, q>>, r)
  OBVIOUS
<1>2. <<p>> \in Seq(X) /\ <<p, q>> \in Seq(X)
  OBVIOUS
<1>3. Append(<<p>>, q) = <<p>> \o <<q>> /\ Append(<<p, q>>, r) = <<p, q>> \o <<r>>
  BY <1>2, AppendIsConcat
<1> QED BY <1>1, <1>3

LEMMA ListOfFour ==
    ASSUME NEW X, NEW p \in X, NEW q \in X, NEW r \in X, NEW t \in X
    PROVE  <<p, q, r>> \o <<t>> = <<p, q, r, t>>
<1>1. <<p, q, r, t>> = Append(<<p, q, r>>, t)
  OBVIOUS
<1>2. <<p, q, r>> \in Seq(X)
  OBVIOUS
<1>3. Append(<<p, q, r>>, t) = <<p, q, r>> \o <<t>>
  BY <1>2, AppendIsConcat
<1> QED BY <1>1, <1>3

\* The pieces of a string make the length and the string.
LEMMA PiecesMake ==
    ASSUME biged \in BOOLEAN, sender \in BOOLEAN, NEW s \in Seq(Byte)
    PROVE  /\ Pieces(s) \in Seq(Seq(Byte)) /\ Len(Pieces(s)) \in 1..4
           /\ \A u : UpTo(u, Pieces(s), Byte) => u[Len(Pieces(s))] = Prefix(Len(s), biged) \o s
<1> DEFINE n == Len(s)
           X == Seq(Byte)
           m == <<MaxByte>>
           b == <<n>>
           x == InMemory(n, 2, biged)
           y == InMemory(MaxShort, 2, biged)
           z == InMemory(n, 4, biged)
<1>1. n \in Nat /\ MaxByte \in Byte /\ MaxShort \in Nat /\ Byte \subseteq Nat /\ MaxByte \in Nat
      /\ (n < MaxByte => n \in Byte) /\ MaxByte < MaxShort
  BY PlaceIs, LenProperties DEF Byte
<1>2. x \in X /\ y \in X /\ z \in X
  <2>1. 2 \in 1..4 /\ 4 \in 1..4
    OBVIOUS
  <2> HIDE DEF n
  <2> QED BY <1>1, <2>1, InMemoryIs
<1>e. NumberBytes(n, 2) = x /\ NumberBytes(MaxShort, 2) = y /\ NumberBytes(n, 4) = z
  <2>1. 2 \in 1..4 /\ 4 \in 1..4
    OBVIOUS
  <2> HIDE DEF n
  <2> QED BY <1>1, <2>1, NumberBytesAre
<1>3. m \in X /\ s \in X /\ (n < MaxByte => b \in X)
  BY <1>1
<1>4. \A p \in X : <<>> \o p = p
  OBVIOUS
<1>5. CASE n < MaxByte
  <2>1. Pieces(s) = <<b>> \o <<s>>
    <3>1. n < MaxByte /\ ~(n >= MaxByte) /\ ~(n >= MaxShort)
      BY <1>1, <1>5
    <3> QED BY <1>e, <3>1, Zenon DEF Pieces
  <2>2. Prefix(n, biged) = b
    BY <1>5 DEF Prefix
  <2> HIDE DEF X, n, b
  <2>3. b \in X
    BY <1>3, <1>5
  <2>4. Pieces(s) = <<b, s>>
    BY <1>3, <2>1, <2>3, ListOfThree
  <2>5. Pieces(s) \in Seq(X) /\ Len(Pieces(s)) = 2 /\ Pieces(s)[1] = b /\ Pieces(s)[2] = s
    BY <1>3, <2>3, <2>4
  <2>6. ASSUME NEW u, UpTo(u, Pieces(s), Byte) PROVE u[2] = b \o s
    <3>0. u[0] = <<>> /\ \A k \in 1..2 : u[k] = u[k - 1] \o Pieces(s)[k]
      BY <2>5, <2>6 DEF UpTo
    <3>9. 1 \in 1..2 /\ 1 - 1 = 0 /\ 2 \in 1..2 /\ 2 - 1 = 1
      OBVIOUS
    <3>1. u[0] = <<>> /\ u[1] = u[0] \o b /\ u[2] = u[1] \o s
      BY <2>5, <3>0, <3>9, Zenon
    <3>2. u[1] = b
      BY <1>4, <2>3, <3>1
    <3> QED BY <3>1, <3>2
  <2>7. Len(Pieces(s)) \in 1..4 /\ \A u : UpTo(u, Pieces(s), Byte) => u[Len(Pieces(s))] = Prefix(n, biged) \o s
    <3>1. Len(Pieces(s)) \in 1..4
      BY <2>5
    <3>2. ASSUME NEW u, UpTo(u, Pieces(s), Byte) PROVE u[Len(Pieces(s))] = Prefix(n, biged) \o s
      <4> HIDE DEF UpTo
      <4> QED BY <2>2, <2>5, <2>6, <3>2
    <3> QED BY <3>1, <3>2
  <2> QED BY <2>5, <2>7 DEF X, n
<1>6. CASE n >= MaxByte /\ n < MaxShort
  <2>1. Pieces(s) = <<m, x>> \o <<s>>
    <3>1. n < MaxShort /\ ~(n < MaxByte) /\ n >= MaxByte /\ ~(n >= MaxShort)
      BY <1>1, <1>6
    <3> QED BY <1>e, <3>1, Zenon DEF Pieces
  <2>2. Prefix(n, biged) = m \o x
    BY <1>1, <1>6 DEF Prefix
  <2> HIDE DEF X, n, m, x
  <2>4. Pieces(s) = <<m, x, s>>
    <3>1. m \in X /\ x \in X /\ s \in X
      BY <1>2, <1>3
    <3>2. <<m, x>> \o <<s>> = <<m, x, s>>
      BY <3>1, ListOfThree
    <3> QED BY <2>1, <3>2, Zenon
  <2>5. Pieces(s) \in Seq(X) /\ Len(Pieces(s)) = 3 /\ Pieces(s)[1] = m /\ Pieces(s)[2] = x
        /\ Pieces(s)[3] = s
    BY <1>2, <1>3, <2>4
  <2>6. ASSUME NEW u, UpTo(u, Pieces(s), Byte) PROVE u[3] = (m \o x) \o s
    <3>0. u[0] = <<>> /\ \A k \in 1..3 : u[k] = u[k - 1] \o Pieces(s)[k]
      BY <2>5, <2>6 DEF UpTo
    <3>9. 1 \in 1..3 /\ 1 - 1 = 0 /\ 2 \in 1..3 /\ 2 - 1 = 1 /\ 3 \in 1..3 /\ 3 - 1 = 2
      OBVIOUS
    <3>1. u[0] = <<>> /\ u[1] = u[0] \o m /\ u[2] = u[1] \o x /\ u[3] = u[2] \o s
      BY <2>5, <3>0, <3>9, Zenon
    <3>2. u[1] = m
      BY <1>3, <1>4, <3>1
    <3> QED BY <3>1, <3>2
  <2>7. Len(Pieces(s)) \in 1..4 /\ \A u : UpTo(u, Pieces(s), Byte) => u[Len(Pieces(s))] = Prefix(n, biged) \o s
    <3>1. Len(Pieces(s)) \in 1..4
      BY <2>5
    <3>2. ASSUME NEW u, UpTo(u, Pieces(s), Byte) PROVE u[Len(Pieces(s))] = Prefix(n, biged) \o s
      <4> HIDE DEF UpTo
      <4> QED BY <2>2, <2>5, <2>6, <3>2
    <3> QED BY <3>1, <3>2
  <2> QED BY <2>5, <2>7 DEF X, n
<1>7. CASE n >= MaxShort
  <2>1. Pieces(s) = <<m, y, z>> \o <<s>>
    <3>1. n >= MaxShort /\ ~(n < MaxByte) /\ ~(n < MaxShort)
      BY <1>1, <1>7
    <3> QED BY <1>e, <3>1, Zenon DEF Pieces
  <2>2. Prefix(n, biged) = (m \o y) \o z
    BY <1>1, <1>7 DEF Prefix
  <2> HIDE DEF X, n, m, y, z
  <2>4. Pieces(s) = <<m, y, z, s>>
    <3>1. m \in X /\ y \in X /\ z \in X /\ s \in X
      BY <1>2, <1>3
    <3>2. <<m, y, z>> \o <<s>> = <<m, y, z, s>>
      BY <3>1, ListOfFour
    <3> QED BY <2>1, <3>2, Zenon
  <2>5. Pieces(s) \in Seq(X) /\ Len(Pieces(s)) = 4 /\ Pieces(s)[1] = m /\ Pieces(s)[2] = y
        /\ Pieces(s)[3] = z /\ Pieces(s)[4] = s
    BY <1>2, <1>3, <2>4
  <2>6. ASSUME NEW u, UpTo(u, Pieces(s), Byte) PROVE u[4] = ((m \o y) \o z) \o s
    <3>0. u[0] = <<>> /\ \A k \in 1..4 : u[k] = u[k - 1] \o Pieces(s)[k]
      BY <2>5, <2>6 DEF UpTo
    <3>9. 1 \in 1..4 /\ 1 - 1 = 0 /\ 2 \in 1..4 /\ 2 - 1 = 1 /\ 3 \in 1..4 /\ 3 - 1 = 2 /\ 4 \in 1..4 /\ 4 - 1 = 3
      OBVIOUS
    <3>1. u[0] = <<>> /\ u[1] = u[0] \o m /\ u[2] = u[1] \o y /\ u[3] = u[2] \o z
          /\ u[4] = u[3] \o s
      BY <2>5, <3>0, <3>9, Zenon
    <3>2. u[1] = m
      BY <1>3, <1>4, <3>1
    <3> QED BY <3>1, <3>2
  <2>7. Len(Pieces(s)) \in 1..4 /\ \A u : UpTo(u, Pieces(s), Byte) => u[Len(Pieces(s))] = Prefix(n, biged) \o s
    <3>1. Len(Pieces(s)) \in 1..4
      BY <2>5
    <3>2. ASSUME NEW u, UpTo(u, Pieces(s), Byte) PROVE u[Len(Pieces(s))] = Prefix(n, biged) \o s
      <4> HIDE DEF UpTo
      <4> QED BY <2>2, <2>5, <2>6, <3>2
    <3> QED BY <3>1, <3>2
  <2> QED BY <2>5, <2>7 DEF X, n
<1> QED BY <1>1, <1>5, <1>6, <1>7

LEMMA CStringIs ==
    ASSUME NEW s \in Seq(Byte)
    PROVE  CString(s) \in Seq(Byte)
<1> DEFINE I == {i \in 1..Len(s) : s[i] = 0}
           first == IF I # {} THEN Min(I) ELSE 0
<1>1. CString(s) = IF first = 0 THEN s ELSE SubSeq(s, 1, first - 1)
  BY DEF CString, SelectInSeq
<1>2. CASE I = {}
  BY <1>1, <1>2
<1>3. CASE I # {}
  <2>1. I \in SUBSET Nat
    BY LenProperties
  <2>2. Min(I) \in I
    <3> HIDE DEF I
    <3>1. PICK x \in I : \A y \in I : x <= y
      BY <1>3, <2>1, LeastNat
    <3> QED BY <3>1 DEF Min
  <2>3. first \in 1..Len(s)
    BY <1>3, <2>2
  <2> HIDE DEF first
  <2>4. Len(s) \in Nat /\ 0 \in Nat /\ first - 1 \in Nat /\ 0 + (first - 1) <= Len(s)
        /\ 0 + (first - 1) = first - 1 /\ 0 + 1 = 1
    BY <2>3, LenProperties
  <2>5. SubSeq(s, 0 + 1, 0 + (first - 1)) \in Seq(Byte)
    <3> DEFINE k == first - 1
    <3>1. k \in Nat /\ 0 + k <= Len(s)
      BY <2>4
    <3> HIDE DEF k
    <3>2. SubSeq(s, 0 + 1, 0 + k) \in Seq(Byte)
      BY <2>4, <3>1, SubSeqIs
    <3> QED BY <3>2 DEF k
  <2>6. SubSeq(s, 1, first - 1) \in Seq(Byte)
    BY <2>4, <2>5
  <2> QED BY <1>1, <2>6
<1> QED BY <1>2, <1>3

LEMMA WidestPlace ==
    ASSUME NEW n \in Nat, n <= MaxInt
    PROVE  n < Base * Place[4]
<1>1. Base \in Nat \ {0} /\ MaxInt \in Nat /\ Place[4] = Base * Base * Base
      /\ Base * Base * Base \in Nat \ {0}
  BY PlaceIs
<1>2. MaxInt = (Base * Base * Base) * Base - 1
  BY DEF MaxInt
<1> DEFINE p == Base * Base * Base
<1>3. p * Base = Base * p /\ p * Base \in Nat
  BY <1>1
<1> DEFINE q == p * Base
<1>4. Base * Place[4] = q
  BY <1>1, <1>3
<1> HIDE DEF q
<1>5. q \in Nat /\ MaxInt = q - 1
  BY <1>2, <1>3 DEF q
<1> QED BY <1>1, <1>4, <1>5

\* Whatever the bytes at pos are, the cursor moves over bytes that have arrived.
LEMMA LengthAtBounds ==
    ASSUME biged \in BOOLEAN, receiver \in BOOLEAN, bytes \in Seq(Byte),
           arrived \in Nat, arrived <= Len(bytes), NEW pos \in Nat, pos <= arrived
    PROVE  /\ LengthAt(pos).ok \in BOOLEAN
           /\ LengthAt(pos).n \in Nat
           /\ LengthAt(pos).at \in pos..arrived
           /\ ~Has(pos, 1) => LengthAt(pos).ok = FALSE /\ LengthAt(pos).at = pos
<1> DEFINE a == NumberAt(pos, 1)
           b == NumberAt(pos + 1, 2)
           c == NumberAt(pos + 3, 4)
<1>1. Len(bytes) \in Nat
  BY LenProperties
<1>2. Has(pos, 1) => pos + 1 <= arrived /\ a \in Nat
  <2> SUFFICES ASSUME Has(pos, 1) PROVE pos + 1 <= arrived /\ a \in Nat
    OBVIOUS
  <2>1. pos + 1 <= arrived /\ pos + 1 <= Len(bytes)
    BY <1>1 DEF Has
  <2> QED BY <2>1, NumberAtIs
<1>3. Has(pos, 1) /\ Has(pos + 1, 2) => pos + 3 <= arrived /\ b \in Nat
  <2> SUFFICES ASSUME Has(pos + 1, 2) PROVE pos + 3 <= arrived /\ b \in Nat
    OBVIOUS
  <2>1. pos + 3 <= arrived /\ (pos + 1) + 2 <= Len(bytes) /\ pos + 1 \in Nat
    BY <1>1 DEF Has
  <2> QED BY <2>1, NumberAtIs
<1>4. Has(pos + 3, 4) => pos + 7 <= arrived /\ c \in Nat
  <2> SUFFICES ASSUME Has(pos + 3, 4) PROVE pos + 7 <= arrived /\ c \in Nat
    OBVIOUS
  <2>1. pos + 7 <= arrived /\ (pos + 3) + 4 <= Len(bytes) /\ pos + 3 \in Nat
    BY <1>1 DEF Has
  <2> QED BY <2>1, NumberAtIs
<1>5. LengthAt(pos) =
        IF ~Has(pos, 1) THEN [ok |-> FALSE, n |-> 0, at |-> pos]
        ELSE IF a < MaxByte THEN [ok |-> TRUE, n |-> a, at |-> pos + 1]
        ELSE IF ~Has(pos + 1, 2) THEN [ok |-> FALSE, n |-> 0, at |-> pos + 1]
        ELSE IF b < MaxShort THEN [ok |-> TRUE, n |-> b, at |-> pos + 3]
        ELSE IF ~Has(pos + 3, 4) THEN [ok |-> FALSE, n |-> 0, at |-> pos + 3]
        ELSE [ok |-> TRUE, n |-> c, at |-> pos + 7]
  BY DEF LengthAt
<1> HIDE DEF a, b, c
<1>6. CASE ~Has(pos, 1)
  BY <1>5, <1>6
<1>7. CASE Has(pos, 1)
  <2>1. CASE a < MaxByte
    <3>1. LengthAt(pos) = [ok |-> TRUE, n |-> a, at |-> pos + 1]
      BY <1>5, <1>7, <2>1
    <3> QED BY <1>2, <1>7, <3>1
  <2>2. CASE ~(a < MaxByte) /\ ~Has(pos + 1, 2)
    <3>1. LengthAt(pos) = [ok |-> FALSE, n |-> 0, at |-> pos + 1]
      BY <1>5, <1>7, <2>2
    <3> QED BY <1>2, <1>7, <3>1
  <2>3. CASE ~(a < MaxByte) /\ Has(pos + 1, 2) /\ b < MaxShort
    <3>1. LengthAt(pos) = [ok |-> TRUE, n |-> b, at |-> pos + 3]
      BY <1>5, <1>7, <2>3
    <3> QED BY <1>3, <1>7, <2>3, <3>1
  <2>4. CASE ~(a < MaxByte) /\ Has(pos + 1, 2) /\ ~(b < MaxShort) /\ ~Has(pos + 3, 4)
    <3>1. LengthAt(pos) = [ok |-> FALSE, n |-> 0, at |-> pos + 3]
      BY <1>5, <1>7, <2>4
    <3> QED BY <1>3, <1>7, <2>4, <3>1
  <2>5. CASE ~(a < MaxByte) /\ Has(pos + 1, 2) /\ ~(b < MaxShort) /\ Has(pos + 3, 4)
    <3>1. LengthAt(pos) = [ok |-> TRUE, n |-> c, at |-> pos + 7]
      BY <1>5, <1>7, <2>5
    <3> QED BY <1>4, <1>7, <2>5, <3>1
  <2> QED BY <2>1, <2>2, <2>3, <2>4, <2>5
<1> QED BY <1>6, <1>7

\* The length that was written is the length that is read.
LEMMA LengthAtHeld ==
    ASSUME biged \in BOOLEAN, receiver \in BOOLEAN, bytes \in Seq(Byte),
           NEW pos \in Nat, NEW n \in Nat, n <= MaxInt, HoldsAt(bytes, pos, Prefix(n, biged))
    PROVE  LengthAt(pos).ok => /\ LengthAt(pos).n = n
                               /\ LengthAt(pos).at = pos + Len(Prefix(n, biged))
<1> DEFINE a == NumberAt(pos, 1)
           b == NumberAt(pos + 1, 2)
           c == NumberAt(pos + 3, 4)
           m == <<MaxByte>>
           x == InMemory(n, 2, biged)
           y == InMemory(MaxShort, 2, biged)
           z == InMemory(n, 4, biged)
           p == Prefix(n, biged)
<1>1. /\ Base \in Nat \ {0, 1} /\ MaxByte \in Byte /\ MaxShort \in Nat /\ Byte \subseteq Nat
      /\ MaxByte \in Nat /\ (n < MaxByte => n \in Byte) /\ MaxByte < MaxShort
  BY PlaceIs DEF Byte
<1>2. x \in Seq(Byte) /\ y \in Seq(Byte) /\ z \in Seq(Byte) /\ Len(x) = 2 /\ Len(y) = 2 /\ Len(z) = 4
  <2>1. 2 \in 1..4 /\ 4 \in 1..4
    OBVIOUS
  <2> QED BY <1>1, <2>1, InMemoryIs
<1>3. m \in Seq(Byte) /\ Len(m) = 1
  BY <1>1
<1>4. Len(p) = IF n < MaxByte THEN 1 ELSE IF n < MaxShort THEN 3 ELSE 7
  BY PrefixIs
<1>5. LengthAt(pos) =
        IF ~Has(pos, 1) THEN [ok |-> FALSE, n |-> 0, at |-> pos]
        ELSE IF a < MaxByte THEN [ok |-> TRUE, n |-> a, at |-> pos + 1]
        ELSE IF ~Has(pos + 1, 2) THEN [ok |-> FALSE, n |-> 0, at |-> pos + 1]
        ELSE IF b < MaxShort THEN [ok |-> TRUE, n |-> b, at |-> pos + 3]
        ELSE IF ~Has(pos + 3, 4) THEN [ok |-> FALSE, n |-> 0, at |-> pos + 3]
        ELSE [ok |-> TRUE, n |-> c, at |-> pos + 7]
  BY DEF LengthAt
<1>6. HoldsAt(bytes, pos, p)
  OBVIOUS
<1>7. CASE n < MaxByte
  <2>1. HoldsAt(bytes, pos, <<n>>)
    BY <1>6, <1>7 DEF Prefix
  <2>2. a = n
    BY <1>1, <1>7, <2>1, ByteHeld
  <2> HIDE DEF a, b, c, m, x, y, z
  <2> QED BY <1>4, <1>5, <1>7, <2>2
<1>8. CASE ~(n < MaxByte) /\ n < MaxShort
  <2>1. HoldsAt(bytes, pos, m \o x)
    BY <1>6, <1>8 DEF Prefix
  <2>2. HoldsAt(bytes, pos, m) /\ HoldsAt(bytes, pos + 1, x)
    <3> HIDE DEF m, x
    <3> QED BY <1>2, <1>3, <2>1, HoldsAtParts
  <2>3. a = MaxByte
    BY <1>1, <2>2, ByteHeld
  <2>4. b = n
    <3>1. n < Base * Place[2]
      BY <1>8, PlaceIs DEF MaxShort
    <3>2. pos + 1 \in Nat /\ 2 \in {1, 2, 4}
      OBVIOUS
    <3> QED BY <2>2, <3>1, <3>2, NumberHeld
  <2> HIDE DEF a, b, c, m, x, y, z
  <2> QED BY <1>1, <1>4, <1>5, <1>8, <2>3, <2>4
<1>9. CASE ~(n < MaxByte) /\ ~(n < MaxShort)
  <2>1. HoldsAt(bytes, pos, (m \o y) \o z)
    BY <1>6, <1>9 DEF Prefix
  <2>2. HoldsAt(bytes, pos, m) /\ HoldsAt(bytes, pos + 1, y) /\ HoldsAt(bytes, pos + 3, z)
    <3> HIDE DEF m, y, z
    <3>1. m \o y \in Seq(Byte) /\ Len(m \o y) = Len(m) + Len(y)
      BY <1>2, <1>3, ConcatProperties
    <3>2. Len(m \o y) = 3
      BY <1>2, <1>3, <3>1
    <3>3. HoldsAt(bytes, pos, m \o y) /\ HoldsAt(bytes, pos + Len(m \o y), z)
      BY <1>2, <2>1, <3>1, HoldsAtParts
    <3>4. HoldsAt(bytes, pos, m) /\ HoldsAt(bytes, pos + Len(m), y)
      BY <1>2, <1>3, <3>3, HoldsAtParts
    <3> QED BY <1>3, <3>2, <3>3, <3>4
  <2>3. a = MaxByte
    BY <1>1, <2>2, ByteHeld
  <2>4. b = MaxShort
    <3>1. MaxShort < Base * Place[2]
      BY <1>1, PlaceIs DEF MaxShort
    <3>2. pos + 1 \in Nat /\ 2 \in {1, 2, 4}
      OBVIOUS
    <3> QED BY <1>1, <2>2, <3>1, <3>2, NumberHeld
  <2>5. c = n
    <3>1. n < Base * Place[4]
      BY WidestPlace
    <3>2. pos + 3 \in Nat /\ 4 \in {1, 2, 4}
      OBVIOUS
    <3> QED BY <2>2, <3>1, <3>2, NumberHeld
  <2> HIDE DEF a, b, c, m, x, y, z
  <2> QED BY <1>1, <1>4, <1>5, <1>9, <2>3, <2>4, <2>5
<1> QED BY <1>7, <1>8, <1>9

-----------------------------------------------------------------------------
(* What has been written and what has been read *)

Values == Nat \cup Seq(Byte)

ValueOf(kind) == IF kind = "number" THEN 0..MaxInt ELSE Seq(Byte)

\* The bytes of a value.
Code(kind, v, big) ==
    IF kind = "number" THEN InMemory(v, 4, big) ELSE Prefix(Len(v), big) \o v

\* The bytes b are those of the values w, one after the other: w[i] ends at ends[i].
Laid(ends, b, w, kinds, big) ==
    /\ ends \in [0..Len(w) -> Nat]
    /\ ends[0] = 0 /\ ends[Len(w)] = Len(b)
    /\ \A i \in 0..(Len(w) - 1) : ends[i] < Len(b)
    /\ \A i \in 1..Len(w) :
         /\ w[i] \in ValueOf(kinds[i])
         /\ ends[i] = ends[i - 1] + Len(Code(kinds[i], w[i], big))
         /\ HoldsAt(b, ends[i - 1], Code(kinds[i], w[i], big))

BufferTyped ==
    /\ schema \in Seq({"string", "cstring", "number"})
    /\ biged \in BOOLEAN /\ sender \in BOOLEAN /\ receiver \in BOOLEAN /\ intact \in BOOLEAN
    /\ bytes \in Seq(Byte) /\ arrived \in Nat /\ pread \in Nat
    /\ wrote \in Seq(Values) /\ got \in Seq(Values) /\ Len(wrote) <= Len(schema)

\* While no exception has left half a value behind, what is in the buffer are the
\* values that were written, and the reader is at the end of the last one it read.
Faithful ==
    /\ Len(got) <= Len(wrote) /\ \A i \in 1..Len(got) : got[i] = wrote[i]
    /\ \E ends : Laid(ends, bytes, wrote, schema, biged) /\ pread = ends[Len(got)]

BufferInv == BufferTyped /\ CursorsInBounds /\ (intact => Faithful)

LEMMA CodeIs ==
    ASSUME NEW kind, NEW v \in ValueOf(kind), NEW big \in BOOLEAN
    PROVE  Code(kind, v, big) \in Seq(Byte) /\ Len(Code(kind, v, big)) \in Nat \ {0} /\ v \in Values
<1>1. CASE kind = "number"
  <2>1. v \in Nat /\ 4 \in 1..4
    BY <1>1, PlaceIs DEF ValueOf
  <2>2. InMemory(v, 4, big) \in Seq(Byte) /\ Len(InMemory(v, 4, big)) = 4
    BY <2>1, InMemoryIs
  <2>3. Code(kind, v, big) = InMemory(v, 4, big)
    BY <1>1 DEF Code
  <2>4. v \in Values
    BY <2>1 DEF Values
  <2> QED BY <2>2, <2>3, <2>4
<1>2. CASE kind # "number"
  <2> DEFINE p == Prefix(Len(v), big)
             n == Len(v)
  <2>1. v \in Seq(Byte) /\ n \in Nat
    BY <1>2, LenProperties DEF ValueOf
  <2>2. p \in Seq(Byte) /\ Len(p) = IF n < MaxByte THEN 1 ELSE IF n < MaxShort THEN 3 ELSE 7
    <3> HIDE DEF n
    <3>1. Prefix(n, big) \in Seq(Byte)
          /\ Len(Prefix(n, big)) = IF n < MaxByte THEN 1 ELSE IF n < MaxShort THEN 3 ELSE 7
      BY <2>1, PrefixIs
    <3> QED BY <3>1 DEF n
  <2>3. Code(kind, v, big) = p \o v
    BY <1>2 DEF Code
  <2> HIDE DEF p
  <2>4. Len(p) \in Nat \ {0}
    BY <2>2
  <2>5. p \o v \in Seq(Byte) /\ Len(p \o v) = Len(p) + n
    BY <2>1, <2>2, ConcatProperties
  <2> QED BY <2>1, <2>3, <2>4, <2>5 DEF Values
<1> QED BY <1>1, <1>2

\* Another value is laid behind the others.
LEMMA LaidMore ==
    ASSUME NEW b \in Seq(Byte), NEW w \in Seq(Values), NEW kinds, NEW big \in BOOLEAN,
           NEW ends, Laid(ends, b, w, kinds, big), NEW v \in ValueOf(kinds[Len(w) + 1])
    PROVE  \E f : /\ Laid(f, b \o Code(kinds[Len(w) + 1], v, big), Append(w, v), kinds, big)
                  /\ \A i \in 0..Len(w) : f[i] = ends[i]
<1> DEFINE n == Len(w)
           c == Code(kinds[n + 1], v, big)
           u == b \o c
           x == Append(w, v)
           CodeOf(i) == Code(kinds[i], w[i], big)
           f == [i \in 0..(n + 1) |-> IF i = n + 1 THEN Len(u) ELSE ends[i]]
<1>1. n \in Nat /\ Len(b) \in Nat
  BY LenProperties
<1>2. c \in Seq(Byte) /\ Len(c) \in Nat \ {0} /\ v \in Values
  <2> DEFINE kind == kinds[n + 1]
  <2>1. v \in ValueOf(kind)
    OBVIOUS
  <2> HIDE DEF kind
  <2>2. Code(kind, v, big) \in Seq(Byte) /\ Len(Code(kind, v, big)) \in Nat \ {0} /\ v \in Values
    BY <2>1, CodeIs
  <2> QED BY <2>2 DEF kind
<1>3. x \in Seq(Values) /\ Len(x) = n + 1 /\ x[n + 1] = v /\ \A i \in 1..n : x[i] = w[i]
  BY <1>2, AppendProperties
<1>4. u \in Seq(Byte) /\ Len(u) = Len(b) + Len(c)
  <2> HIDE DEF c
  <2> QED BY <1>2, ConcatProperties
<1>5. /\ HoldsAt(u, Len(b), c)
      /\ \A pos \in Nat : \A s \in Seq(Byte) : HoldsAt(b, pos, s) => HoldsAt(u, pos, s)
  <2> HIDE DEF c
  <2> QED BY <1>2, HoldsAppended
<1>6. /\ ends \in [0..n -> Nat] /\ ends[0] = 0 /\ ends[n] = Len(b)
      /\ \A i \in 0..(n - 1) : ends[i] < Len(b)
      /\ \A i \in 1..n : /\ w[i] \in ValueOf(kinds[i]) /\ ends[i] = ends[i - 1] + Len(CodeOf(i))
                         /\ HoldsAt(b, ends[i - 1], CodeOf(i))
  BY DEF Laid
<1>7. \A i \in 1..n : CodeOf(i) \in Seq(Byte)
  BY <1>6, CodeIs
<1>8. c = Code(kinds[n + 1], x[n + 1], big)
      /\ \A i \in 1..n : CodeOf(i) = Code(kinds[i], x[i], big)
  BY <1>3
<1>9. v \in ValueOf(kinds[n + 1])
  OBVIOUS
<1> HIDE DEF n, c, u, x, CodeOf
<1>10. /\ f \in [0..(n + 1) -> Nat] /\ f[n + 1] = Len(u) /\ \A i \in 0..n : f[i] = ends[i]
  <2>1. Len(u) \in Nat /\ \A i \in 0..(n + 1) : i # n + 1 => i \in 0..n
    BY <1>1, <1>2, <1>4
  <2>2. \A i \in 0..n : i \in 0..(n + 1) /\ i # n + 1
    BY <1>1
  <2>3. n + 1 \in 0..(n + 1)
    BY <1>1
  <2> QED BY <1>6, <2>1, <2>2, <2>3
<1> HIDE DEF f
<1>11. f[0] = 0
  <2>1. 0 \in 0..n
    BY <1>1
  <2> QED BY <1>6, <1>10, <2>1
<1>12. ASSUME NEW i \in 0..n PROVE f[i] < Len(u)
  <2>1. ends[i] <= Len(b) /\ ends[i] \in Nat
    <3>1. CASE i = n
      BY <1>1, <1>6, <3>1
    <3>2. CASE i # n
      <4>1. i \in 0..(n - 1)
        BY <1>1, <3>2
      <4> QED BY <1>1, <1>6, <4>1
    <3> QED BY <3>1, <3>2
  <2> QED BY <1>1, <1>2, <1>4, <1>10, <2>1
<1>13. ASSUME NEW i \in 1..(n + 1)
       PROVE  /\ x[i] \in ValueOf(kinds[i])
              /\ f[i] = f[i - 1] + Len(Code(kinds[i], x[i], big))
              /\ HoldsAt(u, f[i - 1], Code(kinds[i], x[i], big))
  <2>1. i - 1 \in 0..n /\ f[i - 1] = ends[i - 1]
    <3>1. i - 1 \in 0..n
      BY <1>1
    <3> QED BY <1>10, <3>1
  <2>2. CASE i = n + 1
    <3>1. ends[i - 1] = Len(b)
      <4>1. i - 1 = n
        BY <1>1, <2>2
      <4> QED BY <1>6, <4>1
    <3>2. Code(kinds[i], x[i], big) = c /\ x[i] = v /\ v \in ValueOf(kinds[i])
      BY <1>3, <1>8, <1>9, <2>2
    <3> QED BY <1>4, <1>5, <1>10, <2>1, <2>2, <3>1, <3>2
  <2>3. CASE i # n + 1
    <3>1. i \in 1..n /\ i \in 0..n
      BY <1>1, <2>3
    <3>2. x[i] = w[i] /\ Code(kinds[i], x[i], big) = CodeOf(i) /\ f[i] = ends[i]
      BY <1>3, <1>8, <1>10, <3>1
    <3>3. w[i] \in ValueOf(kinds[i]) /\ ends[i] = ends[i - 1] + Len(CodeOf(i))
          /\ HoldsAt(b, ends[i - 1], CodeOf(i)) /\ ends[i - 1] \in Nat /\ CodeOf(i) \in Seq(Byte)
      BY <1>6, <1>7, <2>1, <3>1
    <3>4. HoldsAt(u, ends[i - 1], CodeOf(i))
      BY <1>5, <3>3
    <3> QED BY <2>1, <3>2, <3>3, <3>4
  <2> QED BY <2>2, <2>3
<1>14. Laid(f, u, x, kinds, big)
  <2>1. (n + 1) - 1 = n
    BY <1>1
  <2> QED BY <1>3, <1>10, <1>11, <1>12, <1>13, <2>1 DEF Laid
<1> QED BY <1>10, <1>14 DEF n, u, x, c

LEMMA BufferInitially ==
    ASSUME BufferInit
    PROVE  BufferInv
<1>1. BufferTyped
  <2>1. schema \in Seq({"string", "cstring", "number"})
    BY BufferAssumption DEF BufferInit
  <2>2. Len(schema) \in Nat
    BY <2>1, LenProperties
  <2> QED BY <2>1, <2>2 DEF BufferInit, BufferTyped
<1>2. CursorsInBounds
  BY BufferAssumption, PlaceIs DEF BufferInit, CursorsInBounds
<1>3. Faithful
  <2> DEFINE ends == [i \in 0..0 |-> 0]
  <2>1. bytes = <<>> /\ wrote = <<>> /\ got = <<>> /\ pread = 0
    BY DEF BufferInit
  <2>2. Len(wrote) = 0 /\ Len(got) = 0 /\ Len(bytes) = 0
    BY <2>1
  <2>3. Laid(ends, bytes, wrote, schema, biged)
    <3>1. ends \in [0..0 -> Nat] /\ ends[0] = 0
      OBVIOUS
    <3> HIDE DEF ends
    <3>2. 0..(0 - 1) = {} /\ 1..0 = {}
      OBVIOUS
    <3> QED BY <2>2, <3>1, <3>2 DEF Laid
  <2>4. pread = ends[Len(got)]
    BY <2>1, <2>2
  <2>5. Len(got) <= Len(wrote) /\ \A i \in 1..Len(got) : got[i] = wrote[i]
    BY <2>2
  <2> HIDE DEF ends
  <2> QED BY <2>3, <2>4, <2>5 DEF Faithful
<1> QED BY <1>1, <1>2, <1>3 DEF BufferInv

\* A value is laid behind the others, or left out, or half of it is there.
LEMMA WriteKeeps ==
    ASSUME BufferInv, Len(wrote) < Len(schema), NEW v \in ValueOf(Kind),
           NEW pieces \in Seq(Seq(Byte)), Len(pieces) \in 1..4,
           \A u : UpTo(u, pieces, Byte) => u[Len(pieces)] = Code(Kind, v, biged),
           Write(v, pieces)
    PROVE  BufferInv'
<1> DEFINE up[k \in 0..Len(pieces)] == IF k = 0 THEN <<>> ELSE up[k - 1] \o pieces[k]
           fits == {k \in 0..Len(pieces) : Len(bytes \o up[k]) <= SendSize}
           fit == Max(fits)
           n == Len(pieces)
<1>1. /\ bytes' = bytes \o up[fit]
      /\ wrote' = IF fit = n THEN Append(wrote, v) ELSE wrote
      /\ intact' = (intact /\ fit \in {0, n})
      /\ UNCHANGED <<setting, arrived, pread, got>>
  BY DEF Write
<1>2. up = UpToFrom(up, pieces)
  <2>1. up = CHOOSE f : f = UpToFrom(f, pieces)
    BY DEF UpToFrom
  <2> HIDE DEF up
  <2> QED BY <2>1, UpToExists
<1> HIDE DEF up
<1>3. UpTo(up, pieces, Byte)
  BY <1>2, UpToIs
<1>4. up \in [0..n -> Seq(Byte)] /\ up[0] = <<>> /\ up[n] = Code(Kind, v, biged)
  BY <1>3 DEF UpTo
<1>5. n \in Nat \ {0}
  OBVIOUS
<1>6. BufferTyped /\ CursorsInBounds /\ bytes \in Seq(Byte) /\ Len(bytes) \in Nat
      /\ SendSize \in Nat /\ Len(bytes) <= SendSize
  BY BufferAssumption, PlaceIs, LenProperties DEF BufferInv, BufferTyped, CursorsInBounds
<1>7. fit \in 0..n /\ Len(bytes \o up[fit]) <= SendSize
  <2>1. 0 \in fits
    <3>1. bytes \o up[0] = bytes
      BY <1>4, <1>6
    <3>2. Len(bytes \o up[0]) <= SendSize
      BY <1>6, <3>1
    <3> QED BY <1>5, <3>2
  <2>2. fits \in SUBSET (0..n)
    OBVIOUS
  <2>3. fit \in fits
    <3> HIDE DEF fits
    <3> QED BY <1>5, <2>1, <2>2, MaxIs
  <2> HIDE DEF fit
  <2> QED BY <2>3
<1> HIDE DEF fits, fit
<1> DEFINE c == up[fit]
<1>8. c \in Seq(Byte) /\ bytes \o c \in Seq(Byte) /\ Len(bytes \o c) = Len(bytes) + Len(c)
      /\ Len(c) \in Nat
  <2>1. c \in Seq(Byte)
    BY <1>4, <1>7
  <2> HIDE DEF c
  <2> QED BY <1>6, <2>1, ConcatProperties, LenProperties
<1>9. bytes' = bytes \o c /\ Len(bytes \o c) <= SendSize
  BY <1>1, <1>7
<1>10. v \in Values /\ wrote \in Seq(Values) /\ biged \in BOOLEAN
  <2>1. biged \in BOOLEAN /\ wrote \in Seq(Values)
    BY <1>6 DEF BufferTyped
  <2>2. v \in Values
    <3> DEFINE kind == Kind
    <3>1. v \in ValueOf(kind)
      OBVIOUS
    <3> HIDE DEF kind
    <3> QED BY <2>1, <3>1, CodeIs
  <2> QED BY <2>1, <2>2
<1>11. /\ Append(wrote, v) \in Seq(Values) /\ Len(Append(wrote, v)) = Len(wrote) + 1
       /\ \A i \in 1..Len(wrote) : Append(wrote, v)[i] = wrote[i]
       /\ Len(wrote) \in Nat
  BY <1>10, AppendProperties, LenProperties
<1> HIDE DEF c
<1>12. BufferTyped'
  <2>1. bytes' \in Seq(Byte)
    BY <1>8, <1>9
  <2>2. wrote' \in Seq(Values) /\ Len(wrote') <= Len(schema)
    <3>1. Len(schema) \in Nat /\ wrote \in Seq(Values) /\ Len(wrote) <= Len(schema)
      BY <1>6, LenProperties DEF BufferTyped
    <3>2. CASE fit = n
      BY <1>1, <1>11, <3>1, <3>2
    <3>3. CASE fit # n
      BY <1>1, <3>1, <3>3
    <3> QED BY <3>2, <3>3
  <2>3. intact' \in BOOLEAN
    BY <1>1, <1>6 DEF BufferTyped
  <2> QED BY <1>1, <1>6, <2>1, <2>2, <2>3 DEF BufferTyped, setting
<1>13. CursorsInBounds'
  <2>1. Len(bytes') >= Len(bytes) /\ Len(bytes') <= SendSize /\ Len(bytes') \in Nat
    BY <1>6, <1>8, <1>9
  <2>2. arrived' = arrived /\ pread' = pread
    BY <1>1
  <2>3. pread <= arrived /\ arrived <= Len(bytes) /\ arrived <= RecvSize /\ arrived \in Nat
    BY <1>6 DEF CursorsInBounds, BufferTyped
  <2> QED BY <1>6, <2>1, <2>2, <2>3 DEF CursorsInBounds
<1>14. ASSUME intact' PROVE Faithful'
  <2>1. intact /\ fit \in {0, n}
    BY <1>1, <1>14
  <2>2. PICK e : Laid(e, bytes, wrote, schema, biged) /\ pread = e[Len(got)]
    BY <2>1 DEF BufferInv, Faithful
  <2>3. Len(got) \in Nat /\ Len(got) <= Len(wrote) /\ \A i \in 1..Len(got) : got[i] = wrote[i]
    <3>1. got \in Seq(Values)
      BY <1>6 DEF BufferTyped
    <3> QED BY <2>1, <3>1, LenProperties DEF BufferInv, Faithful
  <2>4. got' = got /\ pread' = pread /\ schema' = schema /\ biged' = biged
    BY <1>1 DEF setting
  <2>5. CASE fit = 0
    <3>1. bytes' = bytes
      BY <1>1, <1>4, <1>6, <2>5
    <3>2. wrote' = wrote
      BY <1>1, <1>5, <2>5
    <3> QED BY <2>2, <2>3, <2>4, <3>1, <3>2 DEF Faithful
  <2>6. CASE fit = n
    <3>1. bytes' = bytes \o Code(Kind, v, biged) /\ wrote' = Append(wrote, v)
      BY <1>1, <1>4, <2>6
    <3>2. \E f : /\ Laid(f, bytes \o Code(Kind, v, biged), Append(wrote, v), schema, biged)
                 /\ \A i \in 0..Len(wrote) : f[i] = e[i]
      BY <1>6, <1>10, <2>2, LaidMore DEF Kind
    <3>3. PICK f : /\ Laid(f, bytes', wrote', schema, biged)
                   /\ \A i \in 0..Len(wrote) : f[i] = e[i]
      BY <3>1, <3>2
    <3>4. pread = f[Len(got)]
      <4>1. Len(got) \in 0..Len(wrote)
        BY <1>11, <2>3
      <4> QED BY <2>2, <3>3, <4>1
    <3>5. Len(got) <= Len(wrote') /\ \A i \in 1..Len(got) : got[i] = wrote'[i]
      <4>1. \A i \in 1..Len(got) : i \in 1..Len(wrote)
        BY <1>11, <2>3
      <4> QED BY <1>11, <2>3, <3>1, <4>1
    <3>6. Laid(f, bytes', wrote', schema', biged') /\ pread' = f[Len(got')]
      BY <2>4, <3>3, <3>4
    <3>7. Len(got') <= Len(wrote') /\ \A i \in 1..Len(got') : got'[i] = wrote'[i]
      BY <2>4, <3>5
    <3> QED BY <3>6, <3>7 DEF Faithful
  <2> QED BY <2>1, <2>5, <2>6
<1> QED BY <1>12, <1>13, <1>14 DEF BufferInv

LEMMA PutKeeps ==
    ASSUME BufferInv, Put
    PROVE  BufferInv'
<1>1. biged \in BOOLEAN /\ sender \in BOOLEAN
  BY DEF BufferInv, BufferTyped
<1>2. Len(wrote) < Len(schema)
  BY DEF Put
<1>3. CASE Kind = "number"
  <2>1. PICK v \in Numbers : Write(v, <<NumberBytes(v, 4)>>)
    BY <1>3 DEF Put
  <2> DEFINE c == NumberBytes(v, 4)
             pieces == <<c>>
  <2>2. v \in ValueOf(Kind) /\ v \in Nat
    BY <1>3, BufferAssumption, PlaceIs DEF ValueOf
  <2>3. c = Code(Kind, v, biged) /\ c \in Seq(Byte)
    <3>1. 4 \in 1..4
      OBVIOUS
    <3>2. c = InMemory(v, 4, biged) /\ c \in Seq(Byte)
      BY <1>1, <2>2, <3>1, NumberBytesAre
    <3> QED BY <1>3, <3>2 DEF Code
  <2> HIDE DEF c
  <2>4. pieces \in Seq(Seq(Byte)) /\ Len(pieces) = 1 /\ pieces[1] = c
    BY <2>3
  <2>5. ASSUME NEW u, UpTo(u, pieces, Byte) PROVE u[Len(pieces)] = Code(Kind, v, biged)
    <3>1. u[0] = <<>> /\ \A k \in 1..1 : u[k] = u[k - 1] \o pieces[k]
      BY <2>4, <2>5 DEF UpTo
    <3>2. 1 \in 1..1 /\ 1 - 1 = 0
      OBVIOUS
    <3>3. u[1] = <<>> \o c
      BY <2>4, <3>1, <3>2, Zenon
    <3>4. <<>> \o c = c
      BY <2>3
    <3> QED BY <2>3, <2>4, <3>3, <3>4
  <2>6. Write(v, pieces)
    BY <2>1 DEF c
  <2>7. Len(pieces) \in 1..4
    BY <2>4
  <2> HIDE DEF pieces
  <2> QED BY <1>2, <2>2, <2>4, <2>5, <2>6, <2>7, WriteKeeps
<1>4. CASE Kind # "number"
  <2>1. PICK s \in Strings : Write(CString(s), Pieces(CString(s)))
    BY <1>4 DEF Put
  <2> DEFINE v == CString(s)
  <2>2. v \in Seq(Byte)
    BY BufferAssumption, CStringIs
  <2>3. Write(v, Pieces(v))
    BY <2>1
  <2> HIDE DEF v
  <2>4. v \in ValueOf(Kind) /\ Code(Kind, v, biged) = Prefix(Len(v), biged) \o v
    BY <1>4, <2>2 DEF ValueOf, Code
  <2>5. /\ Pieces(v) \in Seq(Seq(Byte)) /\ Len(Pieces(v)) \in 1..4
        /\ \A u : UpTo(u, Pieces(v), Byte) => u[Len(Pieces(v))] = Code(Kind, v, biged)
    BY <1>1, <2>2, <2>4, PiecesMake
  <2> QED BY <1>2, <2>3, <2>4, <2>5, WriteKeeps
<1> QED BY <1>3, <1>4

LEMMA TransferKeeps ==
    ASSUME BufferInv, Transfer
    PROVE  BufferInv'
<1>1. PICK n \in 1..(Min({Len(bytes), RecvSize}) - arrived) : arrived' = arrived + n
  BY DEF Transfer
<1>2. UNCHANGED <<setting, bytes, pread, wrote, got, intact>>
  BY DEF Transfer
<1>3. BufferTyped /\ CursorsInBounds /\ Len(bytes) \in Nat /\ RecvSize \in Nat /\ arrived \in Nat
  BY BufferAssumption, PlaceIs, LenProperties DEF BufferInv, BufferTyped
<1>4. Min({Len(bytes), RecvSize}) \in {Len(bytes), RecvSize}
      /\ Min({Len(bytes), RecvSize}) <= Len(bytes) /\ Min({Len(bytes), RecvSize}) <= RecvSize
  <2> DEFINE T == {Len(bytes), RecvSize}
  <2>1. T \in SUBSET Nat /\ T # {} /\ Len(bytes) \in T /\ RecvSize \in T
    BY <1>3
  <2> HIDE DEF T
  <2>2. PICK x \in T : \A y \in T : x <= y
    BY <2>1, LeastNat
  <2>3. Min(T) \in T /\ \A y \in T : Min(T) <= y
    BY <2>2 DEF Min
  <2>4. Min(T) \in T /\ Min(T) <= Len(bytes) /\ Min(T) <= RecvSize
    BY <2>1, <2>3
  <2> QED BY <2>4 DEF T
<1>5. arrived' \in Nat /\ arrived <= arrived' /\ arrived' <= Len(bytes) /\ arrived' <= RecvSize
  <2> DEFINE m == Min({Len(bytes), RecvSize})
  <2>1. m \in Nat /\ m <= Len(bytes) /\ m <= RecvSize
    BY <1>3, <1>4
  <2>2. n \in 1..(m - arrived)
    OBVIOUS
  <2> HIDE DEF m
  <2> QED BY <1>1, <1>3, <2>1, <2>2
<1>6. BufferTyped'
  BY <1>2, <1>3, <1>5 DEF BufferTyped, setting
<1>7. CursorsInBounds'
  <2>1. pread \in Nat /\ pread <= arrived /\ Len(bytes) <= SendSize
    BY <1>3 DEF CursorsInBounds, BufferTyped
  <2> QED BY <1>2, <1>3, <1>5, <2>1 DEF CursorsInBounds
<1>8. Faithful => Faithful'
  BY <1>2 DEF Faithful, setting
<1> QED BY <1>2, <1>6, <1>7, <1>8 DEF BufferInv

LEMMA ThrowsKeeps ==
    ASSUME BufferInv, NEW at \in pread..arrived, Throws(at)
    PROVE  BufferInv'
<1>1. BufferTyped /\ CursorsInBounds
  BY DEF BufferInv
<1>2. pread' = at /\ intact' = (intact /\ at = pread)
      /\ UNCHANGED <<setting, bytes, arrived, wrote, got>>
  BY DEF Throws
<1>3. at \in Nat /\ at <= arrived
  BY <1>1 DEF BufferTyped
<1>4. BufferTyped'
  BY <1>1, <1>2, <1>3 DEF BufferTyped, setting
<1>5. CursorsInBounds'
  BY <1>1, <1>2, <1>3 DEF CursorsInBounds
<1>6. intact' => Faithful'
  BY <1>2 DEF BufferInv, Faithful, setting
<1> QED BY <1>4, <1>5, <1>6 DEF BufferInv

\* While nothing is broken the next value is where the reader is.
LEMMA NextHeld ==
    ASSUME BufferInv, intact, pread < Len(bytes)
    PROVE  /\ Len(got) < Len(wrote)
           /\ wrote[Len(got) + 1] \in ValueOf(schema[Len(got) + 1])
           /\ HoldsAt(bytes, pread, Code(schema[Len(got) + 1], wrote[Len(got) + 1], biged))
<1>1. PICK e : Laid(e, bytes, wrote, schema, biged) /\ pread = e[Len(got)]
  BY DEF BufferInv, Faithful
<1>2. Len(got) <= Len(wrote)
  BY DEF BufferInv, Faithful
<1>3. Len(got) \in Nat /\ Len(wrote) \in Nat /\ Len(bytes) \in Nat /\ pread \in Nat
  BY LenProperties DEF BufferInv, BufferTyped
<1>4. Len(got) # Len(wrote)
  <2>1. e[Len(wrote)] = Len(bytes)
    BY <1>1 DEF Laid
  <2> QED BY <1>1, <1>3, <2>1
<1> DEFINE i == Len(got) + 1
<1>5. Len(got) < Len(wrote) /\ i \in 1..Len(wrote) /\ i - 1 = Len(got)
  BY <1>2, <1>3, <1>4
<1> HIDE DEF i
<1>6. wrote[i] \in ValueOf(schema[i]) /\ HoldsAt(bytes, e[i - 1], Code(schema[i], wrote[i], biged))
  BY <1>1, <1>5 DEF Laid
<1>7. e[i - 1] = pread
  BY <1>1, <1>5
<1> QED BY <1>5, <1>6, <1>7 DEF i

LEMMA ReturnsKeeps ==
    ASSUME BufferInv, NEW v \in Values, NEW at \in pread..arrived, Returns(v, at),
           intact => /\ Len(got) < Len(wrote) /\ v = wrote[Len(got) + 1]
                     /\ at = pread + Len(Code(schema[Len(got) + 1], v, biged))
    PROVE  BufferInv'
<1>1. BufferTyped /\ CursorsInBounds
  BY DEF BufferInv
<1>2. pread' = at /\ got' = Append(got, v) /\ UNCHANGED <<setting, bytes, arrived, wrote, intact>>
  BY DEF Returns
<1>3. at \in Nat /\ at <= arrived /\ Len(got) \in Nat /\ Len(wrote) \in Nat
  BY <1>1, LenProperties DEF BufferTyped
<1>4. /\ got' \in Seq(Values) /\ Len(got') = Len(got) + 1 /\ got'[Len(got) + 1] = v
      /\ \A j \in 1..Len(got) : got'[j] = got[j]
  <2>1. got \in Seq(Values)
    BY <1>1 DEF BufferTyped
  <2> QED BY <1>2, <2>1, AppendProperties
<1>5. BufferTyped'
  BY <1>1, <1>2, <1>3, <1>4 DEF BufferTyped, setting
<1>6. CursorsInBounds'
  BY <1>1, <1>2, <1>3 DEF CursorsInBounds
<1>7. ASSUME intact PROVE Faithful'
  <2>1. PICK e : Laid(e, bytes, wrote, schema, biged) /\ pread = e[Len(got)]
    BY <1>7 DEF BufferInv, Faithful
  <2> DEFINE i == Len(got) + 1
  <2>2. i \in 1..Len(wrote) /\ i - 1 = Len(got) /\ Len(got') = i
    BY <1>3, <1>4, <1>7
  <2>3. v = wrote[i] /\ at = pread + Len(Code(schema[i], v, biged))
    BY <1>7
  <2>4. got'[i] = v
    BY <1>4
  <2>5. ASSUME NEW j \in 1..i PROVE got'[j] = wrote[j]
    <3>1. CASE j = i
      BY <2>3, <2>4, <3>1
    <3>2. CASE j # i
      <4>1. j \in 1..Len(got)
        BY <1>3, <3>2
      <4>2. got[j] = wrote[j]
        BY <1>7, <4>1 DEF BufferInv, Faithful
      <4> QED BY <1>4, <4>1, <4>2
    <3> QED BY <3>1, <3>2
  <2> HIDE DEF i
  <2>6. e[i] = e[i - 1] + Len(Code(schema[i], wrote[i], biged))
    BY <2>1, <2>2 DEF Laid
  <2>7. at = e[i]
    BY <2>1, <2>2, <2>3, <2>6
  <2>8. wrote' = wrote /\ bytes' = bytes /\ schema' = schema /\ biged' = biged
    BY <1>2 DEF setting
  <2>9. Laid(e, bytes', wrote', schema', biged') /\ pread' = e[Len(got')]
    BY <1>2, <2>1, <2>2, <2>7, <2>8
  <2>10. Len(got') <= Len(wrote') /\ \A j \in 1..Len(got') : got'[j] = wrote'[j]
    BY <1>3, <2>2, <2>5, <2>8
  <2> QED BY <2>9, <2>10 DEF Faithful
<1> QED BY <1>2, <1>5, <1>6, <1>7 DEF BufferInv

LEMMA GetNumberKeeps ==
    ASSUME BufferInv, GetNumber
    PROVE  BufferInv'
<1>1. /\ bytes \in Seq(Byte) /\ Len(bytes) \in Nat /\ arrived \in Nat /\ pread \in Nat
      /\ pread <= arrived /\ arrived <= Len(bytes) /\ biged \in BOOLEAN /\ receiver \in BOOLEAN
  BY LenProperties DEF BufferInv, BufferTyped, CursorsInBounds
<1>2. schema[Len(got) + 1] = "number"
  BY DEF GetNumber, Expects
<1>3. CASE ~Has(pread, 4)
  <2>1. Throws(pread) /\ pread \in pread..arrived
    BY <1>1, <1>3 DEF GetNumber
  <2> QED BY <2>1, ThrowsKeeps
<1>4. CASE Has(pread, 4)
  <2> DEFINE v == NumberAt(pread, 4)
  <2>1. Returns(v, pread + 4)
    BY <1>4 DEF GetNumber
  <2>2. pread + 4 \in pread..arrived /\ pread + 4 <= Len(bytes) /\ pread < Len(bytes)
    BY <1>1, <1>4 DEF Has
  <2>3. v \in Values
    <3>1. v \in Nat
      BY <1>1, <2>2, NumberAtIs
    <3> HIDE DEF v
    <3> QED BY <3>1 DEF Values
  <2>4. ASSUME intact
        PROVE  /\ Len(got) < Len(wrote) /\ v = wrote[Len(got) + 1]
               /\ pread + 4 = pread + Len(Code(schema[Len(got) + 1], v, biged))
    <3> DEFINE x == wrote[Len(got) + 1]
    <3>1. /\ Len(got) < Len(wrote) /\ x \in ValueOf("number")
          /\ HoldsAt(bytes, pread, Code("number", x, biged))
      BY <1>2, <2>2, <2>4, NextHeld
    <3> HIDE DEF x
    <3>2. x \in Nat /\ x <= MaxInt
      BY <3>1, PlaceIs DEF ValueOf
    <3>3. Code("number", x, biged) = InMemory(x, 4, biged)
      BY DEF Code
    <3>4. v = x
      <4>1. x < Base * Place[4] /\ 4 \in {1, 2, 4}
        BY <3>2, WidestPlace
      <4>2. HoldsAt(bytes, pread, InMemory(x, 4, biged))
        BY <3>1, <3>3
      <4> QED BY <1>1, <3>2, <4>1, <4>2, NumberHeld
    <3>5. Len(InMemory(x, 4, biged)) = 4
      <4>1. 4 \in 1..4
        OBVIOUS
      <4> QED BY <1>1, <3>2, <4>1, InMemoryIs
    <3> HIDE DEF v
    <3> QED BY <1>2, <3>1, <3>3, <3>4, <3>5 DEF x
  <2> HIDE DEF v
  <2> QED BY <2>1, <2>2, <2>3, <2>4, ReturnsKeeps
<1> QED BY <1>3, <1>4

LEMMA ReadBodyKeeps ==
    ASSUME BufferInv, schema[Len(got) + 1] # "number", ReadBody(LengthAt(pread))
    PROVE  BufferInv'
<1> DEFINE h == LengthAt(pread)
<1>1. /\ bytes \in Seq(Byte) /\ Len(bytes) \in Nat /\ arrived \in Nat /\ pread \in Nat
      /\ pread <= arrived /\ arrived <= Len(bytes) /\ biged \in BOOLEAN /\ receiver \in BOOLEAN
      /\ Len(bytes) <= MaxInt
  <2>1. SendSize <= MaxInt /\ SendSize \in Nat /\ MaxInt \in Nat
    BY BufferAssumption, PlaceIs
  <2>2. bytes \in Seq(Byte) /\ Len(bytes) \in Nat
    BY LenProperties DEF BufferInv, BufferTyped
  <2> QED BY <2>1, <2>2 DEF BufferInv, BufferTyped, CursorsInBounds
<1>2. h.n \in Nat /\ h.at \in pread..arrived /\ (~Has(pread, 1) => h.ok = FALSE)
  BY <1>1, LengthAtBounds
<1>3. CASE ~(h.ok /\ Has(h.at, h.n))
  <2>1. Throws(h.at)
    BY <1>3 DEF ReadBody
  <2> HIDE DEF h
  <2> QED BY <1>2, <2>1, ThrowsKeeps
<1>4. CASE h.ok /\ Has(h.at, h.n)
  <2> DEFINE v == SubSeq(bytes, h.at + 1, h.at + h.n)
             k == Len(got) + 1
  <2>1. Returns(v, h.at + h.n)
    BY <1>4 DEF ReadBody
  <2>2. ASSUME intact
        PROVE  /\ Len(got) < Len(wrote) /\ v = wrote[k]
               /\ h.at + h.n = pread + Len(Code(schema[k], v, biged))
    <3> DEFINE x == wrote[k]
               p == Prefix(Len(x), biged)
    <3>1. pread < Len(bytes)
      <4>1. Has(pread, 1)
        BY <1>2, <1>4
      <4> QED BY <1>1, <4>1 DEF Has
    <3>2. /\ Len(got) < Len(wrote) /\ x \in ValueOf(schema[k])
          /\ HoldsAt(bytes, pread, Code(schema[k], x, biged))
      BY <2>2, <3>1, NextHeld
    <3>3. x \in Seq(Byte) /\ Len(x) \in Nat /\ Code(schema[k], x, biged) = p \o x
      BY <3>2, LenProperties DEF ValueOf, Code
    <3>4. p \in Seq(Byte) /\ Len(p) \in Nat
      <4> DEFINE n == Len(x)
      <4>1. n \in Nat
        BY <3>3
      <4> HIDE DEF n
      <4>2. Prefix(n, biged) \in Seq(Byte)
        BY <1>1, <4>1, PrefixIs
      <4> QED BY <4>2, LenProperties DEF n
    <3> HIDE DEF h, v, k
    <3>5. HoldsAt(bytes, pread, p) /\ HoldsAt(bytes, pread + Len(p), x)
      <4>1. HoldsAt(bytes, pread, p \o x)
        BY <3>2, <3>3
      <4> HIDE DEF p, x
      <4> QED BY <1>1, <3>3, <3>4, <4>1, HoldsAtParts
    <3>6. Len(x) <= MaxInt
      <4>1. (pread + Len(p)) + Len(x) <= Len(bytes)
        BY <3>5 DEF HoldsAt
      <4>2. MaxInt \in Nat
        BY PlaceIs
      <4> HIDE DEF p, x
      <4> QED BY <1>1, <3>3, <3>4, <4>1, <4>2
    <3>7. h.n = Len(x) /\ h.at = pread + Len(p)
      <4> DEFINE n == Len(x)
      <4>1. n \in Nat /\ n <= MaxInt /\ HoldsAt(bytes, pread, Prefix(n, biged)) /\ p = Prefix(n, biged)
        BY <3>3, <3>5, <3>6
      <4> HIDE DEF n, p
      <4>2. LengthAt(pread).n = n /\ LengthAt(pread).at = pread + Len(Prefix(n, biged))
        BY <1>1, <1>4, <4>1, LengthAtHeld DEF h
      <4> QED BY <4>1, <4>2 DEF h, n
    <3>8. v = x
      <4> HIDE DEF p, x
      <4>1. pread + Len(p) \in Nat
        BY <1>1, <3>4
      <4>2. SubSeq(bytes, (pread + Len(p)) + 1, (pread + Len(p)) + Len(x)) = x
        BY <1>1, <3>3, <3>5, <4>1, HeldIsSubSeq
      <4> QED BY <3>7, <4>2 DEF v
    <3>9. Len(p \o x) = Len(p) + Len(x)
      <4> HIDE DEF p, x
      <4> QED BY <3>3, <3>4, ConcatProperties
    <3>10. h.at + h.n = pread + Len(Code(schema[k], x, biged))
      <4> HIDE DEF p, x
      <4> QED BY <1>1, <3>3, <3>4, <3>7, <3>9
    <3> QED BY <3>2, <3>8, <3>10
  <2> HIDE DEF h
  <2>3. h.at + h.n \in pread..arrived /\ h.at \in Nat /\ h.at + h.n <= Len(bytes)
    BY <1>1, <1>2, <1>4 DEF Has
  <2>4. v \in Values
    <3>1. v \in Seq(Byte)
      BY <1>1, <1>2, <2>3, SubSeqIs
    <3> HIDE DEF v
    <3> QED BY <3>1 DEF Values
  <2> HIDE DEF v
  <2> QED BY <2>1, <2>2, <2>3, <2>4, ReturnsKeeps DEF k
<1> QED BY <1>3, <1>4

LEMMA GetStringKeeps ==
    ASSUME BufferInv, GetString \/ GetCString
    PROVE  BufferInv'
<1>1. schema[Len(got) + 1] # "number"
  BY DEF GetString, GetCString, Expects
<1>2. Throws(pread) \/ ReadBody(LengthAt(pread))
  BY DEF GetString, GetCString
<1>3. pread \in pread..arrived
  BY DEF BufferInv, BufferTyped, CursorsInBounds
<1> QED BY <1>1, <1>2, <1>3, ThrowsKeeps, ReadBodyKeeps

LEMMA BufferSteps ==
    ASSUME BufferInv, [BufferNext]_buffervars
    PROVE  BufferInv'
<1>1. CASE Put
  BY <1>1, PutKeeps
<1>2. CASE Transfer
  BY <1>2, TransferKeeps
<1>3. CASE GetNumber
  BY <1>3, GetNumberKeeps
<1>4. CASE GetString \/ GetCString
  BY <1>4, GetStringKeeps
<1>5. CASE UNCHANGED buffervars
  BY <1>5 DEF buffervars, setting, BufferInv, BufferTyped, CursorsInBounds, Faithful
<1> QED BY <1>1, <1>2, <1>3, <1>4, <1>5 DEF BufferNext

LEMMA BufferRoundTrip ==
    ASSUME BufferInv
    PROVE  RoundTrip
<1>1. CursorsInBounds
  BY DEF BufferInv
<1>2. ASSUME intact
      PROVE  /\ IsPrefix(got, wrote)
             /\ Len(got) = Len(wrote) <=> pread = Len(bytes)
  <2>1. PICK e : Laid(e, bytes, wrote, schema, biged) /\ pread = e[Len(got)]
    BY <1>2 DEF BufferInv, Faithful
  <2>2. Len(got) <= Len(wrote) /\ \A i \in 1..Len(got) : got[i] = wrote[i]
    BY <1>2 DEF BufferInv, Faithful
  <2>3. got \in Seq(Values) /\ wrote \in Seq(Values) /\ Len(got) \in Nat /\ Len(wrote) \in Nat
    BY LenProperties DEF BufferInv, BufferTyped
  <2>4. IsPrefix(got, wrote)
    <3> DEFINE n == Len(got)
               s == SubSeq(got, 1, n)
               t == SubSeq(wrote, 1, n)
    <3>1. 0 \in Nat /\ 0 + n <= Len(got) /\ 0 + n <= Len(wrote) /\ 0 + n = n /\ 0 + 1 = 1
      BY <2>2, <2>3
    <3>2. s \in Seq(Values) /\ Len(s) = n /\ \A i \in 1..n : s[i] = got[i]
      <4> HIDE DEF n
      <4>1. SubSeq(got, 0 + 1, 0 + n) \in Seq(Values) /\ Len(SubSeq(got, 0 + 1, 0 + n)) = n
            /\ \A i \in 1..n : SubSeq(got, 0 + 1, 0 + n)[i] = got[0 + i]
        BY <2>3, <3>1, SubSeqIs DEF n
      <4> QED BY <3>1, <4>1
    <3>3. t \in Seq(Values) /\ Len(t) = n /\ \A i \in 1..n : t[i] = wrote[i]
      <4>0. n \in Nat
        BY <2>3
      <4> HIDE DEF n
      <4>1. SubSeq(wrote, 0 + 1, 0 + n) \in Seq(Values) /\ Len(SubSeq(wrote, 0 + 1, 0 + n)) = n
            /\ \A i \in 1..n : SubSeq(wrote, 0 + 1, 0 + n)[i] = wrote[0 + i]
        BY <2>3, <3>1, <4>0, SubSeqIs
      <4> QED BY <3>1, <4>1
    <3> HIDE DEF s, t
    <3>4. s = t
      <4>1. \A i \in 1..Len(s) : s[i] = t[i]
        BY <2>2, <3>2, <3>3
      <4>2. Len(s) = Len(t)
        BY <3>2, <3>3
      <4> HIDE DEF n
      <4> QED BY <3>2, <3>3, <4>1, <4>2, EqualSeqs
    <3> QED BY <2>2, <3>4 DEF IsPrefix, s, t
  <2>5. CASE Len(got) = Len(wrote)
    BY <2>1, <2>4, <2>5 DEF Laid
  <2>6. CASE Len(got) # Len(wrote)
    <3>1. Len(got) \in 0..(Len(wrote) - 1)
      BY <2>2, <2>3, <2>6
    <3>2. pread < Len(bytes)
      BY <2>1, <3>1 DEF Laid
    <3>3. pread \in Nat /\ Len(bytes) \in Nat
      BY LenProperties DEF BufferInv, BufferTyped
    <3> QED BY <2>4, <2>6, <3>2, <3>3
  <2> QED BY <2>5, <2>6
<1> QED BY <1>1, <1>2 DEF RoundTrip

\* What is read from an iobuffer is what was written, whatever the byte orders, the
\* pieces the bytes arrive in and what exceptions leave behind (operator<<,
\* operator>> and readcstring of CIOBuffer).
THEOREM ReadIsWritten == BufferSpec => []RoundTrip
<1>1. BufferInit => BufferInv
  BY BufferInitially
<1>2. BufferInv /\ [BufferNext]_buffervars => BufferInv'
  BY BufferSteps
<1>3. BufferInv => RoundTrip
  BY BufferRoundTrip
<1> QED BY <1>1, <1>2, <1>3, PTL DEF BufferSpec

-----------------------------------------------------------------------------
(* The calendar *)

\* A quotient and a remainder by a number that is written out.
LEMMA Divided ==
    ASSUME NEW n \in Nat, NEW a \in Nat \ {0}, NEW q \in Nat, NEW r \in 0..(a - 1), n = (q * a) + r
    PROVE  n \div a = q /\ n % a = r
BY DivModUnique

\* The days before a year grow by its days.
LEMMA YearsAre ==
    ASSUME NEW y \in 70..199
    PROVE  /\ DaysBefore(y) \in Nat /\ DaysBefore(y + 1) \in Nat
           /\ DaysBefore(y + 1) = DaysBefore(y) + 365 + (IF Leap(y) THEN 1 ELSE 0)
<1> DEFINE q == (y - 69) \div 4
           r == (y - 69) % 4
<1>1. q \in Nat /\ r \in 0..3 /\ y - 69 = (q * 4) + r
  BY DivMod
<1> HIDE DEF q, r
<1>2. DaysBefore(y) = (365 * (y - 70)) + q
  BY DEF DaysBefore, q
<1>3. CASE r = 3
  <2>1. (y + 1) - 69 = ((q + 1) * 4) + 0 /\ y = ((q + 18) * 4) + 0
    BY <1>1, <1>3
  <2>2. ((y + 1) - 69) \div 4 = q + 1
    <3>1. q + 1 \in Nat /\ (y + 1) - 69 \in Nat
      BY <1>1
    <3> QED BY <2>1, <3>1, Divided
  <2>3. y % 4 = 0
    <3>1. q + 18 \in Nat /\ y \in Nat
      BY <1>1
    <3> QED BY <2>1, <3>1, Divided
  <2>4. Leap(y) /\ DaysBefore(y + 1) = (365 * (y - 69)) + (q + 1)
    <3>1. (y + 1) - 70 = y - 69
      OBVIOUS
    <3> QED BY <2>2, <2>3, <3>1 DEF Leap, DaysBefore
  <2> QED BY <1>1, <1>2, <2>4
<1>4. CASE r # 3
  <2>1. (y + 1) - 69 = (q * 4) + (r + 1) /\ y = ((q + 17) * 4) + (r + 1)
    BY <1>1
  <2>2. ((y + 1) - 69) \div 4 = q
    <3>1. r + 1 \in 0..(4 - 1) /\ (y + 1) - 69 \in Nat
      BY <1>1, <1>4
    <3> QED BY <1>1, <2>1, <3>1, Divided
  <2>3. y % 4 = r + 1
    <3> DEFINE k == q + 17
               t == r + 1
    <3>1. t \in 0..(4 - 1) /\ k \in Nat /\ y \in Nat /\ y = (k * 4) + t
      BY <1>1, <1>4, <2>1
    <3> HIDE DEF k, t
    <3>2. y % 4 = t
      BY <3>1, Divided
    <3> QED BY <3>2 DEF t
  <2>4. ~Leap(y) /\ DaysBefore(y + 1) = (365 * (y - 69)) + q
    <3>1. (y + 1) - 70 = y - 69 /\ r + 1 # 0
      BY <1>1
    <3> QED BY <2>2, <2>3, <3>1 DEF Leap, DaysBefore
  <2> QED BY <1>1, <1>2, <2>4
<1> QED BY <1>3, <1>4

\* Later years begin later.
LEMMA YearsGrow ==
    ASSUME NEW y \in 70..199, NEW z \in 70..200, y < z
    PROVE  DaysBefore(y + 1) <= DaysBefore(z)
<1> DEFINE q == (y - 68) \div 4
           r == (y - 68) % 4
           p == (z - 69) \div 4
           s == (z - 69) % 4
<1>1. q \in Nat /\ r \in 0..3 /\ y - 68 = (q * 4) + r
  BY DivMod
<1>2. p \in Nat /\ s \in 0..3 /\ z - 69 = (p * 4) + s
  BY DivMod
<1>3. (y + 1) - 69 = y - 68 /\ (y + 1) - 70 = y - 69
  OBVIOUS
<1>4. DaysBefore(y + 1) = (365 * (y - 69)) + q /\ DaysBefore(z) = (365 * (z - 70)) + p
  BY <1>3 DEF DaysBefore
<1> HIDE DEF q, r, p, s
<1>5. q <= p
  BY <1>1, <1>2
<1> QED BY <1>1, <1>2, <1>4, <1>5

LEMMA FirstYear == DaysBefore(70) = 0
<1>1. 1 = (0 * 4) + 1 /\ 1 \in 0..(4 - 1) /\ 70 - 69 = 1 /\ 70 - 70 = 0
  OBVIOUS
<1>2. 1 \div 4 = 0
  BY <1>1, Divided
<1> QED BY <1>1, <1>2 DEF DaysBefore

LEMMA MonthsAre ==
    ASSUME NEW y
    PROVE  /\ MonthBegins(y)[0] = 0
           /\ MonthBegins(y)[12] = 365 + (IF Leap(y) THEN 1 ELSE 0)
           /\ \A m \in 0..12 : MonthBegins(y)[m] \in 0..366
           /\ \A m \in 0..11 : MonthBegins(y)[m] < MonthBegins(y)[m + 1]
                               /\ MonthBegins(y)[m + 1] <= MonthBegins(y)[m] + 31
           /\ \A m \in 0..11, n \in 0..12 : m < n => MonthBegins(y)[m + 1] <= MonthBegins(y)[n]
<1> DEFINE leap == IF Leap(y) THEN 1 ELSE 0
           B == MonthBegins(y)
<1>1. leap \in 0..1
  OBVIOUS
<1>2. \A m \in 0..12 : B[m] = <<0, 31, 59, 90, 120, 151, 181, 212, 243, 273, 304, 334, 365>>[m + 1]
                               + (IF m < 2 THEN 0 ELSE leap)
  BY DEF MonthBegins
<1> HIDE DEF leap, B
<1>3. /\ B[0] = 0 /\ B[1] = 31 /\ B[2] = 59 + leap /\ B[3] = 90 + leap /\ B[4] = 120 + leap
      /\ B[5] = 151 + leap /\ B[6] = 181 + leap /\ B[7] = 212 + leap /\ B[8] = 243 + leap
      /\ B[9] = 273 + leap /\ B[10] = 304 + leap /\ B[11] = 334 + leap /\ B[12] = 365 + leap
  BY <1>1, <1>2
<1>4. \A m \in 0..12 : m = 0 \/ m = 1 \/ m = 2 \/ m = 3 \/ m = 4 \/ m = 5 \/ m = 6 \/ m = 7
                       \/ m = 8 \/ m = 9 \/ m = 10 \/ m = 11 \/ m = 12
  OBVIOUS
<1>5. \A m \in 0..12 : B[m] \in 0..366
  BY <1>1, <1>3, <1>4
<1>6. \A m \in 0..11 : B[m] < B[m + 1] /\ B[m + 1] <= B[m] + 31
  <2> SUFFICES ASSUME NEW m \in 0..11 PROVE B[m] < B[m + 1] /\ B[m + 1] <= B[m] + 31
    OBVIOUS
  <2>1. m = 0 \/ m = 1 \/ m = 2 \/ m = 3 \/ m = 4 \/ m = 5 \/ m = 6 \/ m = 7
        \/ m = 8 \/ m = 9 \/ m = 10 \/ m = 11
    OBVIOUS
  <2> QED BY <1>1, <1>3, <2>1
\* m and n are the numbers of months: the day a month ends is at most that another begins.
<1>7. \A m \in 0..11, n \in 0..12 : m < n => B[m + 1] <= B[n]
  <2> SUFFICES ASSUME NEW m \in 0..11, NEW n \in 0..12, m < n PROVE B[m + 1] <= B[n]
    OBVIOUS
  <2>1. m = 0 \/ m = 1 \/ m = 2 \/ m = 3 \/ m = 4 \/ m = 5 \/ m = 6 \/ m = 7
        \/ m = 8 \/ m = 9 \/ m = 10 \/ m = 11
    OBVIOUS
  <2>2. n = 0 \/ n = 1 \/ n = 2 \/ n = 3 \/ n = 4 \/ n = 5 \/ n = 6 \/ n = 7
        \/ n = 8 \/ n = 9 \/ n = 10 \/ n = 11 \/ n = 12
    OBVIOUS
  <2> QED BY <1>1, <1>3, <2>1, <2>2
<1> QED BY <1>3, <1>5, <1>6, <1>7 DEF B, leap

\* The records that localtime_r writes.
Moments == [year : 70..199, mon : 0..11, mday : 1..31, hour : 0..23, min : 0..59, sec : 0..59,
            wday : 0..6, yday : 0..365]

\* tm is the moment that is s seconds into day d, which counts from the first of 1970.
Dated(tm, d, s) ==
    /\ tm \in Moments /\ d \in Nat /\ s \in 0..(Day - 1)
    /\ d = DaysBefore(tm.year) + tm.yday /\ d < DaysBefore(tm.year + 1)
    /\ MonthBegins(tm.year)[tm.mon] <= tm.yday /\ tm.yday < MonthBegins(tm.year)[tm.mon + 1]
    /\ tm.yday = MonthBegins(tm.year)[tm.mon] + tm.mday - 1
    /\ s = (tm.hour * 3600) + (tm.min * 60) + tm.sec
    /\ \E week \in Nat : d + 4 = (week * 7) + tm.wday

\* The provers take an interval up to a large number element by element; as a
\* bound on both sides the number stays out of their way.
LEMMA DayIs == Day \in Nat \ {0} /\ Day <= 86400 /\ 86400 <= Day
BY DEF Day

\* The hours, minutes and seconds of a day.
LEMMA ClockIs ==
    ASSUME NEW t \in Nat
    PROVE  /\ t \div Day \in Nat /\ t % Day \in 0..(Day - 1) /\ t = ((t \div Day) * Day) + (t % Day)
           /\ (t % Day) \div 3600 \in 0..23 /\ (t % 3600) \div 60 \in 0..59 /\ t % 60 \in 0..59
           /\ t % Day = (((t % Day) \div 3600) * 3600) + (((t % 3600) \div 60) * 60) + (t % 60)
<1> DEFINE d == t \div Day
           s == t % Day
           h == s \div 3600
           u == s % 3600
           m == u \div 60
           v == u % 60
<1>1. d \in Nat /\ s \in 0..(Day - 1) /\ t = (d * Day) + s
  BY DivMod, DayIs
<1> HIDE DEF d, s
<1>2. h \in Nat /\ u \in 0..3599 /\ s = (h * 3600) + u
  <2>1. s \in Nat
    BY <1>1, DayIs
  <2> QED BY <2>1, DivMod
<1> HIDE DEF h, u
<1>3. m \in Nat /\ v \in 0..59 /\ u = (m * 60) + v
  BY <1>2, DivMod
<1> HIDE DEF m, v
<1>4. t % 3600 = u
  <2> DEFINE k == (d * 24) + h
  <2>1. k \in Nat /\ u \in 0..(3600 - 1) /\ t = (k * 3600) + u
    BY <1>1, <1>2, DayIs
  <2> HIDE DEF k
  <2> QED BY <2>1, Divided
<1>5. t % 60 = v
  <2> DEFINE k == (d * 1440) + (h * 60) + m
  <2>1. k \in Nat /\ v \in 0..(60 - 1) /\ t = (k * 60) + v
    BY <1>1, <1>2, <1>3, DayIs
  <2> HIDE DEF k
  <2> QED BY <2>1, Divided
<1>6. h \in 0..23 /\ m \in 0..59
  <2>1. s <= 86399
    BY <1>1, DayIs
  <2>2. h * 3600 <= s /\ m * 60 <= u
    BY <1>1, <1>2, <1>3, DayIs
  <2>3. h < 24
    BY <1>2, <2>1, <2>2
  <2>4. m < 60
    <3>1. u \in Nat /\ u < 3600 /\ m \in Nat /\ m * 60 <= u
      BY <1>2, <1>3, <2>2
    <3> QED BY ONLY <3>1
  <2> QED BY <1>2, <1>3, <2>3, <2>4
<1>7. s = (h * 3600) + (m * 60) + v
  BY <1>2, <1>3
<1>8. (t % 3600) \div 60 = m /\ (t % Day) \div 3600 = h /\ t \div Day = d /\ t % Day = s
  BY <1>4 DEF m, h, d, s
<1> QED BY <1>1, <1>3, <1>5, <1>6, <1>7, <1>8

LEMMA WeekIs ==
    ASSUME NEW d \in Nat
    PROVE  (d + 4) % 7 \in 0..6 /\ \E week \in Nat : d + 4 = (week * 7) + ((d + 4) % 7)
<1> DEFINE e == d + 4
<1>1. e \in Nat
  OBVIOUS
<1> HIDE DEF e
<1>2. e \div 7 \in Nat /\ e % 7 \in 0..(7 - 1) /\ e = ((e \div 7) * 7) + (e % 7)
  BY <1>1, DivMod
<1> QED BY <1>2 DEF e

\* What localtime_r writes is the moment it is given, in the zone.
LEMMA TimeIsDated ==
    ASSUME NEW time, time + zone \in Nat, (time + zone) \div Day < DaysBefore(200)
    PROVE  Dated(Time2TM(time), (time + zone) \div Day, (time + zone) % Day)
<1> DEFINE t == time + zone
           d == t \div Day
           Y == {y \in 70..199 : DaysBefore(y) <= d}
           year == Max(Y)
           yday == d - DaysBefore(year)
           M == {m \in 0..11 : MonthBegins(year)[m] <= yday}
           mon == Max(M)
           tm == Time2TM(time)
<1>1. tm = [year |-> year, mon |-> mon, mday |-> yday - MonthBegins(year)[mon] + 1,
            hour |-> (t % Day) \div 3600, min |-> (t % 3600) \div 60,
            sec |-> t % 60, wday |-> (d + 4) % 7, yday |-> yday]
  BY DEF Time2TM
<1>2. /\ d \in Nat /\ d < DaysBefore(200) /\ t % Day \in 0..(Day - 1)
      /\ (t % Day) \div 3600 \in 0..23 /\ (t % 3600) \div 60 \in 0..59 /\ t % 60 \in 0..59
      /\ t % Day = (((t % Day) \div 3600) * 3600) + (((t % 3600) \div 60) * 60) + (t % 60)
  <2>1. t \in Nat /\ d < DaysBefore(200)
    OBVIOUS
  <2> HIDE DEF t
  <2> QED BY <2>1, ClockIs
<1> HIDE DEF t, d, tm
<1>3. /\ year \in 70..199 /\ DaysBefore(year) <= d /\ d < DaysBefore(year + 1)
      /\ DaysBefore(year) \in Nat
  <2>1. 199 \in Nat /\ Y \in SUBSET (0..199) /\ 70 \in Y
    <3>1. 0 <= d
      BY <1>2
    <3> QED BY <3>1, FirstYear
  <2>2. year \in Y /\ \A y \in Y : year >= y
    <3> HIDE DEF Y
    <3> QED BY <2>1, MaxIs
  <2>3. CASE year = 199
    BY <1>2, <2>2, <2>3, YearsAre
  <2>4. CASE year # 199
    <3>1. year \in 70..199 /\ DaysBefore(year) <= d
      BY <2>2
    <3>2. year + 1 \in 70..199 /\ ~(year >= year + 1)
      <4> HIDE DEF year
      <4> QED BY <2>4, <3>1
    <3>3. ~(year + 1 \in Y)
      <4> HIDE DEF Y, year
      <4> QED BY <2>2, <3>2
    <3>4. ~(DaysBefore(year + 1) <= d)
      <4> HIDE DEF year
      <4> QED BY <3>2, <3>3
    <3> HIDE DEF year, Y
    <3>5. DaysBefore(year) \in Nat /\ DaysBefore(year + 1) \in Nat
      BY <3>1, YearsAre
    <3> QED BY <1>2, <3>1, <3>4, <3>5
  <2> QED BY <2>3, <2>4
<1> HIDE DEF year, Y
<1>4. yday \in 0..365 /\ d = DaysBefore(year) + yday /\ yday < MonthBegins(year)[12]
  <2>1. DaysBefore(year + 1) = DaysBefore(year) + MonthBegins(year)[12] /\ MonthBegins(year)[12] \in 365..366
    <3>1. /\ DaysBefore(year + 1) = DaysBefore(year) + 365 + (IF Leap(year) THEN 1 ELSE 0)
          /\ MonthBegins(year)[12] = 365 + (IF Leap(year) THEN 1 ELSE 0)
      <4>1. MonthBegins(year)[12] = 365 + (IF Leap(year) THEN 1 ELSE 0)
        BY ONLY MonthsAre
      <4>2. year \in 70..199
        BY <1>3
      <4>3. DaysBefore(year + 1) = DaysBefore(year) + 365 + (IF Leap(year) THEN 1 ELSE 0)
        BY ONLY <4>2, YearsAre
      <4> QED BY <4>1, <4>3
    <3>2. (IF Leap(year) THEN 1 ELSE 0) \in 0..1
      OBVIOUS
    <3> DEFINE leap == IF Leap(year) THEN 1 ELSE 0
    <3> HIDE DEF leap
    <3>3. leap \in 0..1 /\ DaysBefore(year + 1) = DaysBefore(year) + 365 + leap
          /\ MonthBegins(year)[12] = 365 + leap
      BY <3>1, <3>2 DEF leap
    <3> QED BY <1>3, <3>3
  <2> DEFINE a == DaysBefore(year)
             b == MonthBegins(year)[12]
  <2>2. a \in Nat /\ b \in 365..366 /\ d \in Nat /\ a <= d /\ d < a + b /\ yday = d - a
    BY <1>2, <1>3, <2>1
  <2> HIDE DEF a, b, yday
  <2>3. yday \in 0..365 /\ d = a + yday /\ yday < b
    BY <2>2
  <2> QED BY <2>3 DEF a, b
<1> HIDE DEF yday
<1>5. /\ mon \in 0..11 /\ MonthBegins(year)[mon] <= yday /\ yday < MonthBegins(year)[mon + 1]
      /\ MonthBegins(year)[mon] \in Nat /\ MonthBegins(year)[mon + 1] <= MonthBegins(year)[mon] + 31
      /\ MonthBegins(year)[mon + 1] \in Nat
  <2>1. 11 \in Nat /\ M \in SUBSET (0..11) /\ 0 \in M
    BY <1>4, MonthsAre
  <2>2. mon \in M /\ \A m \in M : mon >= m
    <3> HIDE DEF M
    <3> QED BY <2>1, MaxIs
  <2>3. mon \in 0..11 /\ MonthBegins(year)[mon] <= yday
    BY <2>2
  <2>4. mon = 11 \/ ~(mon + 1 \in M)
    <3> HIDE DEF M, mon
    <3> QED BY <2>2, <2>3
  <2> HIDE DEF mon
  <2>5. /\ MonthBegins(year)[mon] \in Nat /\ MonthBegins(year)[mon + 1] <= MonthBegins(year)[mon] + 31
        /\ MonthBegins(year)[mon + 1] \in Nat
    <3>1. mon \in 0..12 /\ mon + 1 \in 0..12
      BY <2>3
    <3>2. /\ \A m \in 0..12 : MonthBegins(year)[m] \in 0..366
          /\ \A m \in 0..11 : MonthBegins(year)[m + 1] <= MonthBegins(year)[m] + 31
      BY MonthsAre
    <3> DEFINE B == MonthBegins(year)
    <3> HIDE DEF B
    <3>3. B[mon] \in 0..366 /\ B[mon + 1] \in 0..366 /\ B[mon + 1] <= B[mon] + 31
      BY <2>3, <3>1, <3>2 DEF B
    <3> QED BY <3>3 DEF B
  <2>6. CASE mon = 11
    <3>1. mon + 1 = 12
      BY <2>6
    <3> QED BY <1>4, <2>3, <2>5, <3>1
  <2>7. CASE mon # 11
    <3>1. mon + 1 \in 0..11 /\ ~(MonthBegins(year)[mon + 1] <= yday)
      BY <2>3, <2>4, <2>7
    <3> QED BY <1>4, <2>3, <2>5, <3>1
  <2> QED BY <2>6, <2>7
<1> HIDE DEF mon, M
<1>6. yday - MonthBegins(year)[mon] + 1 \in 1..31
      /\ yday = MonthBegins(year)[mon] + (yday - MonthBegins(year)[mon] + 1) - 1
  BY <1>4, <1>5
<1>7. (d + 4) % 7 \in 0..6 /\ \E week \in Nat : d + 4 = (week * 7) + ((d + 4) % 7)
  <2>1. d \in Nat
    BY <1>2
  <2> QED BY ONLY <2>1, WeekIs
<1>8. tm \in Moments
  BY <1>1, <1>2, <1>3, <1>4, <1>5, <1>6, <1>7 DEF Moments
<1>9. /\ tm.year = year /\ tm.mon = mon /\ tm.mday = yday - MonthBegins(year)[mon] + 1
      /\ tm.hour = (t % Day) \div 3600 /\ tm.min = (t % 3600) \div 60
      /\ tm.sec = t % 60 /\ tm.wday = (d + 4) % 7 /\ tm.yday = yday
  BY <1>1
<1>10. Dated(tm, d, t % Day)
  BY <1>2, <1>3, <1>4, <1>5, <1>6, <1>7, <1>8, <1>9 DEF Dated
<1> QED BY <1>10 DEF tm, d, t

\* What localtime_r writes for second s of day d.
LEMMA LookedUp ==
    ASSUME NEW time, NEW d \in Nat, NEW s \in 0..(Day - 1), time + zone = (d * Day) + s,
           d < DaysBefore(200)
    PROVE  Dated(Time2TM(time), d, s)
<1> DEFINE t == time + zone
<1>1. t = (d * Day) + s /\ Day \in Nat \ {0}
  BY DayIs
<1> HIDE DEF t
<1>2. t \in Nat
  <2>1. d * Day \in Nat /\ s \in Nat
    BY <1>1
  <2> QED BY <1>1, <2>1
<1>3. t \div Day = d /\ t % Day = s
  BY <1>1, <1>2, DivModUnique
<1>4. (time + zone) \div Day = d /\ (time + zone) % Day = s /\ time + zone \in Nat
  BY <1>2, <1>3 DEF t
<1>5. Dated(Time2TM(time), (time + zone) \div Day, (time + zone) % Day)
  BY <1>4, TimeIsDated
<1> QED BY <1>4, <1>5

\* A day is in one month only.
LEMMA YearIs ==
    ASSUME NEW tm, NEW d, NEW s, Dated(tm, d, s),
           NEW y \in 70..199, DaysBefore(y) <= d, d < DaysBefore(y + 1)
    PROVE  tm.year = y /\ tm.yday = d - DaysBefore(y)
<1> DEFINE z == tm.year
<1>1. z \in 70..199 /\ d \in Nat /\ d < DaysBefore(z + 1) /\ tm.yday \in 0..365
      /\ d = DaysBefore(z) + tm.yday
  BY DEF Dated, Moments
<1> HIDE DEF z
<1>2. DaysBefore(z) \in Nat /\ DaysBefore(z + 1) \in Nat /\ DaysBefore(y) \in Nat /\ DaysBefore(y + 1) \in Nat
  <2>1. DaysBefore(z) \in Nat /\ DaysBefore(z + 1) \in Nat
    BY ONLY <1>1, YearsAre
  <2>2. DaysBefore(y) \in Nat /\ DaysBefore(y + 1) \in Nat
    BY ONLY y \in 70..199, YearsAre
  <2> QED BY <2>1, <2>2
<1>3. ~(z < y)
  <2> SUFFICES ASSUME z < y PROVE FALSE
    OBVIOUS
  <2>1. DaysBefore(z + 1) <= DaysBefore(y)
    BY <1>1, YearsGrow
  <2> QED BY <1>1, <1>2, <2>1
<1>4. ~(y < z)
  <2> SUFFICES ASSUME y < z PROVE FALSE
    OBVIOUS
  <2>1. DaysBefore(y + 1) <= DaysBefore(z)
    BY <1>1, YearsGrow
  <2> QED BY <1>1, <1>2, <2>1
<1>5. z = y
  BY <1>1, <1>3, <1>4
<1> QED BY <1>1, <1>2, <1>5 DEF z

\* Day d is in month m of year y.
InMonth(d, y, m) ==
    /\ y \in 70..199 /\ m \in 0..11
    /\ DaysBefore(y) + MonthBegins(y)[m] <= d /\ d < DaysBefore(y) + MonthBegins(y)[m + 1]

\* tm is of day d, which is in that month.
OfMonth(tm, d, y, m) ==
    tm.year = y /\ tm.mon = m /\ tm.mday = d - DaysBefore(y) - MonthBegins(y)[m] + 1

LEMMA DateIs ==
    ASSUME NEW tm, NEW d, NEW s, Dated(tm, d, s), NEW y, NEW m, InMonth(d, y, m)
    PROVE  OfMonth(tm, d, y, m)
<1> DEFINE B == MonthBegins(y)
           n == tm.mon
           a == DaysBefore(y)
<1>0. y \in 70..199 /\ m \in 0..11
  BY DEF InMonth
<1>1. B[m] \in Nat /\ B[m + 1] \in Nat /\ B[m + 1] <= B[12]
  <2>1. m \in 0..12 /\ m + 1 \in 0..12 /\ 12 \in 0..12 /\ m < 12 /\ m \in 0..11
    BY <1>0
  <2>2. \A k \in 0..12 : B[k] \in 0..366
    BY MonthsAre
  <2>3. \A k \in 0..11, l \in 0..12 : k < l => B[k + 1] <= B[l]
    BY MonthsAre
  <2> HIDE DEF B
  <2>4. B[m] \in 0..366 /\ B[m + 1] \in 0..366
    BY <2>1, <2>2
  <2>5. B[m + 1] <= B[12]
    BY <2>1, <2>3
  <2> QED BY <2>4, <2>5
<1>2. a \in Nat /\ DaysBefore(y + 1) = a + B[12] /\ B[12] \in Nat
  <2> DEFINE leap == IF Leap(y) THEN 1 ELSE 0
  <2>1. leap \in 0..1
    OBVIOUS
  <2>2. a \in Nat /\ DaysBefore(y + 1) = a + 365 + leap
    BY <1>0, YearsAre
  <2>3. B[12] = 365 + leap
    BY MonthsAre
  <2> HIDE DEF leap, a, B
  <2> QED BY <2>1, <2>2, <2>3
<1>3. d \in Nat /\ a + B[m] <= d /\ d < a + B[m + 1]
  BY DEF Dated, InMonth
<1>4. tm.year = y /\ tm.yday = d - a
  <2>1. a <= d /\ d < a + B[12]
    <3> HIDE DEF a, B
    <3> QED BY <1>1, <1>2, <1>3
  <2>2. DaysBefore(y) <= d /\ d < DaysBefore(y + 1)
    BY <1>2, <2>1
  <2> QED BY <1>0, <2>2, YearIs
<1>5. /\ n \in 0..11 /\ B[n] <= d - a /\ d - a < B[n + 1]
      /\ tm.mday \in 1..31 /\ d - a = B[n] + tm.mday - 1
  BY <1>4 DEF Dated, Moments
<1>6. B[n] \in Nat /\ B[n + 1] \in Nat
  <2>1. n \in 0..12 /\ n + 1 \in 0..12
    BY <1>5
  <2>2. \A k \in 0..12 : B[k] \in 0..366
    BY MonthsAre
  <2> HIDE DEF B, n
  <2>3. B[n] \in 0..366 /\ B[n + 1] \in 0..366
    BY <2>1, <2>2
  <2> QED BY <2>3
<1>7. \A k \in 0..11, l \in 0..12 : k < l => B[k + 1] <= B[l]
  BY MonthsAre
<1>8. tm.year = y /\ tm.mon = n
  BY <1>4
<1> HIDE DEF a, B, n
<1>9. ~(n < m)
  <2> SUFFICES ASSUME n < m PROVE FALSE
    OBVIOUS
  <2>1. m \in 0..12 /\ m \in 0..11
    BY <1>0
  <2>2. B[n + 1] <= B[m]
    BY <1>5, <1>7, <2>1
  <2> QED BY <1>1, <1>2, <1>3, <1>5, <1>6, <2>2
<1>10. ~(m < n)
  <2> SUFFICES ASSUME m < n PROVE FALSE
    OBVIOUS
  <2>1. n \in 0..12
    BY <1>5
  <2>2. B[m + 1] <= B[n]
    BY <1>0, <1>7, <2>1
  <2> QED BY <1>1, <1>2, <1>3, <1>5, <1>6, <2>2
<1>11. n = m
  BY <1>0, <1>5, <1>9, <1>10
<1>12. tm.mday = d - a - B[m] + 1
  BY <1>1, <1>2, <1>3, <1>5, <1>11
<1> QED BY <1>8, <1>11, <1>12 DEF a, B, OfMonth

LEMMA WeekOf ==
    ASSUME NEW tm, NEW d, NEW s, Dated(tm, d, s)
    PROVE  \E week \in Nat : d + 4 = (week * 7) + tm.wday
BY DEF Dated

LEMMA MidnightIs ==
    ASSUME NEW tm, NEW d, Dated(tm, d, 0)
    PROVE  Begins(tm)
<1>1. tm.hour \in 0..23 /\ tm.min \in 0..59 /\ tm.sec \in 0..59
      /\ 0 = (tm.hour * 3600) + (tm.min * 60) + tm.sec
  BY DEF Dated, Moments
<1> DEFINE h == tm.hour
           m == tm.min
           v == tm.sec
<1>2. h \in Nat /\ m \in Nat /\ v \in Nat /\ 0 = (h * 3600) + (m * 60) + v
  BY <1>1
<1> HIDE DEF h, m, v
<1>3. h = 0 /\ m = 0 /\ v = 0
  BY ONLY <1>2
<1> QED BY <1>3 DEF Begins, h, m, v

\* mktime undoes localtime_r, and so it does for any day of a month that has it.
LEMMA Written ==
    ASSUME NEW tm, tm.mon \in 0..11, tm.year \in 70..199
    PROVE  TM2Time(tm) = (DaysBefore(tm.year) + MonthBegins(tm.year)[tm.mon] + tm.mday - 1) * Day
                         + tm.hour * 3600 + tm.min * 60 + tm.sec - zone
<1> DEFINE m == tm.mon
<1>1. m \in Nat /\ m = (0 * 12) + m /\ m \in 0..(12 - 1)
  OBVIOUS
<1> HIDE DEF m
<1>2. m \div 12 = 0 /\ m % 12 = m
  BY <1>1, Divided
<1>3. tm.mon \div 12 = 0 /\ tm.mon % 12 = tm.mon
  BY <1>2 DEF m
<1>4. tm.year + 0 = tm.year
  OBVIOUS
<1> QED BY <1>3, <1>4 DEF TM2Time

CalendarTyped ==
    /\ zone \in Zones /\ now \in Int /\ last \in Int
    /\ last <= now /\ now <= Until /\ 3 * Day <= last + zone

LEMMA Scaled ==
    ASSUME NEW a \in Int, NEW b \in Int, NEW c \in Nat, a <= b
    PROVE  a * c <= b * c
<1>1. (b - a) * c \in Nat /\ b * c = (a * c) + ((b - a) * c) /\ a * c \in Int
  OBVIOUS
<1> QED BY <1>1

LEMMA Unscaled ==
    ASSUME NEW a \in Int, NEW b \in Int, NEW r \in 0..(Day - 1), a * Day <= (b * Day) + r
    PROVE  a <= b
<1> SUFFICES ASSUME b + 1 <= a PROVE FALSE
  OBVIOUS
<1>1. (b + 1) * Day <= a * Day
  BY DayIs, Scaled
<1>2. (b + 1) * Day = (b * Day) + Day /\ b * Day \in Int /\ a * Day \in Int
  BY DayIs
<1> QED BY <1>1, <1>2, DayIs

\* Both looks at the clock are within the years of the calendar.
LEMMA Looked ==
    ASSUME CalendarTyped, NEW time \in {last, now}
    PROVE  \E d \in Nat, s \in 0..(Day - 1) :
             time + zone = (d * Day) + s /\ 3 <= d /\ d < DaysBefore(200)
<1> DEFINE t == time + zone
           u == Until + zone
           d == t \div Day
           s == t % Day
           e == u \div Day
           r == u % Day
<1>1. zone \in Int /\ Until \in Int /\ time \in Int /\ time <= Until /\ 3 * Day <= t
      /\ e < DaysBefore(200)
  <2>1. /\ zone \in Zones /\ now \in Int /\ last \in Int
        /\ last <= now /\ now <= Until /\ 3 * Day <= last + zone
    BY DEF CalendarTyped
  <2>2. zone \in Int /\ Until \in Int
    BY <2>1, CalendarAssumption
  <2>3. e < DaysBefore(200)
    BY <2>1, CalendarAssumption
  <2>4. time \in Int /\ time <= Until /\ last <= time
    BY <2>1, <2>2
  <2>5. 3 * Day <= time + zone
    <3>1. 3 * Day \in Int
      BY DayIs
    <3> QED BY <2>1, <2>2, <2>4, <3>1
  <2> QED BY <2>2, <2>3, <2>4, <2>5
<1>2. t \in Nat /\ u \in Nat /\ t <= u
  BY <1>1, DayIs
<1> HIDE DEF t, u
<1>3. d \in Nat /\ s \in 0..(Day - 1) /\ t = (d * Day) + s
  BY <1>2, DivMod, DayIs
<1>4. e \in Nat /\ r \in 0..(Day - 1) /\ u = (e * Day) + r
  BY <1>2, DivMod, DayIs
<1> HIDE DEF d, s, e, r
<1>5. 3 <= d
  BY <1>1, <1>3, Unscaled
<1>6. d <= e
  <2>1. d * Day \in Int /\ e * Day \in Int
    BY <1>3, <1>4, DayIs
  <2>2. d * Day <= (e * Day) + r
    BY <1>2, <1>3, <1>4, <2>1, DayIs
  <2> QED BY <1>3, <1>4, <2>2, Unscaled
<1>7. d < DaysBefore(200)
  <2>1. DaysBefore(200) \in Nat
    <3>1. 199 \in 70..199 /\ 199 + 1 = 200
      OBVIOUS
    <3> QED BY <3>1, YearsAre
  <2> QED BY <1>1, <1>3, <1>4, <1>6, <2>1
<1> QED BY <1>3, <1>5, <1>7 DEF t

\* mktime undoes localtime_r.
LEMMA Back ==
    ASSUME NEW tm, NEW d, NEW s, Dated(tm, d, s), zone \in Int
    PROVE  /\ InDay(tm) = s /\ TM2Time(tm) = (d * Day) + s - zone
           /\ Get_0H0M0S(tm) = (d * Day) - zone
<1> DEFINE B == MonthBegins(tm.year)[tm.mon]
           a == DaysBefore(tm.year)
<1>1. tm \in Moments /\ d \in Nat /\ s \in 0..(Day - 1) /\ d = a + tm.yday
      /\ tm.yday = B + tm.mday - 1 /\ s = (tm.hour * 3600) + (tm.min * 60) + tm.sec
  BY DEF Dated
<1>2. tm.year \in 70..199 /\ tm.mon \in 0..11 /\ tm.mday \in 1..31 /\ tm.yday \in 0..365
      /\ tm.hour \in 0..23 /\ tm.min \in 0..59 /\ tm.sec \in 0..59
  BY <1>1 DEF Moments
<1>3. a \in Nat /\ B \in Nat
  <2>1. tm.mon \in 0..12
    BY <1>2
  <2>2. \A m \in 0..12 : MonthBegins(tm.year)[m] \in 0..366
    BY MonthsAre
  <2>3. B \in 0..366
    BY <2>1, <2>2
  <2>4. a \in Nat
    BY <1>2, YearsAre
  <2> QED BY <2>3, <2>4
<1>4. TM2Time(tm) = (a + B + tm.mday - 1) * Day + tm.hour * 3600 + tm.min * 60 + tm.sec - zone
  BY <1>2, Written
<1>5. a + B + tm.mday - 1 = d
  <2> HIDE DEF a, B
  <2> QED BY <1>1, <1>2, <1>3
<1>6. InDay(tm) = s
  BY <1>1 DEF InDay
<1>7. d * Day \in Int
  BY <1>1, DayIs
<1>8. TM2Time(tm) = (d * Day) + s - zone
  <2> DEFINE x == d * Day
             h == tm.hour
             m == tm.min
             v == tm.sec
  <2>1. TM2Time(tm) = x + h * 3600 + m * 60 + v - zone
    BY <1>4, <1>5
  <2>2. x \in Int /\ h \in Int /\ m \in Int /\ v \in Int /\ s = (h * 3600) + (m * 60) + v
    BY <1>1, <1>2, <1>7
  <2> HIDE DEF x, h, m, v
  <2>3. TM2Time(tm) = x + s - zone
    BY <2>1, <2>2
  <2> QED BY <2>3 DEF x
<1>9. Get_0H0M0S(tm) = (d * Day) - zone
  <2> DEFINE n == Midnight(tm)
  <2>1. n.year = tm.year /\ n.mon = tm.mon /\ n.mday = tm.mday /\ n.hour = 0 /\ n.min = 0 /\ n.sec = 0
    BY <1>1 DEF Midnight, Moments
  <2> HIDE DEF n
  <2>2. n.mon \in 0..11 /\ n.year \in 70..199
    BY <1>2, <2>1
  <2>3. TM2Time(n) = (DaysBefore(n.year) + MonthBegins(n.year)[n.mon] + n.mday - 1) * Day
                     + n.hour * 3600 + n.min * 60 + n.sec - zone
    BY <2>2, Written
  <2>4. TM2Time(n) = d * Day + 0 * 3600 + 0 * 60 + 0 - zone
    BY <1>5, <2>1, <2>3
  <2>5. TM2Time(n) = (d * Day) - zone
    <3> DEFINE x == d * Day
    <3>1. x \in Int /\ TM2Time(n) = x + 0 * 3600 + 0 * 60 + 0 - zone
      BY <1>7, <2>4
    <3> HIDE DEF x
    <3>2. TM2Time(n) = x - zone
      BY <3>1
    <3> QED BY <3>2 DEF x
  <2> QED BY <2>5 DEF Get_0H0M0S, n
<1> QED BY <1>6, <1>8, <1>9

\* Where the months begin in the calendar of one year.
LEMMA MonthIs ==
    ASSUME NEW y \in 70..199, NEW m \in 0..11
    PROVE  /\ DaysBefore(y) \in Nat /\ MonthBegins(y)[m] \in Nat /\ MonthBegins(y)[m + 1] \in Nat
           /\ MonthBegins(y)[m] < MonthBegins(y)[m + 1]
           /\ DaysBefore(y) + MonthBegins(y)[m + 1] <= DaysBefore(200)
<1> DEFINE B == MonthBegins(y)
           a == DaysBefore(y)
           leap == IF Leap(y) THEN 1 ELSE 0
<1>1. leap \in 0..1
  OBVIOUS
<1>2. a \in Nat /\ DaysBefore(y + 1) = a + 365 + leap
  BY YearsAre
<1>3. B[12] = 365 + leap /\ (\A k \in 0..12 : B[k] \in 0..366)
  BY MonthsAre
<1>4. \A k \in 0..11 : B[k] < B[k + 1]
  BY MonthsAre
<1>5. \A k \in 0..11, l \in 0..12 : k < l => B[k + 1] <= B[l]
  BY MonthsAre
<1>6. DaysBefore(y + 1) <= DaysBefore(200) /\ DaysBefore(200) \in Nat
  <2>1. 199 \in 70..199 /\ 199 + 1 = 200 /\ 200 \in 70..200
    OBVIOUS
  <2>2. DaysBefore(200) \in Nat
    BY <2>1, YearsAre
  <2>3. y < 200
    OBVIOUS
  <2> QED BY <2>1, <2>2, <2>3, YearsGrow
<1> HIDE DEF B, a, leap
<1>7. m \in 0..12 /\ m + 1 \in 0..12 /\ 12 \in 0..12 /\ m < 12
  OBVIOUS
<1>8. B[m] \in 0..366 /\ B[m + 1] \in 0..366 /\ B[m] < B[m + 1] /\ B[m + 1] <= B[12]
  BY <1>3, <1>4, <1>5, <1>7
<1>9. a + B[m + 1] <= DaysBefore(200)
  BY <1>1, <1>2, <1>3, <1>6, <1>8
<1>10. a \in Nat /\ B[m] \in Nat /\ B[m + 1] \in Nat /\ B[m] < B[m + 1]
  BY <1>2, <1>8
<1> QED BY <1>9, <1>10 DEF a, B

LEMMA BeginningsHold ==
    ASSUME CalendarTyped
    PROVE  BeginningsAreRight
<1> DEFINE tm == tmNow
           y == tm.year
           m == tm.mon
           a == DaysBefore(y)
           B == MonthBegins(y)[m]
           C == MonthBegins(y)[m + 1]
<1>1. zone \in Int /\ now \in Int
  BY CalendarAssumption DEF CalendarTyped
<1>2. PICK d \in Nat, s \in 0..(Day - 1) :
        now + zone = (d * Day) + s /\ 3 <= d /\ d < DaysBefore(200)
  <2>1. now \in {last, now}
    OBVIOUS
  <2> QED BY <2>1, Looked
<1>3. Dated(tm, d, s)
  BY <1>2, LookedUp DEF tmNow
<1>4. InDay(tm) = s /\ TM2Time(tm) = (d * Day) + s - zone /\ Get_0H0M0S(tm) = (d * Day) - zone
  BY <1>1, <1>3, Back
<1>5. /\ y \in 70..199 /\ m \in 0..11 /\ tm.mday \in 1..31 /\ tm.wday \in 0..6 /\ tm.yday \in 0..365
      /\ d = a + tm.yday /\ tm.yday = B + tm.mday - 1 /\ B <= tm.yday /\ tm.yday < C
      /\ d < DaysBefore(y + 1)
  BY <1>3 DEF Dated, Moments
<1>6. PICK week \in Nat : d + 4 = (week * 7) + tm.wday
  BY ONLY <1>3, WeekOf
<1>7. a \in Nat /\ B \in Nat /\ C \in Nat /\ B < C
  <2>1. y \in 70..199 /\ m \in 0..11
    BY <1>5
  <2> HIDE DEF y, m
  <2> QED BY ONLY <2>1, MonthIs DEF a, B, C
<1>8. Day \in Nat /\ 0 \in 0..(Day - 1) /\ \A k \in Int : k * Day \in Int
  BY DayIs
<1>9. now = (d * Day) + s - zone
  BY <1>1, <1>2, <1>8
<1> HIDE DEF tm, y, m, a, B, C
<1>10. LET day == Get_0H0M0S(tm)
       IN  now - day \in 0..Day - 1 /\ Begins(Time2TM(day))
  <2> DEFINE day == (d * Day) - zone
  <2>1. now - day = s
    BY <1>1, <1>8, <1>9
  <2>2. day + zone = (d * Day) + 0
    BY <1>1, <1>8
  <2> HIDE DEF day
  <2>3. Dated(Time2TM(day), d, 0)
    BY <1>2, <1>8, <2>2, LookedUp
  <2>4. Begins(Time2TM(day))
    BY <2>3, MidnightIs
  <2> QED BY <1>4, <2>1, <2>4 DEF day
<1>11. LET sunday == GetSunday_0H0M0S(tm)
       IN  now - sunday \in 0..7 * Day - 1 /\ Begins(Time2TM(sunday)) /\ Time2TM(sunday).wday = 0
  <2> DEFINE w == tm.wday
             k == d - w
             from == (k * Day) - zone
             t == Time2TM(from)
  <2>1. w \in 0..6 /\ d + 4 = (week * 7) + w
    BY <1>5, <1>6
  <2> HIDE DEF w
  <2>2. k \in Nat /\ k + 4 = (week * 7) + 0 /\ k < DaysBefore(200)
    <3>1. DaysBefore(200) \in Nat
      <4>1. 199 \in 70..199 /\ 199 + 1 = 200
        OBVIOUS
      <4> QED BY <4>1, YearsAre
    <3> QED BY <1>2, <1>6, <2>1, <3>1
  <2>3. k * Day = (d * Day) - (w * Day) /\ w * Day \in Int
    BY <1>2, <1>8, <2>1
  <2>4. now - from = (w * Day) + s
    BY <1>1, <1>2, <1>8, <1>9, <2>3
  <2>5. 0 <= w * Day /\ w * Day <= 6 * Day
    <3>1. 0 <= w /\ w <= 6 /\ 0 \in Int /\ 6 \in Int /\ w \in Int /\ 0 * Day = 0
      BY <1>8, <2>1
    <3>2. 0 * Day <= w * Day /\ w * Day <= 6 * Day
      BY <1>8, <3>1, Scaled
    <3> QED BY <3>1, <3>2
  <2>6. now - from \in 0..(7 * Day) - 1
    BY <1>2, <1>8, <2>3, <2>4, <2>5
  <2>7. from + zone = (k * Day) + 0
    BY <1>1, <1>8, <2>2
  <2>8. GetSunday_0H0M0S(tm) = from
    <3>1. GetSunday_0H0M0S(tm) = ((d * Day) + s - zone) - (w * Day + s)
      BY <1>4 DEF GetSunday_0H0M0S, w
    <3> QED BY <1>1, <1>2, <1>8, <2>3, <3>1
  <2> HIDE DEF k, from
  <2>9. Dated(t, k, 0)
    BY <1>8, <2>2, <2>7, LookedUp
  <2>10. Begins(t)
    BY <2>9, MidnightIs
  <2>11. t.wday = 0
    <3>1. t.wday \in 0..6
      BY <2>9 DEF Dated, Moments
    <3>2. PICK v \in Nat : k + 4 = (v * 7) + t.wday
      BY ONLY <2>9, WeekOf
    <3> DEFINE x == t.wday
    <3>3. x \in 0..6 /\ (week * 7) + 0 = (v * 7) + x
      BY <2>2, <3>1, <3>2
    <3> HIDE DEF x
    <3>4. x = 0
      BY ONLY <3>3, week \in Nat, v \in Nat
    <3> QED BY <3>4 DEF x
  <2> HIDE DEF t
  <2> QED BY <2>6, <2>8, <2>10, <2>11 DEF t
<1>12. LET month == Time2TM(GetFirstMDay_0H0M0S(tm))
       IN  SameMonth(month) /\ Begins(month) /\ month.mday = 1
  <2> DEFINE k == a + B
             from == (k * Day) - zone
             t == Time2TM(from)
  <2>1. k \in Nat /\ k = d - (tm.mday - 1) /\ k <= d /\ k < DaysBefore(200) /\ a + B <= k /\ k < a + C
    <3>1. DaysBefore(200) \in Nat
      <4>1. 199 \in 70..199 /\ 199 + 1 = 200
        OBVIOUS
      <4> QED BY <4>1, YearsAre
    <3> QED BY <1>2, <1>5, <1>7, <3>1
  <2>2. GetFirstMDay_0H0M0S(tm) = from
    <3> DEFINE e == tm.mday - 1
    <3>1. e \in Int /\ k = d - e
      BY <1>5, <2>1
    <3>2. GetFirstMDay_0H0M0S(tm) = ((d * Day) + s - zone) - (e * Day + s)
      BY <1>4 DEF GetFirstMDay_0H0M0S
    <3> HIDE DEF e, k
    <3>3. k * Day = (d * Day) - (e * Day) /\ e * Day \in Int
      BY <1>2, <1>8, <3>1
    <3> QED BY <1>1, <1>2, <1>8, <3>2, <3>3
  <2>3. from + zone = (k * Day) + 0
    BY <1>1, <1>8, <2>1
  <2> HIDE DEF from
  <2>4. Dated(t, k, 0)
    <3> HIDE DEF k, t
    <3> QED BY <1>8, <2>1, <2>3, LookedUp DEF t
  <2>5. Begins(t)
    BY <2>4, MidnightIs
  <2>6. t.year = y /\ t.mon = m /\ t.mday = k - a - B + 1
    <3>1. DaysBefore(y) + MonthBegins(y)[m] <= k /\ k < DaysBefore(y) + MonthBegins(y)[m + 1]
      BY <2>1 DEF a, B, C
    <3> HIDE DEF k, t
    <3>2. InMonth(k, y, m)
      BY <1>5, <3>1 DEF InMonth
    <3>3. OfMonth(t, k, y, m)
      BY ONLY <2>4, <3>2, DateIs
    <3> QED BY <3>3 DEF a, B, OfMonth
  <2>7. k - a - B + 1 = 1
    BY <1>7
  <2> HIDE DEF t
  <2> QED BY <2>2, <2>5, <2>6, <2>7 DEF SameMonth, SameYear, tm, y, m, t
<1>13. LET year == Time2TM(GetFirstYDay_0H0M0S(tm))
       IN  SameYear(year) /\ Begins(year) /\ year.mon = 0 /\ year.mday = 1
  <2> DEFINE from == (a * Day) - zone
             t == Time2TM(from)
  <2>1. a = d - tm.yday /\ a <= d /\ a < DaysBefore(200)
    <3>1. DaysBefore(200) \in Nat
      <4>1. 199 \in 70..199 /\ 199 + 1 = 200
        OBVIOUS
      <4> QED BY <4>1, YearsAre
    <3> QED BY <1>2, <1>5, <1>7, <3>1
  <2>2. GetFirstYDay_0H0M0S(tm) = from
    <3> DEFINE e == tm.yday
    <3>1. e \in Int /\ a = d - e
      BY <1>5, <2>1
    <3>2. GetFirstYDay_0H0M0S(tm) = ((d * Day) + s - zone) - (e * Day + s)
      BY <1>4 DEF GetFirstYDay_0H0M0S
    <3> HIDE DEF e
    <3>3. a * Day = (d * Day) - (e * Day) /\ e * Day \in Int
      BY <1>2, <1>8, <3>1
    <3> QED BY <1>1, <1>2, <1>8, <3>2, <3>3
  <2>3. from + zone = (a * Day) + 0
    BY <1>1, <1>7, <1>8
  <2> HIDE DEF from
  <2>4. Dated(t, a, 0)
    <3> HIDE DEF t
    <3> QED BY <1>7, <1>8, <2>1, <2>3, LookedUp DEF t
  <2>5. Begins(t)
    BY <2>4, MidnightIs
  <2>6. t.year = y /\ t.mon = 0 /\ t.mday = a - a - MonthBegins(y)[0] + 1
    <3>1. 0 \in 0..11 /\ MonthBegins(y)[0] = 0 /\ MonthBegins(y)[0] < MonthBegins(y)[0 + 1]
          /\ MonthBegins(y)[0 + 1] \in Nat
      <4>1. 0 \in 0..11
        OBVIOUS
      <4>2. MonthBegins(y)[0] = 0
        BY MonthsAre
      <4> QED BY <1>5, <4>1, <4>2, MonthIs
    <3>2. a + MonthBegins(y)[0] <= a /\ a < a + MonthBegins(y)[0 + 1]
      BY <1>7, <3>1
    <3> HIDE DEF t
    <3>3. DaysBefore(y) + MonthBegins(y)[0] <= a /\ a < DaysBefore(y) + MonthBegins(y)[0 + 1]
      BY <3>2 DEF a
    <3>4. InMonth(a, y, 0)
      BY <1>5, <3>1, <3>3 DEF InMonth
    <3>5. OfMonth(t, a, y, 0)
      BY ONLY <2>4, <3>4, DateIs
    <3> QED BY <3>5 DEF a, OfMonth
  <2>7. a - a - MonthBegins(y)[0] + 1 = 1
    BY <1>7, MonthsAre
  <2> HIDE DEF t
  <2> QED BY <2>2, <2>5, <2>6, <2>7 DEF SameYear, tm, y, t
<1> QED BY <1>10, <1>11, <1>12, <1>13 DEF BeginningsAreRight, tm

LEMMA FirstOfMonth ==
    ASSUME NEW n, n.mon \in 0..11, n.year \in 70..199, n.mday = 1, n.hour = 0, n.min = 0, n.sec = 0,
           zone \in Int
    PROVE  TM2Time(n) = ((DaysBefore(n.year) + MonthBegins(n.year)[n.mon]) * Day) - zone
<1> DEFINE a == DaysBefore(n.year)
           B == MonthBegins(n.year)[n.mon]
           x == (a + B) * Day
<1>1. TM2Time(n) = (a + B + 1 - 1) * Day + 0 * 3600 + 0 * 60 + 0 - zone
  BY Written
<1>2. a \in Nat /\ B \in Nat
  BY MonthIs
<1>3. a + B + 1 - 1 = a + B
  <2> HIDE DEF a, B
  <2> QED BY <1>2
<1>4. x \in Int
  <2> HIDE DEF a, B
  <2> QED BY <1>2, DayIs
<1>5. TM2Time(n) = x + 0 * 3600 + 0 * 60 + 0 - zone
  BY <1>1, <1>3
<1> HIDE DEF x
<1>6. TM2Time(n) = x - zone
  BY <1>4, <1>5
<1> QED BY <1>6 DEF x

\* Where the code has the end of every year, and of December: a year too early.
YearsEndEarly ==
    LET before == GetFirstYDay_0H0M0S(tmNow) - 1
    IN  /\ GetLastYDay_23H59M59S(tmNow) = before
        /\ tmNow.mon = 11 => GetLastMDay_23H59M59S(tmNow) = before

LEMMA EndsHold ==
    ASSUME CalendarTyped
    PROVE  EndsAreWhereTheyAre /\ YearsEndEarly
<1> DEFINE tm == tmNow
           y == tm.year
           m == tm.mon
           a == DaysBefore(y)
           C == MonthBegins(y)[m + 1]
           yearly == a * Day
<1>1. zone \in Int /\ now \in Int
  BY CalendarAssumption DEF CalendarTyped
<1>2. PICK d \in Nat, s \in 0..(Day - 1) :
        now + zone = (d * Day) + s /\ 3 <= d /\ d < DaysBefore(200)
  <2>1. now \in {last, now}
    OBVIOUS
  <2> QED BY <2>1, Looked
<1>3. Dated(tm, d, s)
  BY <1>2, LookedUp DEF tmNow
<1>4. InDay(tm) = s /\ TM2Time(tm) = (d * Day) + s - zone
  BY <1>1, <1>3, Back
<1>5. /\ tm \in Moments /\ y \in 70..199 /\ m \in 0..11 /\ tm.yday \in 0..365 /\ d = a + tm.yday
  BY <1>3 DEF Dated, Moments
<1>6. a \in Nat /\ C \in Nat /\ MonthBegins(y)[0] = 0 /\ MonthBegins(y)[m] \in Nat /\ MonthBegins(y)[m] < C
  <2>1. a \in Nat /\ C \in Nat /\ MonthBegins(y)[m] \in Nat /\ MonthBegins(y)[m] < C
    <3>1. y \in 70..199 /\ m \in 0..11
      BY <1>5
    <3> HIDE DEF y, m
    <3> QED BY ONLY <3>1, MonthIs DEF a, C
  <2> QED BY <2>1, MonthsAre
<1>7. Day \in Nat /\ 0 \in 0..(Day - 1) /\ Day - 1 \in 0..(Day - 1) /\ \A k \in Int : k * Day \in Int
  BY DayIs
<1>8. GetFirstYDay_0H0M0S(tm) = yearly - zone
  <2> DEFINE e == tm.yday
  <2>1. GetFirstYDay_0H0M0S(tm) = ((d * Day) + s - zone) - (e * Day + s)
    BY <1>4 DEF GetFirstYDay_0H0M0S
  <2>2. e \in Int /\ a = d - e
    <3> HIDE DEF a, e
    <3> QED BY <1>5, <1>6 DEF e
  <2> HIDE DEF e, a
  <2>3. a * Day = (d * Day) - (e * Day) /\ e * Day \in Int
    BY <1>2, <1>7, <2>2
  <2> QED BY <1>1, <1>2, <1>7, <2>1, <2>3
<1>9. GetLastYDay_23H59M59S(tm) = yearly - zone - 1
  <2> DEFINE n == [Midnight(tm) EXCEPT !.yday = @ + 1, !.mon = 0, !.mday = 1]
  <2>1. n.mon = 0 /\ n.year = y /\ n.mday = 1 /\ n.hour = 0 /\ n.min = 0 /\ n.sec = 0
    BY <1>5 DEF Midnight, Moments
  <2>2. GetLastYDay_23H59M59S(tm) = TM2Time(n) - 1
    BY DEF GetLastYDay_23H59M59S
  <2> HIDE DEF n
  <2>3. n.mon \in 0..11 /\ n.year \in 70..199
    BY <1>5, <2>1
  <2>4. TM2Time(n) = ((DaysBefore(n.year) + MonthBegins(n.year)[n.mon]) * Day) - zone
    BY <1>1, <2>1, <2>3, FirstOfMonth
  <2>5. DaysBefore(n.year) + MonthBegins(n.year)[n.mon] = a
    BY <1>6, <2>1
  <2> QED BY <2>2, <2>4, <2>5
<1>10. CASE m = 11
  <2> DEFINE first == [Midnight(tm) EXCEPT !.mday = 1]
             n == [first EXCEPT !.mon = 0, !.yday = @ + 1]
  <2>1. n.mon = 0 /\ n.year = y /\ n.mday = 1 /\ n.hour = 0 /\ n.min = 0 /\ n.sec = 0
    BY <1>5 DEF Midnight, Moments
  <2>2. GetLastMDay_23H59M59S(tm) = TM2Time(n) - 1
    <3>1. tm.mon >= 11
      BY <1>10
    <3> QED BY <3>1 DEF GetLastMDay_23H59M59S
  <2> HIDE DEF n
  <2>3. n.mon \in 0..11 /\ n.year \in 70..199
    BY <1>5, <2>1
  <2>4. TM2Time(n) = ((DaysBefore(n.year) + MonthBegins(n.year)[n.mon]) * Day) - zone
    BY <1>1, <2>1, <2>3, FirstOfMonth
  <2>5. DaysBefore(n.year) + MonthBegins(n.year)[n.mon] = a
    BY <1>6, <2>1
  <2>6. GetLastMDay_23H59M59S(tm) = yearly - zone - 1
    BY <2>2, <2>4, <2>5
  <2>7. tmNow.mon = 11
    BY <1>10
  <2> HIDE DEF yearly
  <2> QED BY <1>8, <1>9, <2>6, <2>7 DEF EndsAreWhereTheyAre, YearsEndEarly
<1>11. CASE m # 11
  <2> DEFINE first == [Midnight(tm) EXCEPT !.mday = 1]
             n == [first EXCEPT !.mon = @ + 1]
             k == a + C
             end == (k * Day) - zone - 1
             t == Time2TM(end)
             u == Time2TM(end + 1)
  <2>1. n.mon = m + 1 /\ n.year = y /\ n.mday = 1 /\ n.hour = 0 /\ n.min = 0 /\ n.sec = 0
    BY <1>5 DEF Midnight, Moments
  <2>2. GetLastMDay_23H59M59S(tm) = TM2Time(n) - 1
    <3>1. ~(tm.mon >= 11)
      BY <1>5, <1>11
    <3> QED BY <3>1 DEF GetLastMDay_23H59M59S
  <2> HIDE DEF n
  <2>3. n.mon \in 0..11 /\ n.year \in 70..199
    BY <1>5, <1>11, <2>1
  <2>4. TM2Time(n) = ((DaysBefore(n.year) + MonthBegins(n.year)[n.mon]) * Day) - zone
    BY <1>1, <2>1, <2>3, FirstOfMonth
  <2>5. GetLastMDay_23H59M59S(tm) = end
    BY <2>1, <2>2, <2>4
  <2>6. m + 1 \in 0..11
    BY <1>5, <1>11
  <2>7. /\ MonthBegins(y)[(m + 1) + 1] \in Nat /\ C < MonthBegins(y)[(m + 1) + 1]
        /\ a + MonthBegins(y)[(m + 1) + 1] <= DaysBefore(200)
    BY <1>5, <2>6, MonthIs
  <2>8. DaysBefore(200) \in Nat
    <3>1. 199 \in 70..199 /\ 199 + 1 = 200
      OBVIOUS
    <3> QED BY <3>1, YearsAre
  <2>9. k \in Nat /\ k - 1 \in Nat /\ k < DaysBefore(200) /\ k - 1 < DaysBefore(200)
    <3> HIDE DEF a, C
    <3> QED BY <1>6, <2>7, <2>8
  <2>10. InMonth(k - 1, y, m)
    <3>1. DaysBefore(y) + MonthBegins(y)[m] <= k - 1 /\ k - 1 < DaysBefore(y) + MonthBegins(y)[m + 1]
      BY <1>6
    <3> QED BY <1>5, <3>1 DEF InMonth
  <2>11. InMonth(k, y, m + 1)
    <3>1. DaysBefore(y) + MonthBegins(y)[m + 1] <= k /\ k < DaysBefore(y) + MonthBegins(y)[(m + 1) + 1]
      BY <1>6, <2>7
    <3> QED BY <1>5, <2>6, <3>1 DEF InMonth
  <2> HIDE DEF k
  <2>12. end + zone = ((k - 1) * Day) + (Day - 1) /\ (end + 1) + zone = (k * Day) + 0
    <3>1. (k - 1) * Day = (k * Day) - Day /\ k * Day \in Int
      BY <1>7, <2>9
    <3> QED BY <1>1, <1>7, <3>1
  <2> HIDE DEF end
  <2>13. Dated(t, k - 1, Day - 1)
    <3> HIDE DEF t
    <3> QED BY <1>7, <2>9, <2>12, LookedUp DEF t
  <2>14. Dated(u, k, 0)
    <3> HIDE DEF u
    <3> QED BY <1>7, <2>9, <2>12, LookedUp DEF u
  <2> HIDE DEF t, u
  <2>15. OfMonth(t, k - 1, y, m)
    BY ONLY <2>10, <2>13, DateIs
  <2>16. OfMonth(u, k, y, m + 1)
    BY ONLY <2>11, <2>14, DateIs
  <2>17. t.year = y /\ t.mon = m /\ u.mon = m + 1
    BY <2>15, <2>16 DEF OfMonth
  <2>18. SameMonth(t) /\ u.mon = tmNow.mon + 1 /\ tmNow.mon # 11
    BY <1>11, <2>17 DEF SameMonth, SameYear
  <2> HIDE DEF yearly
  <2> QED BY <1>8, <1>9, <2>5, <2>18 DEF EndsAreWhereTheyAre, YearsEndEarly, t, u
<1> QED BY <1>10, <1>11

\* The order of two days is that of their years, and of their days in one year.
LEMMA DaysCompare ==
    ASSUME NEW l, NEW r, NEW d, NEW e, NEW s, NEW v, Dated(l, d, s), Dated(r, e, v)
    PROVE  /\ (l.year = r.year /\ l.yday > r.yday) \/ l.year > r.year <=> d > e
           /\ (l.year = r.year /\ l.yday < r.yday) \/ l.year < r.year <=> d < e
           /\ d = e <=> l.yday = r.yday /\ l.year = r.year
<1> DEFINE y == l.year
           z == r.year
           i == l.yday
           j == r.yday
<1>1. /\ y \in 70..199 /\ i \in 0..365 /\ d \in Nat /\ d = DaysBefore(y) + i /\ d < DaysBefore(y + 1)
      /\ z \in 70..199 /\ j \in 0..365 /\ e \in Nat /\ e = DaysBefore(z) + j /\ e < DaysBefore(z + 1)
  BY DEF Dated, Moments
<1> HIDE DEF y, z, i, j
<1>2. /\ DaysBefore(y) \in Nat /\ DaysBefore(y + 1) \in Nat
      /\ DaysBefore(z) \in Nat /\ DaysBefore(z + 1) \in Nat
  BY <1>1, YearsAre
<1>3. y < z => d < e
  <2> SUFFICES ASSUME y < z PROVE d < e
    OBVIOUS
  <2>1. DaysBefore(y + 1) <= DaysBefore(z)
    BY <1>1, YearsGrow
  <2> QED BY <1>1, <1>2, <2>1
<1>4. z < y => e < d
  <2> SUFFICES ASSUME z < y PROVE e < d
    OBVIOUS
  <2>1. DaysBefore(z + 1) <= DaysBefore(y)
    BY <1>1, YearsGrow
  <2> QED BY <1>1, <1>2, <2>1
<1>5. y = z => (i > j <=> d > e) /\ (i < j <=> d < e) /\ (i = j <=> d = e)
  BY <1>1, <1>2
<1>6. /\ (y = z /\ i > j) \/ y > z <=> d > e
      /\ (y = z /\ i < j) \/ y < z <=> d < e
      /\ d = e <=> i = j /\ y = z
  BY <1>1, <1>3, <1>4, <1>5
<1> QED BY <1>6 DEF y, z, i, j

LEMMA DaysHold ==
    ASSUME CalendarTyped
    PROVE  DaysAreOrdered
<1> DEFINE l == Time2TM(now)
           r == Time2TM(last)
<1>1. zone \in Int /\ now \in Int /\ last \in Int /\ last <= now
  BY CalendarAssumption DEF CalendarTyped
<1>2. PICK d \in Nat, s \in 0..(Day - 1) :
        now + zone = (d * Day) + s /\ 3 <= d /\ d < DaysBefore(200)
  <2>1. now \in {last, now}
    OBVIOUS
  <2> QED BY <2>1, Looked
<1>3. PICK e \in Nat, v \in 0..(Day - 1) :
        last + zone = (e * Day) + v /\ 3 <= e /\ e < DaysBefore(200)
  <2>1. last \in {last, now}
    OBVIOUS
  <2> QED BY <2>1, Looked
<1>4. Dated(l, d, s) /\ Dated(r, e, v)
  <2> HIDE DEF l, r
  <2> QED BY <1>2, <1>3, LookedUp DEF l, r
<1>5. (now + zone) \div Day = d /\ (last + zone) \div Day = e
  <2> DEFINE t == now + zone
             u == last + zone
  <2>1. t = (d * Day) + s /\ u = (e * Day) + v /\ Day \in Nat \ {0}
    BY <1>2, <1>3, DayIs
  <2> HIDE DEF t, u
  <2>2. t \div Day = d
    BY <2>1, DivModUnique
  <2>3. u \div Day = e
    BY <2>1, DivModUnique
  <2> QED BY <2>2, <2>3 DEF t, u
<1>6. e <= d
  <2>1. e * Day \in Int /\ d * Day \in Int
    BY DayIs
  <2>2. e * Day <= (d * Day) + s
    BY <1>1, <1>2, <1>3, <2>1, DayIs
  <2> QED BY <1>2, <1>3, <2>2, Unscaled
<1> HIDE DEF l, r
<1>7. /\ (l.year = r.year /\ l.yday > r.yday) \/ l.year > r.year <=> d > e
      /\ (l.year = r.year /\ l.yday < r.yday) \/ l.year < r.year <=> d < e
      /\ d = e <=> l.yday = r.yday /\ l.year = r.year
  BY <1>4, DaysCompare
<1>8. /\ (r.year = l.year /\ r.yday > l.yday) \/ r.year > l.year <=> e > d
      /\ (r.year = l.year /\ r.yday < l.yday) \/ r.year < l.year <=> e < d
  BY <1>4, DaysCompare
<1>9. /\ IsBigDay(now, last) <=> d > e
      /\ IsSmallDay(now, last) <=> d < e
      /\ IsBigDay(last, now) <=> e > d
      /\ IsSmallDay(last, now) <=> e < d
  BY <1>7, <1>8 DEF IsBigDay, IsSmallDay, l, r
<1>10. ~IsBigDay(last, now) /\ ~IsSmallDay(now, last)
  BY <1>2, <1>3, <1>6, <1>9
<1>11. /\ d = e => IsSameDay(now, last)
       /\ IsSameDay(now, last) /\ SameYear(r) => d = e
  <2>1. IsSameDay(now, last) <=> l.yday = r.yday
    BY DEF IsSameDay, l, r
  <2>2. SameYear(r) <=> r.year = l.year
    BY DEF SameYear, tmNow, l
  <2> QED BY <1>7, <2>1, <2>2
<1> QED BY <1>5, <1>9, <1>10, <1>11 DEF DaysAreOrdered, r

LEMMA CalendarStarts ==
    ASSUME CalendarInit
    PROVE  CalendarTyped
BY CalendarAssumption DEF CalendarInit, CalendarTyped

LEMMA CalendarSteps ==
    ASSUME CalendarTyped, [CalendarNext]_calendarvars
    PROVE  CalendarTyped'
<1>1. CASE Look
  <2>1. PICK step \in Steps : now + step <= Until /\ now' = now + step
    BY <1>1 DEF Look
  <2>2. last' = now /\ zone' = zone
    BY <1>1 DEF Look
  <2>3. zone \in Zones /\ now \in Int /\ last \in Int /\ last <= now /\ now <= Until /\ 3 * Day <= last + zone
    BY DEF CalendarTyped
  <2>4. step \in Nat /\ zone \in Int /\ 3 * Day \in Int
    BY <2>1, <2>3, CalendarAssumption, DayIs
  <2>5. now' \in Int /\ now' <= Until /\ last' <= now' /\ 3 * Day <= last' + zone'
    BY <2>1, <2>2, <2>3, <2>4
  <2> QED BY <2>2, <2>3, <2>5 DEF CalendarTyped
<1>2. CASE UNCHANGED calendarvars
  BY <1>2 DEF calendarvars, CalendarTyped
<1> QED BY <1>1, <1>2 DEF CalendarNext

\* The beginnings, the ends of the months but December, and the order of days are
\* those of the calendar in every zone, at every second from the first Sunday of
\* 1970 to the end of 2099.
THEOREM CalendarHolds == CalendarSpec => []CalendarIsRight
<1>1. CalendarInit => CalendarTyped
  BY CalendarStarts
<1>2. CalendarTyped /\ [CalendarNext]_calendarvars => CalendarTyped'
  BY CalendarSteps
<1>3. CalendarTyped => CalendarIsRight
  BY BeginningsHold, EndsHold, DaysHold DEF CalendarIsRight
<1> QED BY <1>1, <1>2, <1>3, PTL DEF CalendarSpec

\* The exception of EndsAreWhereTheyAre: at no time does the code return the end of
\* the year, or of December, but the last second of the year before
\* (utility.cpp:694 and 715, contrary to utility.h:120 and 124).
THEOREM YearEndsAreEarly == CalendarSpec => []YearsEndEarly
<1>1. CalendarInit => CalendarTyped
  BY CalendarStarts
<1>2. CalendarTyped /\ [CalendarNext]_calendarvars => CalendarTyped'
  BY CalendarSteps
<1>3. CalendarTyped => YearsEndEarly
  BY EndsHold
<1> QED BY <1>1, <1>2, <1>3, PTL DEF CalendarSpec
-----------------------------------------------------------------------------
(* SplitString *)

\* A piece with the separator before it, if it is not the first.
Separated(p, sep) == [i \in 1..Len(p) |-> IF i = 1 THEN p[i] ELSE sep \o p[i]]

LEMMA SeparatedIs ==
    ASSUME NEW sep \in Seq(Chars), NEW p \in Seq(Seq(Chars))
    PROVE  /\ Separated(p, sep) \in Seq(Seq(Chars)) /\ Len(Separated(p, sep)) = Len(p) /\ Len(p) \in Nat
           /\ \A i \in 1..Len(p) : Separated(p, sep)[i] = IF i = 1 THEN p[i] ELSE sep \o p[i]
<1> DEFINE X == Seq(Chars)
           n == Len(p)
           q == Separated(p, sep)
<1>1. n \in Nat /\ \A i \in 1..n : p[i] \in X
  BY LenProperties, ElementOfSeq
<1>2. \A x \in X : sep \o x \in X
  BY ConcatProperties
<1>3. q = [i \in 1..n |-> IF i = 1 THEN p[i] ELSE sep \o p[i]]
  BY DEF Separated
<1> HIDE DEF X, n, q
<1>4. q \in [1..n -> X] /\ \A i \in 1..n : q[i] = IF i = 1 THEN p[i] ELSE sep \o p[i]
  BY <1>1, <1>2, <1>3
<1>5. q \in Seq(X)
  BY <1>1, <1>4, SeqDef
<1>6. Len(q) = n
  BY <1>1, <1>4, <1>5, LenProperties
<1> QED BY <1>1, <1>4, <1>5, <1>6 DEF X, n, q

LEMMA JoinedIs ==
    ASSUME NEW sep \in Seq(Chars), NEW p \in Seq(Seq(Chars))
    PROVE  \E u : UpTo(u, Separated(p, sep), Chars) /\ Joined(p, sep) = u[Len(p)]
<1> DEFINE upTo[i \in 0..Len(p)] ==
             IF i = 0 THEN <<>> ELSE upTo[i - 1] \o IF i = 1 THEN p[i] ELSE sep \o p[i]
           q == Separated(p, sep)
           F(f) == [i \in 0..Len(p) |->
                      IF i = 0 THEN <<>> ELSE f[i - 1] \o IF i = 1 THEN p[i] ELSE sep \o p[i]]
<1>1. q \in Seq(Seq(Chars)) /\ Len(q) = Len(p) /\ Len(p) \in Nat
      /\ \A i \in 1..Len(p) : q[i] = IF i = 1 THEN p[i] ELSE sep \o p[i]
  BY SeparatedIs
<1>2. Joined(p, sep) = upTo[Len(p)]
  BY DEF Joined
<1>3. upTo = CHOOSE f : f = F(f)
  BY DEF upTo
<1> HIDE DEF upTo, q
<1>4. ASSUME NEW f PROVE F(f) = UpToFrom(f, q)
  <2>1. \A i \in 0..Len(p) : i # 0 => i \in 1..Len(p)
    BY <1>1
  <2> QED BY <1>1, <2>1 DEF UpToFrom
<1> HIDE DEF F
<1>5. PICK g : g = UpToFrom(g, q)
  BY <1>1, UpToExists
<1>6. g = F(g)
  BY <1>4, <1>5
<1>7. upTo = F(upTo)
  BY <1>3, <1>6
<1>8. upTo = UpToFrom(upTo, q)
  BY <1>4, <1>7
<1>9. UpTo(upTo, q, Chars)
  BY <1>1, <1>8, UpToIs
<1> QED BY <1>2, <1>9 DEF q

\* One more piece goes behind the others and a separator.
LEMMA JoinedMore ==
    ASSUME NEW sep \in Seq(Chars), NEW p \in Seq(Seq(Chars)), NEW x \in Seq(Chars)
    PROVE  /\ Joined(p, sep) \in Seq(Chars)
           /\ p = <<>> => Joined(Append(p, x), sep) = x
           /\ p # <<>> => Joined(Append(p, x), sep) = Joined(p, sep) \o (sep \o x)
<1> DEFINE r == Append(p, x)
           n == Len(p)
           X == Seq(Chars)
           sp == Separated(p, sep)
           sr == Separated(r, sep)
<1>1. r \in Seq(X) /\ Len(r) = n + 1 /\ r[n + 1] = x /\ (\A i \in 1..n : r[i] = p[i]) /\ n \in Nat
      /\ x \in X
  BY AppendProperties, LenProperties
<1>2. /\ sp \in Seq(X) /\ Len(sp) = n
      /\ \A i \in 1..n : sp[i] = IF i = 1 THEN p[i] ELSE sep \o p[i]
  BY SeparatedIs
<1>3. /\ Len(sr) = n + 1
      /\ \A i \in 1..(n + 1) : sr[i] = IF i = 1 THEN r[i] ELSE sep \o r[i]
  <2> HIDE DEF r, n, X
  <2>1. r \in Seq(Seq(Chars))
    BY <1>1 DEF X
  <2>2. Len(Separated(r, sep)) = Len(r)
        /\ \A i \in 1..Len(r) : Separated(r, sep)[i] = IF i = 1 THEN r[i] ELSE sep \o r[i]
    BY <2>1, SeparatedIs
  <2> QED BY <1>1, <2>2
<1>4. PICK u : UpTo(u, sp, Chars) /\ Joined(p, sep) = u[n]
  BY JoinedIs
<1>5. PICK w : UpTo(w, sr, Chars) /\ Joined(r, sep) = w[n + 1]
  <2> HIDE DEF r, n
  <2>1. r \in Seq(Seq(Chars))
    BY <1>1
  <2>2. \E w : UpTo(w, Separated(r, sep), Chars) /\ Joined(r, sep) = w[Len(r)]
    BY <2>1, JoinedIs
  <2> QED BY <1>1, <2>2
<1> HIDE DEF r, n, X, sp, sr
<1>6. u \in [0..n -> X] /\ u[0] = <<>> /\ \A k \in 1..n : u[k] = u[k - 1] \o sp[k]
  BY <1>2, <1>4 DEF UpTo, X
<1>7. w \in [0..(n + 1) -> X] /\ w[0] = <<>> /\ \A k \in 1..(n + 1) : w[k] = w[k - 1] \o sr[k]
  BY <1>3, <1>5 DEF UpTo, X
<1>8. ASSUME NEW i \in 1..n PROVE sp[i] = sr[i] /\ i \in 1..(n + 1)
  <2>1. i \in 1..(n + 1)
    BY <1>1
  <2>2. r[i] = p[i]
    BY <1>1
  <2>3. sp[i] = IF i = 1 THEN p[i] ELSE sep \o p[i]
    BY <1>2
  <2>4. sr[i] = IF i = 1 THEN r[i] ELSE sep \o r[i]
    BY <1>3, <2>1
  <2> QED BY <2>1, <2>2, <2>3, <2>4
<1>9. \A i \in 0..n : u[i] = w[i]
  <2> DEFINE T == {i \in 0..n : u[i] = w[i]}
  <2>1. 0 \in T
    <3>1. 0 \in 0..n
      BY <1>1
    <3> QED BY <1>6, <1>7, <3>1
  <2>2. ASSUME NEW i \in 1..n, i - 1 \in T PROVE i \in T
    <3>1. u[i - 1] = w[i - 1]
      BY <2>2
    <3>2. u[i] = u[i - 1] \o sp[i]
      BY <1>6
    <3>3. w[i] = w[i - 1] \o sr[i]
      BY <1>7, <1>8
    <3>4. u[i] = w[i]
      BY <1>8, <3>1, <3>2, <3>3
    <3>5. i \in 0..n
      BY <1>1
    <3> QED BY <3>4, <3>5
  <2>3. T \in SUBSET (0..n)
    OBVIOUS
  <2>4. T = 0..n
    <3> HIDE DEF T
    <3> QED BY <1>1, <2>1, <2>2, <2>3, Induction
  <2> QED BY <2>4
<1>10. n \in 0..n /\ n + 1 \in 1..(n + 1) /\ (n + 1) - 1 = n
  BY <1>1
<1>11. Joined(p, sep) \in X /\ Joined(r, sep) = Joined(p, sep) \o sr[n + 1]
  <2>1. w[n + 1] = w[n] \o sr[n + 1]
    <3>1. w[n + 1] = w[(n + 1) - 1] \o sr[n + 1]
      BY <1>7, <1>10
    <3> QED BY <1>10, <3>1
  <2>2. u[n] \in X /\ u[n] = w[n]
    BY <1>6, <1>9, <1>10
  <2> QED BY <1>4, <1>5, <2>1, <2>2
<1>12. CASE p = <<>>
  <2>1. n = 0
    BY <1>12 DEF n
  <2>2. sr[n + 1] = x /\ Joined(p, sep) = <<>>
    BY <1>1, <1>3, <1>4, <1>6, <1>10, <2>1
  <2>3. <<>> \o x = x
    BY <1>1 DEF X
  <2> QED BY <1>11, <1>12, <2>2, <2>3 DEF X, r
<1>13. CASE p # <<>>
  <2>1. n + 1 # 1
    BY <1>1, <1>13, EmptySeq DEF n
  <2>2. sr[n + 1] = sep \o x
    BY <1>1, <1>3, <1>10, <2>1
  <2> QED BY <1>11, <1>13, <2>2 DEF X, r
<1> QED BY <1>12, <1>13

SplitTyped ==
    /\ str \in Seq(Chars) /\ spt \in Seq(Chars) /\ st \in Seq(Chars)
    /\ list \in Seq(Seq(Chars)) /\ done \in BOOLEAN

SplitInv == SplitTyped /\ PiecesJoin

\* The first place of a separator cuts a string in three, and the part before it
\* holds none.
LEMMA FindIs ==
    ASSUME NEW s \in Seq(Chars), NEW t \in Seq(Chars), Found(s, t) # {}
    PROVE  /\ SubSeq(s, 1, Find(s, t)) \in Seq(Chars)
           /\ SubSeq(s, Find(s, t) + Len(t) + 1, Len(s)) \in Seq(Chars)
           /\ s = SubSeq(s, 1, Find(s, t)) \o (t \o SubSeq(s, Find(s, t) + Len(t) + 1, Len(s)))
           /\ t # <<>> => Found(SubSeq(s, 1, Find(s, t)), t) = {}
<1> DEFINE F == Found(s, t)
           p == Find(s, t)
           l == Len(t)
           n == Len(s)
           m == n - (p + l)
           a == SubSeq(s, 0 + 1, 0 + p)
           c == SubSeq(s, (p + l) + 1, (p + l) + m)
<1>1. n \in Nat /\ l \in Nat
  BY LenProperties
<1>2. F \in SUBSET Nat /\ \A q \in F : q \in 0..(n - l) /\ SubSeq(s, q + 1, q + l) = t
  BY <1>1 DEF Found
<1>3. p \in F /\ \A q \in F : p <= q
  <2>1. p = CHOOSE x \in F : \A q \in F : x <= q
    BY DEF Find
  <2>2. F # {}
    OBVIOUS
  <2> HIDE DEF F, p
  <2>3. PICK x \in F : \A q \in F : x <= q
    BY <1>2, <2>2, LeastNat
  <2> QED BY <2>1, <2>3
<1> HIDE DEF p, l, n
<1>4. p \in Nat /\ p + l <= n /\ SubSeq(s, p + 1, p + l) = t /\ m \in Nat /\ (p + l) + m = n
      /\ p + l \in Nat /\ 0 + p <= n /\ 0 + 1 = 1 /\ 0 + p = p
  <2>1. p \in 0..(n - l) /\ SubSeq(s, p + 1, p + l) = t
    BY <1>2, <1>3
  <2> HIDE DEF F
  <2> QED BY <1>1, <2>1
<1> HIDE DEF m, F
<1>5. a \in Seq(Chars) /\ Len(a) = p /\ \A i \in 1..p : a[i] = s[0 + i]
  BY <1>4, SubSeqIs DEF n
<1>6. c \in Seq(Chars) /\ Len(c) = m /\ \A i \in 1..m : c[i] = s[(p + l) + i]
  <2> DEFINE k == p + l
  <2>1. k \in Nat /\ m \in Nat /\ k + m <= Len(s)
    BY <1>1, <1>4 DEF n
  <2> HIDE DEF k
  <2>2. SubSeq(s, k + 1, k + m) \in Seq(Chars) /\ Len(SubSeq(s, k + 1, k + m)) = m
        /\ \A i \in 1..m : SubSeq(s, k + 1, k + m)[i] = s[k + i]
    BY <2>1, SubSeqIs
  <2> QED BY <2>2 DEF k
<1>7. \A i \in 1..l : t[i] = s[p + i]
  BY <1>1, <1>4, SubSeqIs DEF n
<1>8. a = SubSeq(s, 1, p) /\ c = SubSeq(s, p + l + 1, n)
  BY <1>4
<1> HIDE DEF a, c
<1>9. s = a \o (t \o c)
  <2> DEFINE tc == t \o c
             u == a \o tc
  <2>1. tc \in Seq(Chars) /\ Len(tc) = l + m
        /\ \A i \in 1..(l + m) : tc[i] = IF i <= l THEN t[i] ELSE c[i - l]
    <3>1. tc \in Seq(Chars) /\ Len(tc) = Len(t) + Len(c)
          /\ \A i \in 1..(Len(t) + Len(c)) : tc[i] = IF i <= Len(t) THEN t[i] ELSE c[i - Len(t)]
      BY <1>6, ConcatProperties
    <3> QED BY <1>6, <3>1 DEF l
  <2> HIDE DEF tc
  <2>2. u \in Seq(Chars) /\ Len(u) = p + (l + m)
        /\ \A i \in 1..(p + (l + m)) : u[i] = IF i <= p THEN a[i] ELSE tc[i - p]
    <3>1. u \in Seq(Chars) /\ Len(u) = Len(a) + Len(tc)
          /\ \A i \in 1..(Len(a) + Len(tc)) : u[i] = IF i <= Len(a) THEN a[i] ELSE tc[i - Len(a)]
      BY <1>5, <2>1, ConcatProperties
    <3> QED BY <1>5, <2>1, <3>1
  <2> HIDE DEF u
  <2>3. p + (l + m) = n
    BY <1>1, <1>4
  <2>4. ASSUME NEW i \in 1..n PROVE u[i] = s[i]
    <3>1. CASE i <= p
      <4>1. i \in 1..p /\ 0 + i = i
        BY <1>1, <1>4, <3>1
      <4> QED BY <1>5, <2>2, <2>3, <3>1, <4>1
    <3>2. CASE ~(i <= p) /\ i <= p + l
      <4> DEFINE j == i - p
      <4>1. j \in 1..l /\ j \in 1..(l + m) /\ j <= l /\ p + j = i
        BY <1>1, <1>4, <3>2
      <4>2. u[i] = tc[j]
        BY <2>2, <2>3, <3>2
      <4> HIDE DEF j
      <4> QED BY <1>7, <2>1, <4>1, <4>2
    <3>3. CASE ~(i <= p + l)
      <4> DEFINE j == i - p
      <4>1. j \in 1..(l + m) /\ ~(j <= l) /\ j - l \in 1..m /\ (p + l) + (j - l) = i /\ ~(i <= p)
        BY <1>1, <1>4, <3>3
      <4>2. u[i] = tc[j]
        BY <2>2, <2>3, <4>1
      <4> HIDE DEF j
      <4>3. tc[j] = c[j - l]
        BY <2>1, <4>1
      <4>4. c[j - l] = s[(p + l) + (j - l)]
        BY <1>6, <4>1
      <4> QED BY <4>1, <4>2, <4>3, <4>4
    <3> QED BY <3>1, <3>2, <3>3
  <2>5. u = s
    <3>1. Len(u) = Len(s)
      BY <2>2, <2>3 DEF n
    <3>2. \A i \in 1..Len(u) : u[i] = s[i]
      BY <2>2, <2>3, <2>4
    <3> QED BY <2>2, <3>1, <3>2, EqualSeqs
  <2> QED BY <2>5 DEF u, tc
<1>10. ASSUME t # <<>> PROVE Found(a, t) = {}
  <2> SUFFICES ASSUME NEW q \in Found(a, t) PROVE FALSE
    OBVIOUS
  <2>1. l # 0
    BY <1>10, EmptySeq DEF l
  <2>2. q \in 0..(p - l) /\ SubSeq(a, q + 1, q + l) = t
    BY <1>5 DEF Found, l
  <2>3. q \in Nat /\ q + l <= p /\ q + l <= n /\ q \in 0..(n - l) /\ ~(p <= q)
    BY <1>1, <1>4, <2>1, <2>2
  <2>4. Len(SubSeq(a, q + 1, q + l)) = l /\ \A i \in 1..l : SubSeq(a, q + 1, q + l)[i] = a[q + i]
    BY <1>1, <1>5, <2>3, SubSeqIs
  <2>5. SubSeq(s, q + 1, q + l) \in Seq(Chars) /\ Len(SubSeq(s, q + 1, q + l)) = l
        /\ \A i \in 1..l : SubSeq(s, q + 1, q + l)[i] = s[q + i]
    BY <1>1, <2>3, SubSeqIs DEF n
  <2>6. ASSUME NEW i \in 1..l PROVE SubSeq(s, q + 1, q + l)[i] = t[i]
    <3>1. q + i \in 1..p /\ 0 + (q + i) = q + i
      BY <1>1, <1>4, <2>3
    <3>2. a[q + i] = s[q + i]
      BY <1>5, <3>1
    <3> QED BY <2>2, <2>4, <2>5, <3>2
  <2>7. SubSeq(s, q + 1, q + l) = t
    <3> DEFINE v == SubSeq(s, q + 1, q + l)
    <3>1. v \in Seq(Chars) /\ Len(v) = Len(t) /\ \A i \in 1..Len(v) : v[i] = t[i]
      BY <2>5, <2>6 DEF l
    <3> HIDE DEF v
    <3>2. v = t
      BY <3>1, EqualSeqs
    <3> QED BY <3>2 DEF v
  <2>8. q \in F
    BY <2>3, <2>7 DEF F, Found, n, l
  <2> QED BY <1>3, <2>3, <2>8
<1> QED BY <1>5, <1>6, <1>8, <1>9, <1>10 DEF p, l, n

LEMMA SplitStarts ==
    ASSUME SplitInit
    PROVE  SplitInv
<1>1. ASSUME NEW k \in Nat, NEW s \in StringsUpTo(k) PROVE s \in Seq(Chars)
  <2>1. PICK n \in 0..k : s \in [1..n -> Chars]
    BY DEF StringsUpTo
  <2> QED BY <2>1, SeqDef
<1>2. str \in Seq(Chars) /\ spt \in Seq(Chars) /\ st = str /\ list = <<>> /\ done = FALSE
  BY <1>1, SplitAssumption DEF SplitInit
<1>3. SplitTyped
  <2>1. list \in Seq(Seq(Chars))
    <3> DEFINE X == Seq(Chars)
    <3> HIDE DEF X
    <3>1. <<>> \in Seq(X)
      BY EmptySeq
    <3> QED BY <1>2, <3>1 DEF X
  <2>2. st \in Seq(Chars)
    BY <1>2
  <2>3. done \in BOOLEAN
    BY <1>2
  <2> QED BY <1>2, <2>1, <2>2, <2>3 DEF SplitTyped
<1>4. PiecesJoin
  <2>1. Joined(Append(<<>>, str), spt) = str
    <3>1. <<>> \in Seq(Seq(Chars))
      OBVIOUS
    <3> QED BY <1>2, <3>1, JoinedMore
  <2>2. DOMAIN list = {}
    BY <1>2
  <2> QED BY <1>2, <2>1, <2>2 DEF PiecesJoin
<1> QED BY <1>3, <1>4 DEF SplitInv

\* A piece is cut off: the pieces and what is left still join to the string.
LEMMA NextPieceKeepsAll ==
    ASSUME SplitInv, NextPiece
    PROVE  SplitInv'
<1> DEFINE p == Find(st, spt)
           a == SubSeq(st, 1, p)
           c == SubSeq(st, p + Len(spt) + 1, Len(st))
<1>1. str \in Seq(Chars) /\ spt \in Seq(Chars) /\ st \in Seq(Chars) /\ list \in Seq(Seq(Chars))
  BY DEF SplitInv, SplitTyped
<1>2. ~done /\ Found(st, spt) # {} /\ list' = Append(list, a) /\ st' = c
      /\ UNCHANGED <<str, spt, done>>
  BY DEF NextPiece
<1>3. a \in Seq(Chars) /\ c \in Seq(Chars) /\ st = a \o (spt \o c)
      /\ (spt # <<>> => Found(a, spt) = {})
  BY <1>1, <1>2, FindIs
<1> HIDE DEF a, c, p
<1>4. /\ list' \in Seq(Seq(Chars)) /\ Len(list') = Len(list) + 1 /\ Len(list) \in Nat
      /\ list'[Len(list) + 1] = a /\ \A i \in 1..Len(list) : list'[i] = list[i]
      /\ DOMAIN list = 1..Len(list) /\ DOMAIN list' = 1..(Len(list) + 1)
  <2> DEFINE X == Seq(Chars)
  <2>1. list \in Seq(X) /\ a \in X
    BY <1>1, <1>3
  <2> HIDE DEF X
  <2>2. /\ Append(list, a) \in Seq(X) /\ Len(Append(list, a)) = Len(list) + 1 /\ Len(list) \in Nat
        /\ Append(list, a)[Len(list) + 1] = a /\ \A i \in 1..Len(list) : Append(list, a)[i] = list[i]
    BY <2>1, AppendProperties, LenProperties
  <2>3. DOMAIN list = 1..Len(list) /\ DOMAIN Append(list, a) = 1..Len(Append(list, a))
    BY <2>1, <2>2, LenProperties
  <2> QED BY <1>2, <2>2, <2>3 DEF X
<1>5. SplitTyped'
  BY <1>1, <1>2, <1>3, <1>4 DEF SplitInv, SplitTyped
<1>6. Joined(Append(list', c), spt) = str
  <2>1. list' # <<>>
    BY <1>4
  <2>2. Joined(Append(list', c), spt) = Joined(list', spt) \o (spt \o c)
    <3> DEFINE r == list'
    <3>1. r \in Seq(Seq(Chars)) /\ r # <<>>
      BY <1>4, <2>1
    <3> HIDE DEF r
    <3>2. Joined(Append(r, c), spt) = Joined(r, spt) \o (spt \o c)
      BY <1>1, <1>3, <3>1, JoinedMore
    <3> QED BY <3>2 DEF r
  <2>3. Joined(Append(list, st), spt) = str
    BY <1>2 DEF SplitInv, PiecesJoin
  <2>4. CASE list = <<>>
    <3>1. Joined(list', spt) = a /\ Joined(Append(list, st), spt) = st
      BY <1>1, <1>2, <1>3, <2>4, JoinedMore
    <3> QED BY <1>3, <2>2, <2>3, <3>1
  <2>5. CASE list # <<>>
    <3> DEFINE j == Joined(list, spt)
               d == spt \o c
               e == spt \o a
    <3>1. j \in Seq(Chars) /\ Joined(list', spt) = j \o (spt \o a) /\ Joined(Append(list, st), spt) = j \o (spt \o st)
      BY <1>1, <1>2, <1>3, <2>5, JoinedMore
    <3>2. d \in Seq(Chars) /\ e \in Seq(Chars)
      BY <1>1, <1>3, ConcatProperties
    <3> HIDE DEF d, j
    <3>4. e \o d = spt \o (a \o d)
      <4>1. spt \in Seq(Chars) /\ a \in Seq(Chars) /\ d \in Seq(Chars)
        BY <1>1, <1>3, <3>2
      <4> QED BY ONLY <4>1, ConcatAssociative DEF e
    <3> HIDE DEF e
    <3>3. (j \o e) \o d = j \o (e \o d)
      BY <3>1, <3>2, ConcatAssociative
    <3>7. Joined(list', spt) = j \o e
      BY <3>1 DEF e
    <3>5. a \o d = st
      BY <1>3 DEF d
    <3>6. Joined(Append(list', c), spt) = Joined(list', spt) \o d
      BY <2>2 DEF d
    <3> QED BY <2>3, <3>1, <3>3, <3>4, <3>5, <3>6, <3>7
  <2> QED BY <2>4, <2>5
<1>7. spt # <<>> => \A i \in 1..(Len(list) + 1) : Found(list'[i], spt) = {}
  <2> SUFFICES ASSUME spt # <<>>, NEW i \in 1..(Len(list) + 1) PROVE Found(list'[i], spt) = {}
    OBVIOUS
  <2>1. CASE i = Len(list) + 1
    BY <1>3, <1>4, <2>1
  <2>2. CASE i # Len(list) + 1
    <3>1. i \in 1..Len(list)
      BY <1>4, <2>2
    <3>2. Found(list[i], spt) = {}
      BY <1>4, <3>1 DEF SplitInv, PiecesJoin
    <3> QED BY <1>4, <3>1, <3>2
  <2> QED BY <2>1, <2>2
<1>8. PiecesJoin'
  <2>1. done' = FALSE /\ spt' = spt /\ str' = str
    BY <1>1, <1>2 DEF SplitInv, SplitTyped
  <2>2. (IF done' THEN list' ELSE Append(list', st')) = Append(list', c)
    BY <1>2, <2>1
  <2> QED BY <1>4, <1>6, <1>7, <2>1, <2>2 DEF PiecesJoin
<1> QED BY <1>5, <1>8 DEF SplitInv

LEMMA LastPieceKeepsAll ==
    ASSUME SplitInv, LastPiece
    PROVE  SplitInv'
<1>1. str \in Seq(Chars) /\ spt \in Seq(Chars) /\ st \in Seq(Chars) /\ list \in Seq(Seq(Chars))
  BY DEF SplitInv, SplitTyped
<1>2. ~done /\ Found(st, spt) = {} /\ list' = Append(list, st) /\ done' = TRUE
      /\ UNCHANGED <<str, spt, st>>
  BY DEF LastPiece
<1>3. /\ list' \in Seq(Seq(Chars)) /\ Len(list') = Len(list) + 1 /\ Len(list) \in Nat
      /\ list'[Len(list) + 1] = st /\ \A i \in 1..Len(list) : list'[i] = list[i]
      /\ DOMAIN list = 1..Len(list) /\ DOMAIN list' = 1..(Len(list) + 1)
  <2> DEFINE X == Seq(Chars)
  <2>1. list \in Seq(X) /\ st \in X
    BY <1>1
  <2> HIDE DEF X
  <2>2. /\ Append(list, st) \in Seq(X) /\ Len(Append(list, st)) = Len(list) + 1 /\ Len(list) \in Nat
        /\ Append(list, st)[Len(list) + 1] = st
        /\ \A i \in 1..Len(list) : Append(list, st)[i] = list[i]
    BY <2>1, AppendProperties, LenProperties
  <2>3. DOMAIN list = 1..Len(list) /\ DOMAIN Append(list, st) = 1..Len(Append(list, st))
    BY <2>1, <2>2, LenProperties
  <2> QED BY <1>2, <2>2, <2>3 DEF X
<1>4. SplitTyped'
  BY <1>1, <1>2, <1>3 DEF SplitTyped
\* An empty separator would be found.
<1>5. spt # <<>>
  <2> SUFFICES ASSUME spt = <<>> PROVE FALSE
    OBVIOUS
  <2>1. Len(spt) = 0 /\ Len(st) \in Nat
    BY <1>1, LenProperties
  <2>2. 0 \in Nat /\ 0 + 0 <= Len(st) /\ 0 + 0 = 0
    BY <2>1
  <2>3. SubSeq(st, 0 + 1, 0 + 0) \in Seq(Chars) /\ Len(SubSeq(st, 0 + 1, 0 + 0)) = 0
    BY <1>1, <2>2, SubSeqIs
  <2>4. SubSeq(st, 0 + 1, 0 + 0) = spt
    BY <2>3, EmptySeq
  <2>5. 0 \in Found(st, spt)
    BY <2>1, <2>2, <2>4 DEF Found
  <2> QED BY <1>2, <2>5
<1>6. \A i \in 1..(Len(list) + 1) : Found(list'[i], spt) = {}
  <2> SUFFICES ASSUME NEW i \in 1..(Len(list) + 1) PROVE Found(list'[i], spt) = {}
    OBVIOUS
  <2>1. CASE i = Len(list) + 1
    BY <1>2, <1>3, <2>1
  <2>2. CASE i # Len(list) + 1
    <3>1. i \in 1..Len(list)
      BY <1>3, <2>2
    <3>2. Found(list[i], spt) = {}
      BY <1>3, <1>5, <3>1 DEF SplitInv, PiecesJoin
    <3> QED BY <1>3, <3>1, <3>2
  <2> QED BY <2>1, <2>2
<1>7. PiecesJoin'
  <2>1. Joined(list', spt) = str
    BY <1>2 DEF SplitInv, PiecesJoin
  <2>2. (IF done' THEN list' ELSE Append(list', st')) = list' /\ spt' = spt /\ str' = str
    BY <1>2
  <2> QED BY <1>3, <1>5, <1>6, <2>1, <2>2 DEF PiecesJoin
<1> QED BY <1>4, <1>7 DEF SplitInv

LEMMA SplitSteps ==
    ASSUME SplitInv, [SplitNext]_splitvars
    PROVE  SplitInv'
<1>1. CASE NextPiece
  BY <1>1, NextPieceKeepsAll
<1>2. CASE LastPiece
  BY <1>2, LastPieceKeepsAll
<1>3. CASE UNCHANGED splitvars
  BY <1>3 DEF splitvars, SplitInv, SplitTyped, PiecesJoin
<1> QED BY <1>1, <1>2, <1>3 DEF SplitNext

\* The pieces of SplitString and the separators between them are the string, and no
\* piece holds a separator, whatever the string and the separator are.
THEOREM StringIsSplit == SplitSpec => []PiecesJoin
<1>1. SplitInit => SplitInv
  BY SplitStarts
<1>2. SplitInv /\ [SplitNext]_splitvars => SplitInv'
  BY SplitSteps
<1>3. SplitInv => PiecesJoin
  BY DEF SplitInv
<1> QED BY <1>1, <1>2, <1>3, PTL DEF SplitSpec

-----------------------------------------------------------------------------
(* The parts of the library side by side *)

LEMMA PartsStep ==
    ASSUME [LibNext]_libvars
    PROVE  /\ [Next]_vars /\ [BufferNext]_buffervars /\ [PtrNext]_ptrvars
           /\ [CalendarNext]_calendarvars /\ [UIntNext]_uintvars /\ [SplitNext]_splitvars
           /\ [Md5Next]_md5vars /\ [UdpNext]_udpvars
<1>1. CASE UNCHANGED libvars
  BY <1>1 DEF libvars, pagevars
<1>2. CASE Page /\ UNCHANGED <<buffervars, ptrvars, calendarvars, uintvars, splitvars, md5vars, udpvars>>
  BY <1>2 DEF Page
<1>3. CASE Buffer /\ UNCHANGED <<pagevars, ptrvars, calendarvars, uintvars, splitvars, md5vars, udpvars>>
  BY <1>3 DEF Buffer, pagevars
<1>4. CASE Pointer /\ UNCHANGED <<pagevars, buffervars, calendarvars, uintvars, splitvars, md5vars, udpvars>>
  BY <1>4 DEF Pointer, pagevars
<1>5. CASE Dates /\ UNCHANGED <<pagevars, buffervars, ptrvars, uintvars, splitvars, md5vars, udpvars>>
  BY <1>5 DEF Dates, pagevars
<1>6. CASE Counter /\ UNCHANGED <<pagevars, buffervars, ptrvars, calendarvars, splitvars, md5vars, udpvars>>
  BY <1>6 DEF Counter, pagevars
<1>7. CASE Split /\ UNCHANGED <<pagevars, buffervars, ptrvars, calendarvars, uintvars, md5vars, udpvars>>
  BY <1>7 DEF Split, pagevars
<1>8. CASE Hash /\ UNCHANGED <<pagevars, buffervars, ptrvars, calendarvars, uintvars, splitvars, udpvars>>
  BY <1>8 DEF Hash, pagevars
<1>9. CASE Udp /\ UNCHANGED <<pagevars, buffervars, ptrvars, calendarvars, uintvars, splitvars, md5vars>>
  BY <1>9 DEF Udp, pagevars
<1> QED BY <1>1, <1>2, <1>3, <1>4, <1>5, <1>6, <1>7, <1>8, <1>9 DEF LibNext

\* What TLC runs as one specification is each of the eight parts by its own, so that
\* what is proved of a part holds in the run, and what the run shows of a part does
\* not come from its company.
THEOREM LibraryIsItsParts ==
    LibSpec => /\ Spec /\ BufferSpec /\ PtrSpec /\ CalendarSpec
               /\ UIntSpec /\ SplitSpec /\ Md5Spec /\ UdpSpec
<1>1. LibInit => /\ Init /\ BufferInit /\ PtrInit /\ CalendarInit
                 /\ UIntInit /\ SplitInit /\ Md5Init /\ UdpInit
  BY DEF LibInit
<1>2. [LibNext]_libvars =>
        /\ [Next]_vars /\ [BufferNext]_buffervars /\ [PtrNext]_ptrvars
        /\ [CalendarNext]_calendarvars /\ [UIntNext]_uintvars /\ [SplitNext]_splitvars
        /\ [Md5Next]_md5vars /\ [UdpNext]_udpvars
  BY PartsStep
<1> QED
  BY <1>1, <1>2, PTL DEF LibSpec, Spec, BufferSpec, PtrSpec, CalendarSpec, UIntSpec, SplitSpec,
                         Md5Spec, UdpSpec

\* The functions of utility.cpp (UtilityIsRight): the calendar, the bounded counters
\* and random values, and SplitString, each as it is used alone.
THEOREM UtilityHolds == LibSpec => []UtilityIsRight
<1>1. CalendarIsRight /\ AccountBalances /\ DrawnInRange /\ PiecesJoin => UtilityIsRight
  BY DEF UtilityIsRight
<1> QED
  BY <1>1, LibraryIsItsParts, CalendarHolds, AccountsBalance, DrawsInRange, StringIsSplit, PTL

=============================================================================
