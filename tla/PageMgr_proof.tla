--------------------------- MODULE PageMgr_proof ---------------------------
(***************************************************************************)
(* Proofs about the page lists of CMPageMgr (PageMgr.tla), for any pages,  *)
(* requests, bounds and places of memory.                                  *)
(*                                                                         *)
(* Inv is almost inductive.  What it lacks is where a block may be: only   *)
(* the blocks of a page are ever out (OutOfPage), so that Free is given a  *)
(* block the page accepts, and a page is cut by a manager that exists and  *)
(* has room for a block (HasManager), so that a page which is used up is   *)
(* not idle.  The places of the blocks are arithmetic and come first.      *)
(***************************************************************************)
EXTENDS PageMgr, TLAPS

-----------------------------------------------------------------------------
(* Arithmetic *)

LEMMA DivMod ==
    ASSUME NEW n \in Nat, NEW a \in Nat \ {0}
    PROVE  /\ n \div a \in Nat
           /\ n % a \in 0..(a - 1)
           /\ n = ((n \div a) * a) + (n % a)
OBVIOUS

LEMMA IsMultiple ==
    ASSUME NEW n \in Nat, NEW a \in Nat \ {0}, n % a = 0
    PROVE  \E k \in Nat : n = k * a
<1>1. n \div a \in Nat /\ n = ((n \div a) * a) + 0
  BY DivMod
<1> WITNESS n \div a \in Nat
<1> QED BY <1>1

LEMMA MultipleOf ==
    ASSUME NEW k \in Nat, NEW a \in Nat \ {0}
    PROVE  (k * a) % a = 0
OBVIOUS

LEMMA ProductGrows ==
    ASSUME NEW m \in Nat, NEW n \in Nat, NEW s \in Nat \ {0}, m <= n
    PROVE  m * s \in Nat /\ n * s \in Nat /\ m <= m * s /\ m * s <= n * s
<1>1. n = m + (n - m) /\ n - m \in Nat
  OBVIOUS
<1>2. n * s = m * s + (n - m) * s
  BY <1>1
<1>3. (n - m) * s \in Nat /\ m * s \in Nat /\ m * (s - 1) \in Nat
  BY <1>1
<1>4. m * s = m * (s - 1) + m
  OBVIOUS
<1> QED BY <1>2, <1>3, <1>4

\* A number below a is no multiple of it.
LEMMA NoneBelow ==
    ASSUME NEW n \in Nat \ {0}, NEW a \in Nat \ {0}, n % a = 0
    PROVE  n >= a
<1>1. PICK k \in Nat : n = k * a
  BY IsMultiple
<1>2. k # 0
  BY <1>1
<1>3. 1 * a <= k * a
  BY <1>1, <1>2, ProductGrows
<1> QED BY <1>1, <1>3

\* RoundUp returns the next multiple.
LEMMA RoundUpRight ==
    ASSUME NEW n \in Nat, NEW a \in Nat \ {0}
    PROVE  /\ RoundUp(n, a) \in n..(n + a - 1)
           /\ RoundUp(n, a) % a = 0
<1> DEFINE q == n \div a
           r == n % a
<1>1. q \in Nat /\ r \in 0..(a - 1) /\ n = (q * a) + r
  BY DivMod
<1>2. CASE r = 0
  BY <1>1, <1>2 DEF RoundUp
<1>3. CASE r # 0
  <2>1. RoundUp(n, a) = n + a - r
    BY <1>3 DEF RoundUp
  <2>2. n + a - r = (q + 1) * a
    BY <1>1
  <2>3. ((q + 1) * a) % a = 0
    BY <1>1, MultipleOf
  <2> QED BY <1>1, <1>3, <2>1, <2>2, <2>3
<1> QED BY <1>2, <1>3

LEMMA SumOfMultiples ==
    ASSUME NEW m \in Nat, NEW n \in Nat, NEW a \in Nat \ {0},
           m % a = 0, n % a = 0
    PROVE  (m + n) % a = 0
<1>1. PICK j \in Nat : m = j * a
  BY IsMultiple
<1>2. PICK k \in Nat : n = k * a
  BY IsMultiple
<1>3. m + n = (j + k) * a /\ j + k \in Nat
  BY <1>1, <1>2
<1> QED BY <1>3, MultipleOf

LEMMA ProductOfMultiple ==
    ASSUME NEW m \in Nat, NEW n \in Nat, NEW a \in Nat \ {0}, n % a = 0
    PROVE  (m * n) % a = 0
<1>1. PICK k \in Nat : n = k * a
  BY IsMultiple
<1>2. m * n = (m * k) * a /\ m * k \in Nat
  BY <1>1
<1> QED BY <1>2, MultipleOf

\* A block is as large as its alignment at least, and a multiple of it, so
\* that the blocks of a page can follow each other.
LEMMA SizeIsMultiple ==
    ASSUME NEW r \in Requests
    PROVE  /\ r.size \in Nat \ {0} /\ r.align \in Nat \ {0}
           /\ AlignedSize(r) \in Nat \ {0}
           /\ AlignedSize(r) >= r.align
           /\ AlignedSize(r) % r.align = 0
<1>1. r.size \in Nat \ {0} /\ r.align \in Nat \ {0} /\ PointerBytes \in Nat \ {0}
  BY RequestsAssumption, BytesAssumption
<1> DEFINE n == RoundUp(r.size, r.align)
<1>2. n \in Nat \ {0} /\ n % r.align = 0
  <2>1. n \in r.size..(r.size + r.align - 1) /\ n % r.align = 0
    BY ONLY <1>1, RoundUpRight
  <2> HIDE DEF n
  <2> QED BY <1>1, <2>1
<1>3. n >= r.align
  BY <1>1, <1>2, NoneBelow
<1>4. CASE n < PointerBytes
  <2>1. PointerBytes % r.align = 0
    BY <1>1, <1>2, <1>3, <1>4, AlignAssumption
  <2>2. AlignedSize(r) = PointerBytes
    BY <1>4 DEF AlignedSize
  <2> QED BY <1>1, <1>2, <1>3, <1>4, <2>1, <2>2
<1>5. CASE ~(n < PointerBytes)
  <2>1. AlignedSize(r) = n
    BY <1>5 DEF AlignedSize
  <2> QED BY <1>1, <1>2, <1>3, <2>1
<1> QED BY <1>4, <1>5

\* The blocks of a page, one after the other, fit in what is left of it when
\* the first one has been aligned.
LEMMA CountRight ==
    ASSUME NEW s \in Nat \ {0}, NEW al \in Nat \ {0}
    PROVE  /\ BlockCount(s, al) \in 0..PageBytes
           /\ BlockCount(s, al) * s + al - 1 <= MemoryBytes(s, al)
<1>1. PageBytes \in Nat \ {0}
  BY BytesAssumption
<1>2. CASE TooBig(s, al)
  BY <1>1, <1>2 DEF BlockCount, MemoryBytes
<1>3. CASE ~TooBig(s, al)
  <2> DEFINE room == PageBytes - (al - 1)
             n == room \div s
  <2>1. room \in Nat /\ room <= PageBytes
    BY <1>1, <1>3 DEF TooBig
  <2>2. n \in Nat /\ room % s \in Nat /\ room = (n * s) + (room % s)
    <3> HIDE DEF room
    <3> QED BY ONLY <2>1, s \in Nat \ {0}
  <2> HIDE DEF n
  <2>3. BlockCount(s, al) = n /\ MemoryBytes(s, al) = PageBytes
    BY <1>3 DEF BlockCount, MemoryBytes, n
  <2>4. n <= n * s /\ n * s \in Nat
    BY <2>2, ProductGrows
  <2>5. room + al - 1 = PageBytes
    BY <1>1 DEF room
  <2> HIDE DEF room
  <2> QED BY <1>1, <2>1, <2>2, <2>3, <2>4, <2>5
<1> QED BY <1>2, <1>3

\* Where block b of a page at st is, and that it is in its place.
Place(st, s, al, b) == RoundUp(st, al) + (b - 1) * s

LEMMA WellPlaced ==
    ASSUME NEW st \in Nat, NEW r \in Requests,
           NEW b \in 1..BlockCount(AlignedSize(r), r.align)
    PROVE  LET s == AlignedSize(r)
               at == Place(st, s, r.align, b)
           IN  /\ at % r.align = 0
               /\ at + s <= st + MemoryBytes(s, r.align)
               /\ at < st + s * BlockCount(s, r.align)
<1> DEFINE s == AlignedSize(r)
           al == r.align
           n == BlockCount(s, al)
           up == RoundUp(st, al)
<1>1. s \in Nat \ {0} /\ al \in Nat \ {0} /\ s >= al /\ s % al = 0
  BY SizeIsMultiple
<1>2. n \in Nat /\ n * s + al - 1 <= MemoryBytes(s, al) /\ b \in 1..n
  BY <1>1, CountRight
<1>3. up \in st..(st + al - 1) /\ up % al = 0
  BY <1>1, RoundUpRight
<1>4. (b - 1) * s \in Nat /\ ((b - 1) * s) % al = 0
  <2>1. b - 1 \in Nat
    BY <1>2
  <2> HIDE DEF s, al
  <2>2. (b - 1) * s \in Nat
    BY <1>1, <2>1
  <2> QED BY ONLY <1>1, <2>1, <2>2, ProductOfMultiple
<1> HIDE DEF s, al, n
<1>5. (b - 1) * s + s = b * s /\ b * s <= n * s /\ n * s = s * n
  <2>1. b * s <= n * s
    BY <1>1, <1>2, ProductGrows
  <2>2. (b - 1) * s + s = b * s /\ n * s = s * n
    BY <1>1, <1>2
  <2> QED BY <2>1, <2>2
<1>6. MemoryBytes(s, al) \in Nat
  BY <1>1, BytesAssumption DEF MemoryBytes
<1>7. Place(st, s, al, b) = up + (b - 1) * s
  BY DEF Place
<1>8. (up + (b - 1) * s) % al = 0
  <2>1. up \in Nat
    BY <1>1, <1>3
  <2> QED BY <1>1, <1>3, <1>4, <2>1, SumOfMultiples
<1> HIDE DEF up
<1>9. up + (b - 1) * s + s <= st + MemoryBytes(s, al)
  BY <1>1, <1>2, <1>3, <1>4, <1>5, <1>6
<1>10. up + (b - 1) * s < st + s * n
  BY <1>1, <1>2, <1>3, <1>4, <1>5, <1>6
<1> QED BY <1>7, <1>8, <1>9, <1>10 DEF s, al, n, up

-----------------------------------------------------------------------------
(* The inductive invariant *)

\* A manager that keeps a page was made by a request for its size, and its
\* pages have room for a block.
HasManager ==
    \A s \in Sizes :
        /\ align[s] # 0 => \E r \in Requests : AlignedSize(r) = s /\ align[s] = r.align
        /\ Listed(s) # {} => align[s] # 0 /\ BlocksOf(s) # {}

\* Only the blocks of a page are handed out.
OutOfPage == \A p \in all : out[p] \subseteq BlocksOf(cut[p])

IInv == Inv /\ HasManager /\ OutOfPage

\* A list loses its first page, or gains one at its end.
LEMMA ListLosesHead ==
    ASSUME NEW S, NEW f \in Seq(S), f # <<>>, IsInjective(f)
    PROVE  /\ Tail(f) \in Seq(S) /\ Len(Tail(f)) = Len(f) - 1
           /\ Head(f) \in Range(f)
           /\ Range(Tail(f)) = Range(f) \ {Head(f)}
           /\ IsInjective(Tail(f))
<1>1. /\ Tail(f) \in Seq(S) /\ Len(Tail(f)) = Len(f) - 1
      /\ Len(f) \in Nat \ {0} /\ Head(f) = f[1]
      /\ DOMAIN f = 1..Len(f) /\ DOMAIN Tail(f) = 1..(Len(f) - 1)
      /\ \A i \in 1..(Len(f) - 1) : Tail(f)[i] = f[i + 1]
  OBVIOUS
<1>2. \A i, j \in 1..Len(f) : f[i] = f[j] => i = j
  BY <1>1 DEF IsInjective
<1>3. Range(Tail(f)) \subseteq Range(f) \ {Head(f)}
  BY <1>1, <1>2 DEF Range
<1>4. ASSUME NEW x \in Range(f), x # Head(f)
      PROVE  x \in Range(Tail(f))
  <2>1. PICK i \in 1..Len(f) : x = f[i]
    BY <1>1, <1>4 DEF Range
  <2>2. i - 1 \in 1..(Len(f) - 1) /\ Tail(f)[i - 1] = x
    BY <1>1, <1>4, <2>1
  <2> QED BY <1>1, <2>2 DEF Range
<1>5. IsInjective(Tail(f))
  BY <1>1, <1>2 DEF IsInjective
<1>6. Head(f) \in Range(f)
  <2>1. 1 \in DOMAIN f
    BY <1>1
  <2> QED BY <1>1, <2>1 DEF Range
<1> QED BY <1>1, <1>3, <1>4, <1>5, <1>6

LEMMA ListGainsLast ==
    ASSUME NEW S, NEW f \in Seq(S), NEW x \in S, IsInjective(f), x \notin Range(f)
    PROVE  /\ Append(f, x) \in Seq(S) /\ Len(Append(f, x)) = Len(f) + 1
           /\ Range(Append(f, x)) = Range(f) \cup {x}
           /\ IsInjective(Append(f, x))
<1> DEFINE g == Append(f, x)
<1>1. /\ g \in Seq(S) /\ Len(g) = Len(f) + 1 /\ Len(f) \in Nat
      /\ DOMAIN f = 1..Len(f) /\ DOMAIN g = 1..(Len(f) + 1)
      /\ g[Len(f) + 1] = x
      /\ \A i \in 1..Len(f) : g[i] = f[i]
  OBVIOUS
<1> HIDE DEF g
<1>2. Range(g) = Range(f) \cup {x}
  <2>1. Range(g) \subseteq Range(f) \cup {x}
    BY <1>1 DEF Range
  <2>2. x \in Range(g) /\ Range(f) \subseteq Range(g)
    BY <1>1 DEF Range
  <2> QED BY <2>1, <2>2
<1>3. \A i \in 1..Len(f) : g[i] # x
  BY <1>1 DEF Range
<1>4. IsInjective(g)
  BY <1>1, <1>3 DEF IsInjective
<1> QED BY <1>1, <1>2, <1>4 DEF g

\* What the parts of Inv say together of a page.
LEMMA OfPage ==
    ASSUME IInv, NEW p \in all
    PROVE  /\ p \in Pages /\ cut[p] \in Sizes /\ p \in Listed(cut[p])
           /\ \A s \in Sizes : p \in Listed(s) => s = cut[p]
BY DEF IInv, Inv, TypeOK, PagesAccounted

LEMMA OfList ==
    ASSUME IInv, NEW s \in Sizes
    PROVE  /\ Listed(s) \subseteq all
           /\ using[s] \subseteq Listed(s)
           /\ Range(free[s]) \subseteq Listed(s)
           /\ \A p \in Range(free[s]) : out[p] = {}
           /\ free[s] # <<>> => Recyclable(s)
<1>1. Listed(s) \subseteq all /\ using[s] \subseteq Listed(s) /\ Range(free[s]) \subseteq Listed(s)
  BY DEF IInv, Inv, PagesAccounted, Listed
<1>2. \A p \in Range(free[s]) : out[p] = {}
  BY DEF IInv, Inv, IdleIsBounded, Intact, Range
<1>3. free[s] # <<>> => Recyclable(s)
  <2>1. free[s] \in Seq(Pages)
    BY DEF IInv, Inv, TypeOK
  <2>2. free[s] # <<>> => 1 \in DOMAIN free[s] /\ Head(free[s]) = free[s][1]
    BY <2>1
  <2> QED BY <2>2 DEF IInv, Inv, IdleIsBounded, Recyclable
<1> QED BY <1>1, <1>2, <1>3

LEMMA OfBlock ==
    ASSUME IInv, NEW p, NEW b
    PROVE  /\ <<p, b>> \in DOMAIN owner <=> p \in all /\ b \in out[p]
           /\ <<p, b>> \in DOMAIN owner => owner[<<p, b>>] = [mgr |-> cut[p], page |-> p]
<1>1. /\ DOMAIN owner = {q \in all \X UNION {out[o] : o \in all} : q[2] \in out[q[1]]}
      /\ \A q \in DOMAIN owner : owner[q] = [mgr |-> cut[q[1]], page |-> q[1]]
  BY DEF IInv, Inv, MapIsExact
<1>2. <<p, b>>[1] = p /\ <<p, b>>[2] = b
  OBVIOUS
<1>3. p \in all /\ b \in out[p] => <<p, b>> \in all \X UNION {out[o] : o \in all}
  OBVIOUS
<1> QED BY <1>1, <1>2, <1>3

\* The map is right if it is right for every pair of a page and a block.
LEMMA MapByBlocks ==
    ASSUME DOMAIN owner' \subseteq Pages \X Nat,
           \A p \in Pages, b \in Nat :
               /\ <<p, b>> \in DOMAIN owner' <=> p \in all' /\ b \in out'[p]
               /\ <<p, b>> \in DOMAIN owner' => owner'[<<p, b>>] = [mgr |-> cut'[p], page |-> p],
           all' \subseteq Pages,
           out' \in [Pages -> SUBSET Nat],
           \A p \in Pages \ all' : out'[p] = {}
    PROVE  MapIsExact'
<1>1. ASSUME NEW p \in Pages, NEW b \in Nat, <<p, b>> \in DOMAIN owner'
      PROVE  /\ owner'[<<p, b>>] = [mgr |-> cut'[p], page |-> p]
             /\ p \in all' /\ b \in out'[p]
             /\ <<p, b>> \in all' \X UNION {out'[o] : o \in all'}
  BY <1>1
<1>2. ASSUME NEW p \in all', NEW b \in out'[p]
      PROVE  <<p, b>> \in DOMAIN owner'
  <2>1. b \in Nat
    OBVIOUS
  <2> QED BY <2>1
<1>3. ASSUME NEW q \in DOMAIN owner'
      PROVE  /\ owner'[q] = [mgr |-> cut'[q[1]], page |-> q[1]]
             /\ q \in all' \X UNION {out'[o] : o \in all'}
             /\ q[2] \in out'[q[1]]
  <2>1. PICK p \in Pages, b \in Nat : q = <<p, b>>
    OBVIOUS
  <2>2. q[1] = p /\ q[2] = b
    BY ONLY <2>1
  <2> QED BY <1>1, <2>1, <2>2
<1>4. ASSUME NEW q \in all' \X UNION {out'[o] : o \in all'}, q[2] \in out'[q[1]]
      PROVE  q \in DOMAIN owner'
  <2>1. PICK p \in all', b \in UNION {out'[o] : o \in all'} : q = <<p, b>>
    OBVIOUS
  <2>2. q[1] = p /\ q[2] = b
    BY ONLY <2>1
  <2> QED BY <1>2, <1>4, <2>1, <2>2
<1>5. DOMAIN owner' = {q \in all' \X UNION {out'[p] : p \in all'} : q[2] \in out'[q[1]]}
  BY <1>3, <1>4
<1> QED BY <1>3, <1>5 DEF MapIsExact

-----------------------------------------------------------------------------
(* What a block that is handed out or taken back does to the invariant *)

HandedOut(s, p, b) ==
    /\ out' = [out EXCEPT ![p] = @ \cup {b}]
    /\ owner' = [q \in DOMAIN owner \cup {<<p, b>>} |->
                    IF q = <<p, b>> THEN [mgr |-> s, page |-> p] ELSE owner[q]]
    /\ ret' = <<p, b>>

\* A block nobody has goes to a user.
LEMMA MapGains ==
    ASSUME IInv, NEW s \in Sizes, NEW p \in Pages, NEW b \in Nat, HandedOut(s, p, b),
           all' = all \cup {p}, cut' = [cut EXCEPT ![p] = s], p \in all => cut[p] = s
    PROVE  /\ MapIsExact'
           /\ out' \in [Pages -> SUBSET Nat]
           /\ DOMAIN owner' \subseteq Pages \X Nat
           /\ ret' \in (Pages \X Nat) \cup {None}
           /\ \A q \in DOMAIN owner' : owner'[q] \in [mgr: Sizes, page: Pages]
           /\ out'[p] # {}
           /\ \A q \in Pages \ {p} : out'[q] = out[q]
<1>1. /\ out \in [Pages -> SUBSET Nat] /\ all \subseteq Pages /\ cut \in [Pages -> Sizes \cup {0}]
      /\ DOMAIN owner \subseteq Pages \X Nat
      /\ \A q \in DOMAIN owner : owner[q] \in [mgr: Sizes, page: Pages]
      /\ \A q \in Pages \ all : out[q] = {}
  BY DEF IInv, Inv, TypeOK, MapIsExact
<1>2. /\ out' \in [Pages -> SUBSET Nat] /\ out'[p] = out[p] \cup {b}
      /\ \A q \in Pages \ {p} : out'[q] = out[q]
  BY <1>1 DEF HandedOut
<1>3. /\ DOMAIN owner' = DOMAIN owner \cup {<<p, b>>}
      /\ owner'[<<p, b>>] = [mgr |-> s, page |-> p]
      /\ \A q \in DOMAIN owner : q # <<p, b>> => owner'[q] = owner[q]
  BY DEF HandedOut
<1>4. DOMAIN owner' \subseteq Pages \X Nat
  BY <1>1, <1>3
<1>5. all' \subseteq Pages /\ \A q \in Pages \ all' : out'[q] = {}
  BY <1>1, <1>2
<1>6. ASSUME NEW q \in Pages, NEW c \in Nat
      PROVE  /\ <<q, c>> \in DOMAIN owner' <=> q \in all' /\ c \in out'[q]
             /\ <<q, c>> \in DOMAIN owner' => owner'[<<q, c>>] = [mgr |-> cut'[q], page |-> q]
  <2>1. /\ <<q, c>> \in DOMAIN owner <=> q \in all /\ c \in out[q]
        /\ <<q, c>> \in DOMAIN owner => owner[<<q, c>>] = [mgr |-> cut[q], page |-> q]
    BY OfBlock
  <2>2. cut'[p] = s /\ (q # p => cut'[q] = cut[q])
    BY <1>1
  <2>3. CASE <<q, c>> = <<p, b>>
    <3>1. q = p /\ c = b
      BY <2>3
    <3> QED BY <1>2, <1>3, <2>2, <3>1
  <2>4. CASE <<q, c>> # <<p, b>>
    <3>1. <<q, c>> \in DOMAIN owner' <=> <<q, c>> \in DOMAIN owner
      BY <1>3, <2>4
    <3>2. q \in all' /\ c \in out'[q] <=> q \in all /\ c \in out[q]
      <4>1. CASE q = p
        <5>1. c # b
          BY <2>4, <4>1
        <5>2. p \notin all => out[p] = {}
          BY <1>1
        <5> QED BY <1>2, <4>1, <5>1, <5>2
      <4>2. CASE q # p
        BY <1>1, <1>2, <4>2
      <4> QED BY <4>1, <4>2
    <3>3. <<q, c>> \in DOMAIN owner => cut'[q] = cut[q]
      BY <2>1, <2>2
    <3> QED BY <1>3, <2>1, <2>4, <3>1, <3>2, <3>3
  <2> QED BY <2>3, <2>4
<1>7. MapIsExact'
  BY <1>2, <1>4, <1>5, <1>6, MapByBlocks
<1>8. \A q \in DOMAIN owner' : owner'[q] \in [mgr: Sizes, page: Pages]
  BY <1>1, <1>3
<1>9. ret' \in Pages \X Nat
  BY DEF HandedOut
<1> QED BY <1>2, <1>4, <1>7, <1>8, <1>9

\* What a user gives back is a block of a page that knows it.
LEMMA FreedIsOut ==
    ASSUME IInv, NEW p \in Pages, NEW b, <<p, b>> \in DOMAIN owner
    PROVE  /\ p \in all /\ b \in out[p] /\ cut[p] \in Sizes
           /\ owner[<<p, b>>].mgr = cut[p]
           /\ p \in using[cut[p]]
           /\ Accepts(p, b)
<1>1. p \in all /\ b \in out[p] /\ owner[<<p, b>>] = [mgr |-> cut[p], page |-> p]
  BY OfBlock
<1>2. cut[p] \in Sizes /\ p \in Listed(cut[p])
  BY <1>1, OfPage
<1>3. p \in using[cut[p]]
  BY <1>1, <1>2, OfList DEF Listed
<1>4. b \in BlocksOf(cut[p])
  BY <1>1 DEF IInv, OutOfPage
<1>5. Accepts(p, b)
  BY <1>2, <1>4 DEF IInv, Inv, BlocksWellPlaced
<1>6. owner[<<p, b>>].mgr = cut[p]
  BY <1>1
<1> QED BY <1>1, <1>2, <1>3, <1>5, <1>6

LEMMA MapLoses ==
    ASSUME IInv, NEW p \in Pages, NEW b, TakeBack(p, b), cut' = cut,
           all' \subseteq all, \A q \in all \ all' : out'[q] = {}
    PROVE  /\ MapIsExact'
           /\ out' \in [Pages -> SUBSET Nat]
           /\ DOMAIN owner' \subseteq Pages \X Nat
           /\ \A q \in DOMAIN owner' : owner'[q] \in [mgr: Sizes, page: Pages]
           /\ out'[p] = out[p] \ {b}
           /\ \A q \in Pages \ {p} : out'[q] = out[q]
<1>1. /\ out \in [Pages -> SUBSET Nat] /\ all \subseteq Pages
      /\ DOMAIN owner \subseteq Pages \X Nat
      /\ \A q \in DOMAIN owner : owner[q] \in [mgr: Sizes, page: Pages]
      /\ \A q \in Pages \ all : out[q] = {}
  BY DEF IInv, Inv, TypeOK, MapIsExact
<1>2. <<p, b>> \in DOMAIN owner /\ Accepts(p, b)
  BY FreedIsOut DEF TakeBack
<1>3. out' = [out EXCEPT ![p] = @ \ {b}]
  BY <1>2 DEF TakeBack
<1>4. /\ out' \in [Pages -> SUBSET Nat] /\ out'[p] = out[p] \ {b}
      /\ \A q \in Pages \ {p} : out'[q] = out[q]
  BY <1>1, <1>3
<1>5. /\ DOMAIN owner' = DOMAIN owner \ {<<p, b>>}
      /\ \A q \in DOMAIN owner' : owner'[q] = owner[q]
  BY DEF TakeBack, Restrict
<1>6. ASSUME NEW q \in Pages, NEW c \in Nat
      PROVE  /\ <<q, c>> \in DOMAIN owner' <=> q \in all' /\ c \in out'[q]
             /\ <<q, c>> \in DOMAIN owner' => owner'[<<q, c>>] = [mgr |-> cut'[q], page |-> q]
  <2>1. /\ <<q, c>> \in DOMAIN owner <=> q \in all /\ c \in out[q]
        /\ <<q, c>> \in DOMAIN owner => owner[<<q, c>>] = [mgr |-> cut[q], page |-> q]
    BY OfBlock
  <2>2. c \in out'[q] <=> c \in out[q] /\ <<q, c>> # <<p, b>>
    BY <1>4
  <2>3. q \in all /\ c \in out'[q] => q \in all'
    OBVIOUS
  <2> QED BY <1>5, <2>1, <2>2, <2>3
<1>7. all' \subseteq Pages /\ \A q \in Pages \ all' : out'[q] = {}
  BY <1>1, <1>4
<1>8. DOMAIN owner' \subseteq Pages \X Nat
  BY <1>1, <1>5
<1>9. MapIsExact'
  BY <1>4, <1>6, <1>7, <1>8, MapByBlocks
<1> QED BY <1>1, <1>4, <1>5, <1>8, <1>9

\* The blocks of the pages stay where they are while their managers do.
LEMMA PagesStay ==
    ASSUME IInv, UNCHANGED <<align, start, cut>>,
           \A s \in Sizes : Listed(s)' \subseteq Listed(s)
    PROVE  HasManager' /\ BlocksWellPlaced'
<1>1. \A s \in Sizes : BlocksOf(s)' = BlocksOf(s)
  BY DEF BlocksOf
<1>2. HasManager'
  <2>1. ASSUME NEW s \in Sizes
        PROVE  /\ align'[s] # 0 => \E r \in Requests : AlignedSize(r) = s /\ align'[s] = r.align
               /\ Listed(s)' # {} => align'[s] # 0 /\ BlocksOf(s)' # {}
    BY <1>1 DEF IInv, HasManager
  <2> QED BY <2>1 DEF HasManager
<1>3. BlocksWellPlaced'
  <2>1. ASSUME NEW s \in Sizes, NEW p \in Listed(s)', NEW b \in BlocksOf(s)'
        PROVE  /\ Address(p, b)' % align'[s] = 0
               /\ Address(p, b)' + s <= start'[p] + MemoryBytes(s, align'[s])
               /\ Accepts(p, b)'
    <3>1. /\ Address(p, b) % align[s] = 0
          /\ Address(p, b) + s <= start[p] + MemoryBytes(s, align[s])
          /\ Accepts(p, b)
      BY <1>1 DEF IInv, Inv, BlocksWellPlaced
    <3>2. Address(p, b)' = Address(p, b) /\ Accepts(p, b)' = Accepts(p, b)
      BY DEF Address, Accepts
    <3> QED BY <3>1, <3>2
  <2> QED BY <2>1 DEF BlocksWellPlaced
<1> QED BY <1>2, <1>3

\* When the page that served blocks changes, the one before it is not idle: it
\* is used up, and a page that is used up has a block.
LEMMA NewCurrent ==
    ASSUME IInv, NEW s \in Sizes, NEW p \in Pages, NEW b, ~CurrentServes(s),
           HandedOut(s, p, b),
           cur' = [cur EXCEPT ![s] = p],
           \A q \in Sizes : using'[q] \subseteq using[q] \cup {p},
           \A q \in Sizes \ {s} : p \notin using'[q],
           out'[p] # {}, \A q \in Pages \ {p} : out'[q] = out[q]
    PROVE  \A q \in Sizes : \A o \in using'[q] : Intact(o)' => o = cur'[q]
<1> SUFFICES ASSUME NEW q \in Sizes, NEW o \in using'[q], Intact(o)'
             PROVE  o = cur'[q]
  OBVIOUS
<1>1. cur \in [Sizes -> Pages \cup {None}] /\ using \in [Sizes -> SUBSET Pages]
  BY DEF IInv, Inv, TypeOK
<1>2. o # p /\ o \in using[q] /\ o \in Pages
  BY <1>1 DEF Intact
<1>3. Intact(o)
  BY <1>2 DEF Intact
<1>4. o = cur[q]
  BY <1>2, <1>3 DEF IInv, Inv, IdleIsBounded
<1>5. CASE q = s
  <2>1. UsedUp(s, o)
    BY <1>2, <1>4, <1>5, NoneAssumption DEF CurrentServes
  <2>2. BlocksOf(s) # {}
    BY <1>2, <1>5 DEF IInv, HasManager, Listed
  <2> QED BY <1>3, <2>1, <2>2 DEF UsedUp, Intact
<1>6. CASE q # s
  BY <1>1, <1>4, <1>6
<1> QED BY <1>5, <1>6

-----------------------------------------------------------------------------
(* CMPageMgr::Allocate *)

ListsRight ==
    \A s \in Sizes :
        /\ using[s] \cap Range(free[s]) = {}
        /\ IsInjective(free[s])
        /\ cur[s] # None => cur[s] \in using[s]

LEMMA HandOutGives ==
    ASSUME NEW s, NEW p, NEW blocks, HandOut(s, p, blocks, out[p])
    PROVE  \E b \in blocks \ out[p] : HandedOut(s, p, b)
<1>1. PICK b \in blocks \ out[p] :
         /\ out' = [out EXCEPT ![p] = out[p] \cup {b}]
         /\ owner' = [q \in DOMAIN owner \cup {<<p, b>>} |->
                         IF q = <<p, b>> THEN [mgr |-> s, page |-> p] ELSE owner[q]]
         /\ ret' = <<p, b>>
  BY DEF HandOut
<1>2. HandedOut(s, p, b)
  BY <1>1 DEF HandedOut
<1> QED BY <1>2

\* A page the manager already has serves a block.
LEMMA OldPageServes ==
    ASSUME IInv, NEW s \in Sizes, NEW p \in Listed(s), NEW b \in BlocksOf(s) \ out[p],
           HandedOut(s, p, b), UNCHANGED <<align, memory>>,
           using' \in [Sizes -> SUBSET Pages], free' \in [Sizes -> Seq(Pages)],
           cur' \in [Sizes -> Pages \cup {None}],
           \A q \in Sizes : Listed(q)' = Listed(q),
           ListsRight', IdleIsBounded'
    PROVE  IInv'
<1>1. p \in all /\ p \in Pages /\ cut[p] = s
  <2>1. p \in all
    BY OfList
  <2> QED BY <2>1, OfPage
<1>2. UNCHANGED <<align, start, cut, all>>
  BY DEF memory
<1>3. TypeOK
  BY DEF IInv, Inv
<1>4. b \in Nat
  BY DEF BlocksOf
<1>5. cut' = [cut EXCEPT ![p] = s] /\ all' = all \cup {p}
  BY <1>1, <1>2, <1>3 DEF TypeOK
<1>6. /\ MapIsExact'
      /\ out' \in [Pages -> SUBSET Nat]
      /\ DOMAIN owner' \subseteq Pages \X Nat
      /\ ret' \in (Pages \X Nat) \cup {None}
      /\ \A q \in DOMAIN owner' : owner'[q] \in [mgr: Sizes, page: Pages]
  BY <1>1, <1>4, <1>5, MapGains
<1>7. TypeOK'
  BY ONLY <1>2, <1>3, <1>6, using' \in [Sizes -> SUBSET Pages],
          free' \in [Sizes -> Seq(Pages)], cur' \in [Sizes -> Pages \cup {None}] DEF TypeOK
<1>8. PagesAccounted'
  BY <1>2 DEF ListsRight, PagesAccounted, IInv, Inv
<1>9. HasManager' /\ BlocksWellPlaced'
  BY <1>2, PagesStay
<1>10. OutOfPage'
  <2>1. \A q \in all' : BlocksOf(cut[q])' = BlocksOf(cut[q])
    BY <1>2 DEF BlocksOf
  <2>2. \A q \in Pages : out'[q] \subseteq out[q] \cup {b} /\ (q # p => out'[q] = out[q])
    BY <1>1, <1>3 DEF HandedOut, TypeOK
  <2>3. all \subseteq Pages
    BY <1>3 DEF TypeOK
  <2> QED BY <1>1, <1>2, <2>1, <2>2, <2>3 DEF IInv, OutOfPage
<1> QED BY <1>6, <1>7, <1>8, <1>9, <1>10 DEF IInv, Inv

\* The pages that wait are those that waited before, without the one that serves.
LEMMA WaitingIsIdle ==
    ASSUME IInv, NEW s, NEW p \in Pages, NEW b, HandedOut(s, p, b),
           free' \in [Sizes -> Seq(Pages)],
           \A q \in Sizes : Range(free'[q]) \subseteq Range(free[q]) \ {p},
           \A q \in Sizes : Len(free'[q]) <= RecycleSize,
           \A q \in Sizes : \A o \in using'[q] : Intact(o)' => o = cur'[q]
    PROVE  IdleIsBounded'
<1>1. \A q \in Pages : q # p => out'[q] = out[q]
  BY DEF HandedOut, IInv, Inv, TypeOK
<1>2. ASSUME NEW q \in Sizes, NEW i \in DOMAIN free'[q]
      PROVE  out'[free'[q][i]] = {}
  <2>1. free'[q][i] \in Range(free[q]) \ {p}
    BY DEF Range
  <2>2. free'[q][i] \in Pages
    OBVIOUS
  <2>3. out[free'[q][i]] = {}
    BY <2>1, OfList
  <2> QED BY <1>1, <2>1, <2>2, <2>3
<1> QED BY <1>2 DEF IdleIsBounded, Intact

LEMMA CurrentStep ==
    ASSUME IInv, NEW s \in Sizes, AllocateFromCurrent(s)
    PROVE  IInv'
<1>1. /\ cur[s] # None /\ HandOut(s, cur[s], BlocksOf(s), out[cur[s]])
      /\ UNCHANGED <<align, memory>> /\ UNCHANGED <<using, free, cur>>
  BY DEF AllocateFromCurrent, CurrentServes, HandOutOf, lists
<1>2. PICK b \in BlocksOf(s) \ out[cur[s]] : HandedOut(s, cur[s], b)
  BY <1>1, HandOutGives
<1>3. TypeOK /\ PagesAccounted /\ IdleIsBounded
  BY DEF IInv, Inv
<1>4. cur[s] \in using[s] /\ cur[s] \in Listed(s) /\ cur[s] \in Pages
  BY <1>1, <1>3 DEF PagesAccounted, Listed, TypeOK
<1>5. \A q \in Sizes : Listed(q)' = Listed(q)
  BY <1>1 DEF Listed
<1>6. ListsRight'
  BY <1>1, <1>3 DEF ListsRight, PagesAccounted
<1>7. /\ using' \in [Sizes -> SUBSET Pages] /\ free' \in [Sizes -> Seq(Pages)]
      /\ cur' \in [Sizes -> Pages \cup {None}]
  BY <1>1, <1>3 DEF TypeOK
<1>8. IdleIsBounded'
  <2>1. ASSUME NEW q \in Sizes
        PROVE  Range(free'[q]) \subseteq Range(free[q]) \ {cur[s]}
    <3>1. cur[s] \in Range(free[q]) => q = s
      BY <1>4, OfList, OfPage DEF Listed
    <3> QED BY <1>1, <1>3, <1>4, <3>1 DEF PagesAccounted
  <2>2. \A o \in Pages : Intact(o)' => Intact(o)
    BY <1>2, <1>3, <1>4 DEF HandedOut, Intact, TypeOK
  <2>3. \A q \in Sizes : \A o \in using'[q] : Intact(o)' => o = cur'[q]
    BY <1>1, <1>3, <2>2 DEF IdleIsBounded, TypeOK
  <2>4. \A q \in Sizes : Len(free'[q]) <= RecycleSize
    BY <1>1, <1>3 DEF IdleIsBounded
  <2> QED BY <1>2, <1>4, <1>7, <2>1, <2>3, <2>4, WaitingIsIdle
<1> QED BY <1>1, <1>2, <1>4, <1>5, <1>6, <1>7, <1>8, OldPageServes

LEMMA UsingStep ==
    ASSUME IInv, NEW s \in Sizes, AllocateFromUsing(s)
    PROVE  IInv'
<1>1. PICK p \in Serving(s) : cur' = [cur EXCEPT ![s] = p] /\ HandOut(s, p, BlocksOf(s), out[p])
  BY DEF AllocateFromUsing, HandOutOf
<1>2. ~CurrentServes(s) /\ UNCHANGED <<align, memory>> /\ UNCHANGED <<using, free>>
  BY DEF AllocateFromUsing
<1>3. PICK b \in BlocksOf(s) \ out[p] : HandedOut(s, p, b)
  BY <1>1, HandOutGives
<1>4. TypeOK /\ PagesAccounted /\ IdleIsBounded
  BY DEF IInv, Inv
<1>5. p \in using[s] /\ p \in Listed(s) /\ p \in Pages
  BY <1>1, <1>4 DEF Serving, Listed, TypeOK
<1>6. \A q \in Sizes : Listed(q)' = Listed(q)
  BY <1>2 DEF Listed
<1>7. /\ using' \in [Sizes -> SUBSET Pages] /\ free' \in [Sizes -> Seq(Pages)]
      /\ cur' \in [Sizes -> Pages \cup {None}]
  BY <1>1, <1>2, <1>4, <1>5 DEF TypeOK
<1>8. ListsRight'
  BY <1>1, <1>2, <1>4, <1>5 DEF ListsRight, PagesAccounted, TypeOK
<1>9. ASSUME NEW q \in Sizes
      PROVE  p \in Listed(q) => q = s
  BY <1>5, OfList, OfPage
<1>10. IdleIsBounded'
  <2>1. \A q \in Sizes : Range(free'[q]) \subseteq Range(free[q]) \ {p}
    BY <1>2, <1>4, <1>5, <1>9 DEF PagesAccounted, Listed
  <2>2. out'[p] # {} /\ \A q \in Pages \ {p} : out'[q] = out[q]
    BY <1>3, <1>4, <1>5 DEF HandedOut, TypeOK
  <2>3. \A q \in Sizes : using'[q] \subseteq using[q] \cup {p}
    BY <1>2
  <2>4. \A q \in Sizes \ {s} : p \notin using'[q]
    BY <1>2, <1>9 DEF Listed
  <2>5. \A q \in Sizes : \A o \in using'[q] : Intact(o)' => o = cur'[q]
    BY <1>1, <1>2, <1>3, <1>5, <2>2, <2>3, <2>4, NewCurrent
  <2>6. \A q \in Sizes : Len(free'[q]) <= RecycleSize
    BY <1>2, <1>4 DEF IdleIsBounded
  <2> QED BY <1>3, <1>5, <1>7, <2>1, <2>5, <2>6, WaitingIsIdle
<1> QED BY <1>2, <1>3, <1>5, <1>6, <1>7, <1>8, <1>10, OldPageServes

\* The page moves from the waiting ones to the used ones of the same manager.
LEMMA FreeListStep ==
    ASSUME IInv, NEW s \in Sizes, AllocateFromFree(s)
    PROVE  IInv'
<1> DEFINE p == Head(free[s])
<1>1. /\ cur' = [cur EXCEPT ![s] = p]
      /\ free' = [free EXCEPT ![s] = Tail(@)]
      /\ using' = [using EXCEPT ![s] = @ \cup {p}]
      /\ HandOut(s, p, BlocksOf(s), out[p])
      /\ ~CurrentServes(s) /\ free[s] # <<>> /\ UNCHANGED <<align, memory>>
  BY DEF AllocateFromFree, HandOutOf, Recyclable
<1>2. PICK b \in BlocksOf(s) \ out[p] : HandedOut(s, p, b)
  BY <1>1, HandOutGives
<1>3. TypeOK /\ PagesAccounted /\ IdleIsBounded
  BY DEF IInv, Inv
<1>4. free[s] \in Seq(Pages) /\ IsInjective(free[s])
  BY <1>3 DEF TypeOK, PagesAccounted
<1>5. /\ Tail(free[s]) \in Seq(Pages) /\ Len(Tail(free[s])) = Len(free[s]) - 1
      /\ p \in Range(free[s]) /\ Range(Tail(free[s])) = Range(free[s]) \ {p}
      /\ IsInjective(Tail(free[s]))
  BY <1>1, <1>4, ListLosesHead
<1> HIDE DEF p
<1>6. p \in Listed(s) /\ p \in Pages /\ p \notin using[s]
  <2>1. p \in Listed(s)
    BY <1>5, OfList
  <2>2. p \in all
    BY <2>1, OfList
  <2> QED BY <1>3, <1>5, <2>1, <2>2, OfPage DEF PagesAccounted
<1>7. /\ using' \in [Sizes -> SUBSET Pages] /\ free' \in [Sizes -> Seq(Pages)]
      /\ cur' \in [Sizes -> Pages \cup {None}]
  BY <1>1, <1>3, <1>5, <1>6 DEF TypeOK
<1>8. /\ using'[s] = using[s] \cup {p} /\ Range(free'[s]) = Range(free[s]) \ {p}
      /\ IsInjective(free'[s]) /\ cur'[s] = p /\ Len(free'[s]) = Len(free[s]) - 1
      /\ \A q \in Sizes \ {s} : using'[q] = using[q] /\ free'[q] = free[q] /\ cur'[q] = cur[q]
  BY <1>1, <1>3, <1>5 DEF TypeOK
<1>9. \A q \in Sizes : Listed(q)' = Listed(q)
  BY <1>5, <1>8 DEF Listed
<1>10. ListsRight'
  BY <1>3, <1>8 DEF ListsRight, PagesAccounted
<1>11. ASSUME NEW q \in Sizes
       PROVE  p \in Listed(q) => q = s
  BY <1>6, OfList, OfPage
<1>12. IdleIsBounded'
  <2>1. \A q \in Sizes : Range(free'[q]) \subseteq Range(free[q]) \ {p}
    BY <1>8, <1>11 DEF Listed
  <2>2. out'[p] # {} /\ \A q \in Pages \ {p} : out'[q] = out[q]
    BY <1>2, <1>3, <1>6 DEF HandedOut, TypeOK
  <2>3. \A q \in Sizes : using'[q] \subseteq using[q] \cup {p}
    BY <1>8
  <2>4. \A q \in Sizes \ {s} : p \notin using'[q]
    BY <1>8, <1>11 DEF Listed
  <2>5. \A q \in Sizes : \A o \in using'[q] : Intact(o)' => o = cur'[q]
    BY <1>1, <1>2, <1>6, <2>2, <2>3, <2>4, NewCurrent
  <2>6. \A q \in Sizes : Len(free'[q]) <= RecycleSize
    <3>1. \A q \in Sizes : Len(free[q]) \in Nat /\ Len(free[q]) <= RecycleSize
      BY <1>3 DEF IdleIsBounded, TypeOK
    <3> QED BY <1>8, <3>1, RecycleAssumption
  <2> QED BY <1>2, <1>6, <1>7, <2>1, <2>5, <2>6, WaitingIsIdle
<1> QED BY <1>1, <1>2, <1>6, <1>7, <1>9, <1>10, <1>12, OldPageServes

\* A new page joins the used ones of its manager, which the first request has
\* made.
NewPage(r, s, p, a) ==
    /\ ~CurrentServes(s)
    /\ align' = [align EXCEPT ![s] = AlignOf(r)]
    /\ free' = free
    /\ all' = all \cup {p}
    /\ start' = [start EXCEPT ![p] = a]
    /\ cut' = [cut EXCEPT ![p] = s]
    /\ cur' = [cur EXCEPT ![s] = p]
    /\ using' = [using EXCEPT ![s] = @ \cup {p}]

LEMMA NewPageIs ==
    ASSUME IInv, NEW r \in Requests, AllocateNew(r)
    PROVE  \E s \in Sizes, p \in Pages \ all, a \in Starts :
               /\ s = AlignedSize(r) /\ free[s] = <<>> /\ Serving(s) = {}
               /\ NewPage(r, s, p, a)
               /\ HandOut(s, p, 1..BlockCount(s, AlignOf(r)), out[p])
<1> DEFINE s == AlignedSize(r)
<1>1. s \in Sizes
  BY DEF Sizes
<1>2. PICK p \in Pages \ all, a \in Starts :
         /\ all' = all \cup {p}
         /\ start' = [start EXCEPT ![p] = a]
         /\ cut' = [cut EXCEPT ![p] = s]
         /\ cur' = [cur EXCEPT ![s] = p]
         /\ using' = [using EXCEPT ![s] = @ \cup {p}]
         /\ HandOut(s, p, 1..BlockCount(s, AlignOf(r)), {})
  BY DEF AllocateNew
<1>3. ~CurrentServes(s) /\ Serving(s) = {} /\ ~Recyclable(s)
  BY DEF AllocateNew
<1>4. align' = [align EXCEPT ![s] = AlignOf(r)]
  BY DEF AllocateNew
<1>5. free' = [free EXCEPT ![s] = IF @ = <<>> THEN @ ELSE Tail(@)]
  BY DEF AllocateNew
<1>6. free[s] = <<>>
  BY <1>1, <1>3, OfList
<1> HIDE DEF s
<1>7. free' = free
  <2>1. free \in [Sizes -> Seq(Pages)]
    BY DEF IInv, Inv, TypeOK
  <2> QED BY <1>1, <1>5, <1>6, <2>1
<1>8. out[p] = {}
  BY DEF IInv, Inv, MapIsExact
<1>9. NewPage(r, s, p, a)
  BY <1>2, <1>3, <1>4, <1>7 DEF NewPage
<1>10. HandOut(s, p, 1..BlockCount(s, AlignOf(r)), out[p])
  BY <1>2, <1>8
<1>11. s = AlignedSize(r)
  BY DEF s
<1> QED BY <1>1, <1>3, <1>6, <1>9, <1>10, <1>11

LEMMA NewStep ==
    ASSUME IInv, NEW r \in Requests, AllocateNew(r)
    PROVE  IInv'
<1>1. PICK s \in Sizes, p \in Pages \ all, a \in Starts :
         /\ s = AlignedSize(r) /\ free[s] = <<>>
         /\ NewPage(r, s, p, a)
         /\ HandOut(s, p, 1..BlockCount(s, AlignOf(r)), out[p])
  BY NewPageIs
<1>2. PICK b \in 1..BlockCount(s, AlignOf(r)) \ out[p] : HandedOut(s, p, b)
  BY <1>1, HandOutGives
<1>3. TypeOK /\ PagesAccounted /\ IdleIsBounded /\ HasManager /\ MapIsExact
  BY DEF IInv, Inv
<1>4. b \in Nat /\ a \in Nat /\ p \notin all
  BY StartsAssumption
<1>5. /\ MapIsExact'
      /\ out' \in [Pages -> SUBSET Nat]
      /\ DOMAIN owner' \subseteq Pages \X Nat
      /\ ret' \in (Pages \X Nat) \cup {None}
      /\ \A q \in DOMAIN owner' : owner'[q] \in [mgr: Sizes, page: Pages]
      /\ out'[p] # {}
      /\ \A q \in Pages \ {p} : out'[q] = out[q]
  <2>1. all' = all \cup {p} /\ cut' = [cut EXCEPT ![p] = s]
    BY <1>1 DEF NewPage
  <2> QED BY <1>2, <1>4, <2>1, MapGains
<1>6. PICK m \in Requests : AlignedSize(m) = s /\ AlignOf(r) = m.align
  <2>1. CASE align[s] = 0
    <3>1. AlignOf(r) = r.align
      BY <1>1, <2>1 DEF AlignOf
    <3> QED BY <1>1, <3>1
  <2>2. CASE align[s] # 0
    <3>1. AlignOf(r) = align[s]
      BY <1>1, <2>2 DEF AlignOf
    <3> QED BY <1>3, <2>2, <3>1 DEF HasManager
  <2> QED BY <2>1, <2>2
<1>7. m.align \in Nat \ {0}
  BY SizeIsMultiple
<1>8. /\ align'[s] = m.align
      /\ \A q \in Sizes : q # s => align'[q] = align[q]
      /\ \A q \in Sizes : Listed(q) # {} => align'[q] = align[q]
  <2>1. align' = [align EXCEPT ![s] = m.align] /\ DOMAIN align = Sizes
    BY <1>1, <1>3, <1>6 DEF NewPage, TypeOK
  <2>2. Listed(s) # {} => AlignOf(r) = align[s]
    BY <1>1, <1>3 DEF AlignOf, HasManager
  <2> QED BY <1>6, <2>1, <2>2
<1>9. /\ using'[s] = using[s] \cup {p} /\ cur'[s] = p
      /\ \A q \in Sizes \ {s} : using'[q] = using[q] /\ cur'[q] = cur[q]
      /\ free' = free
  BY <1>1, <1>3 DEF NewPage, TypeOK
<1>10. /\ cut'[p] = s /\ start'[p] = a
       /\ \A q \in Pages : q # p => cut'[q] = cut[q] /\ start'[q] = start[q]
  BY <1>1, <1>3 DEF NewPage, TypeOK
<1>11. /\ Listed(s)' = Listed(s) \cup {p}
       /\ \A q \in Sizes \ {s} : Listed(q)' = Listed(q)
       /\ \A q \in Sizes : p \notin Listed(q)
  BY <1>4, <1>9, OfList DEF Listed
<1>12. TypeOK'
  <2>1. align' \in [Sizes -> {0} \cup {q.align : q \in Requests}]
    BY <1>1, <1>3, <1>6 DEF NewPage, TypeOK
  <2>2. /\ using' \in [Sizes -> SUBSET Pages] /\ cur' \in [Sizes -> Pages \cup {None}]
        /\ all' \subseteq Pages /\ start' \in [Pages -> Starts \cup {0}]
        /\ cut' \in [Pages -> Sizes \cup {0}]
    BY <1>1, <1>3 DEF NewPage, TypeOK
  <2>3. free' \in [Sizes -> Seq(Pages)]
    BY <1>3, <1>9 DEF TypeOK
  <2> QED BY ONLY <1>5, <2>1, <2>2, <2>3 DEF TypeOK
<1>13. PagesAccounted'
  <2>1. all' = UNION {Listed(q)' : q \in Sizes}
    <3>1. all' = all \cup {p} /\ all = UNION {Listed(q) : q \in Sizes}
      BY <1>1, <1>3 DEF NewPage, PagesAccounted
    <3>2. \A q \in Sizes : Listed(q)' = IF q = s THEN Listed(q) \cup {p} ELSE Listed(q)
      BY <1>11
    <3> QED BY <3>1, <3>2
  <2>2. ASSUME NEW q \in Sizes
        PROVE  /\ \A o \in Listed(q)' : cut'[o] = q
               /\ using'[q] \cap Range(free'[q]) = {}
               /\ IsInjective(free'[q])
               /\ cur'[q] # None => cur'[q] \in using'[q]
    <3>1. \A o \in Listed(q)' : cut'[o] = q
      <4>1. \A o \in Listed(q) : o \in Pages /\ o # p /\ cut[o] = q
        BY <1>3, <1>11, OfList, OfPage
      <4> QED BY <1>10, <1>11, <4>1
    <3>2. using'[q] \cap Range(free'[q]) = {}
      BY <1>3, <1>9, <1>11 DEF PagesAccounted, Listed
    <3>3. IsInjective(free'[q]) /\ (cur'[q] # None => cur'[q] \in using'[q])
      BY <1>3, <1>9 DEF PagesAccounted
    <3> QED BY <3>1, <3>2, <3>3
  <2> QED BY <2>1, <2>2 DEF PagesAccounted
<1>14. IdleIsBounded'
  <2>1. \A q \in Sizes : Range(free'[q]) \subseteq Range(free[q]) \ {p}
    BY <1>9, <1>11 DEF Listed
  <2>2. \A q \in Sizes : using'[q] \subseteq using[q] \cup {p}
    BY <1>9
  <2>3. \A q \in Sizes \ {s} : p \notin using'[q]
    BY <1>9, <1>11 DEF Listed
  <2>4. cur' = [cur EXCEPT ![s] = p] /\ ~CurrentServes(s)
    BY <1>1 DEF NewPage
  <2>5. \A q \in Sizes : \A o \in using'[q] : Intact(o)' => o = cur'[q]
    BY <1>2, <1>5, <2>2, <2>3, <2>4, NewCurrent
  <2>6. \A q \in Sizes : Len(free'[q]) <= RecycleSize
    BY <1>3, <1>9 DEF IdleIsBounded
  <2>7. free' \in [Sizes -> Seq(Pages)]
    BY <1>3, <1>9 DEF TypeOK
  <2> QED BY <1>2, <2>1, <2>5, <2>6, <2>7, WaitingIsIdle
<1>15. BlocksOf(s)' = 1..BlockCount(s, m.align)
  BY <1>8 DEF BlocksOf
<1>16. HasManager'
  <2>1. ASSUME NEW q \in Sizes
        PROVE  /\ align'[q] # 0 => \E k \in Requests : AlignedSize(k) = q /\ align'[q] = k.align
               /\ Listed(q)' # {} => align'[q] # 0 /\ BlocksOf(q)' # {}
    <3>1. CASE q = s
      BY <1>2, <1>6, <1>7, <1>8, <1>15, <3>1
    <3>2. CASE q # s
      <4>1. align'[q] = align[q] /\ Listed(q)' = Listed(q)
        BY <1>8, <1>11, <3>2
      <4>2. BlocksOf(q)' = BlocksOf(q)
        BY <4>1 DEF BlocksOf
      <4> QED BY <1>3, <4>1, <4>2 DEF HasManager
    <3> QED BY <3>1, <3>2
  <2> QED BY <2>1 DEF HasManager
<1>17. BlocksWellPlaced'
  <2>1. ASSUME NEW q \in Sizes, NEW o \in Listed(q)', NEW c \in BlocksOf(q)'
        PROVE  /\ Address(o, c)' % align'[q] = 0
               /\ Address(o, c)' + q <= start'[o] + MemoryBytes(q, align'[q])
               /\ Accepts(o, c)'
    <3>1. CASE o = p
      <4>1. q = s
        BY <1>11, <3>1
      <4>2. c \in 1..BlockCount(AlignedSize(m), m.align)
        BY <1>6, <1>15, <4>1
      <4>3. Address(o, c)' = Place(a, s, m.align, c)
        BY <1>8, <1>10, <3>1 DEF Address, Place
      <4>4. /\ Place(a, s, m.align, c) % m.align = 0
            /\ Place(a, s, m.align, c) + s <= a + MemoryBytes(s, m.align)
            /\ Place(a, s, m.align, c) < a + s * BlockCount(s, m.align)
        BY <1>4, <1>6, <4>2, WellPlaced
      <4>5. Accepts(o, c)' <=> /\ Address(o, c)' < a + s * BlockCount(s, m.align)
                               /\ Address(o, c)' % m.align = 0
        BY <1>8, <1>10, <3>1 DEF Accepts
      <4> QED BY <1>8, <1>10, <3>1, <4>1, <4>3, <4>4, <4>5
    <3>2. CASE o # p
      <4>1. o \in Listed(q) /\ o \in Pages /\ cut[o] = q
        <5>1. o \in Listed(q)
          BY <1>11, <3>2
        <5> QED BY <5>1, OfList, OfPage
      <4>2. align'[q] = align[q] /\ cut'[o] = q /\ start'[o] = start[o]
        BY <1>8, <1>10, <3>2, <4>1
      <4>3. c \in BlocksOf(q)
        BY <4>2 DEF BlocksOf
      <4>4. Address(o, c)' = Address(o, c)
        BY <4>1, <4>2 DEF Address
      <4>5. Accepts(o, c)' <=> Accepts(o, c)
        BY <4>1, <4>2, <4>4 DEF Accepts
      <4> QED BY <4>1, <4>2, <4>3, <4>4, <4>5 DEF IInv, Inv, BlocksWellPlaced
    <3> QED BY <3>1, <3>2
  <2> QED BY <2>1 DEF BlocksWellPlaced
<1>18. OutOfPage'
  <2>1. ASSUME NEW o \in all'
        PROVE  out'[o] \subseteq BlocksOf(cut[o])'
    <3>1. CASE o = p
      <4>1. out[p] = {} /\ out'[p] = out[p] \cup {b}
        BY <1>2, <1>3, <1>4 DEF HandedOut, MapIsExact, TypeOK
      <4>2. BlocksOf(cut[o])' = BlocksOf(s)'
        BY <1>10, <3>1 DEF BlocksOf
      <4> QED BY <1>2, <1>6, <1>15, <3>1, <4>1, <4>2
    <3>2. CASE o # p
      <4>1. o \in all
        BY <1>1, <3>2 DEF NewPage
      <4>2. o \in Pages /\ cut[o] \in Sizes /\ o \in Listed(cut[o])
        BY <4>1, OfPage
      <4>3. cut'[o] = cut[o] /\ align'[cut[o]] = align[cut[o]]
        BY <1>8, <1>10, <3>2, <4>2
      <4>4. BlocksOf(cut[o])' = BlocksOf(cut[o])
        BY <4>3 DEF BlocksOf
      <4> QED BY <1>5, <3>2, <4>1, <4>2, <4>4 DEF IInv, OutOfPage
    <3> QED BY <3>1, <3>2
  <2> QED BY <2>1 DEF OutOfPage
<1> QED BY <1>5, <1>12, <1>13, <1>14, <1>16, <1>17, <1>18 DEF IInv, Inv

-----------------------------------------------------------------------------
(* CMPageMgr::Free *)

\* What Free keeps in every case.
LEMMA FreeKeepsMost ==
    ASSUME IInv, NEW p \in Pages, NEW b, TakeBack(p, b),
           UNCHANGED <<align, start, cut>>,
           all' \subseteq all, \A q \in all \ all' : out'[q] = {},
           \A q \in Sizes : Listed(q)' \subseteq Listed(q),
           using' \in [Sizes -> SUBSET Pages], free' \in [Sizes -> Seq(Pages)],
           cur' = cur,
           PagesAccounted', IdleIsBounded'
    PROVE  IInv'
<1>1. TypeOK /\ OutOfPage
  BY DEF IInv, Inv
<1>2. /\ MapIsExact'
      /\ out' \in [Pages -> SUBSET Nat]
      /\ DOMAIN owner' \subseteq Pages \X Nat
      /\ \A q \in DOMAIN owner' : owner'[q] \in [mgr: Sizes, page: Pages]
      /\ out'[p] = out[p] \ {b}
      /\ \A q \in Pages \ {p} : out'[q] = out[q]
  BY MapLoses
<1>3. ret' = ret
  BY DEF TakeBack
<1>4. TypeOK'
  <2>1. align' = align /\ start' = start /\ cut' = cut
    OBVIOUS
  <2> QED BY ONLY <1>1, <1>2, <1>3, <2>1, all' \subseteq all, cur' = cur,
                  using' \in [Sizes -> SUBSET Pages], free' \in [Sizes -> Seq(Pages)] DEF TypeOK
<1>5. HasManager' /\ BlocksWellPlaced'
  BY PagesStay
<1>6. OutOfPage'
  <2>1. \A q \in all' : BlocksOf(cut[q])' = BlocksOf(cut[q])
    BY DEF BlocksOf
  <2>2. \A q \in Pages : out'[q] \subseteq out[q]
    BY <1>2
  <2> QED BY <1>1, <2>1, <2>2 DEF OutOfPage, TypeOK
<1> QED BY <1>2, <1>4, <1>5, <1>6 DEF IInv, Inv

\* A page that waits has no block out, so that it is not the one Free is about.
LEMMA WaitingIsOther ==
    ASSUME IInv, NEW p \in Pages, NEW b, TakeBack(p, b)
    PROVE  /\ p \in using[cut[p]] /\ cut[p] \in Sizes /\ p \in all
           /\ \A q \in Sizes : p \notin Range(free[q])
           /\ \A q \in Sizes : p \in using[q] => q = cut[p]
           /\ owner[<<p, b>>].mgr = cut[p]
<1>1. /\ p \in all /\ b \in out[p] /\ cut[p] \in Sizes
      /\ owner[<<p, b>>].mgr = cut[p] /\ p \in using[cut[p]]
  BY FreedIsOut DEF TakeBack
<1>2. \A q \in Sizes : p \notin Range(free[q])
  BY <1>1, OfList
<1>3. \A q \in Sizes : p \in using[q] => q = cut[p]
  BY <1>1, OfPage, OfList
<1> QED BY <1>1, <1>2, <1>3

LEMMA KeepsStep ==
    ASSUME IInv, NEW p \in Pages, NEW b, FreeKeeps(p, b)
    PROVE  IInv'
<1>1. /\ TakeBack(p, b) /\ UNCHANGED <<align, start, cut, all>> /\ UNCHANGED <<using, free, cur>>
      /\ out'[p] # {} \/ cur[cut[p]] = p
  BY WaitingIsOther DEF FreeKeeps, lists, memory
<1>2. TypeOK /\ PagesAccounted /\ IdleIsBounded
  BY DEF IInv, Inv
<1>3. out'[p] = out[p] \ {b} /\ \A q \in Pages \ {p} : out'[q] = out[q]
  BY <1>1, MapLoses
<1>4. \A q \in Sizes : Listed(q)' = Listed(q)
  BY <1>1 DEF Listed
<1>5. PagesAccounted'
  BY <1>1, <1>2, <1>4 DEF PagesAccounted
<1>6. IdleIsBounded'
  <2>1. ASSUME NEW q \in Sizes, NEW o \in using[q], out'[o] = {}
        PROVE  o = cur[q]
    <3>1. CASE o = p
      BY <1>1, <2>1, <3>1, WaitingIsOther
    <3>2. CASE o # p
      <4>1. o \in Pages
        BY <1>2 DEF TypeOK
      <4>2. out[o] = {}
        BY <1>3, <2>1, <3>2, <4>1
      <4> QED BY <1>2, <4>2 DEF IdleIsBounded, Intact
    <3> QED BY <3>1, <3>2
  <2>2. ASSUME NEW q \in Sizes, NEW i \in DOMAIN free[q]
        PROVE  out'[free[q][i]] = {}
    <3>1. free[q][i] \in Range(free[q]) /\ free[q][i] \in Pages
      BY <1>2 DEF Range, TypeOK
    <3>2. free[q][i] # p
      <4>1. p \notin Range(free[q])
        BY <1>1, WaitingIsOther
      <4> QED BY <3>1, <4>1
    <3> QED BY <1>2, <1>3, <3>1, <3>2 DEF IdleIsBounded, Intact
  <2> QED BY <1>1, <1>2, <2>1, <2>2 DEF IdleIsBounded, Intact
<1>7. using' \in [Sizes -> SUBSET Pages] /\ free' \in [Sizes -> Seq(Pages)]
  BY <1>1, <1>2 DEF TypeOK
<1>8. cur' = cur /\ all' = all
  BY <1>1
<1> QED BY <1>1, <1>4, <1>5, <1>6, <1>7, <1>8, FreeKeepsMost

LEMMA RecyclesStep ==
    ASSUME IInv, NEW p \in Pages, NEW b, FreeRecycles(p, b)
    PROVE  IInv'
<1> DEFINE s == cut[p]
<1>1. /\ TakeBack(p, b) /\ out'[p] = {} /\ cur[s] # p /\ Len(free[s]) < RecycleSize
      /\ using' = [using EXCEPT ![s] = @ \ {p}]
      /\ free' = [free EXCEPT ![s] = Append(@, p)]
      /\ UNCHANGED <<align, start, cut, all>> /\ cur' = cur
  <2>1. TakeBack(p, b)
    BY DEF FreeRecycles, Retires
  <2> QED BY <2>1, WaitingIsOther DEF FreeRecycles, Retires, memory
<1>2. TypeOK /\ PagesAccounted /\ IdleIsBounded
  BY DEF IInv, Inv
<1>3. /\ s \in Sizes /\ p \in using[s] /\ \A q \in Sizes : p \notin Range(free[q])
      /\ \A q \in Sizes : p \in using[q] => q = s
  BY <1>1, WaitingIsOther
<1>4. \A q \in Pages \ {p} : out'[q] = out[q]
  BY <1>1, MapLoses
<1>5. free[s] \in Seq(Pages) /\ IsInjective(free[s])
  BY <1>2, <1>3 DEF TypeOK, PagesAccounted
<1> DEFINE f == Append(free[s], p)
<1>6. /\ f \in Seq(Pages) /\ Len(f) = Len(free[s]) + 1
      /\ Range(f) = Range(free[s]) \cup {p} /\ IsInjective(f)
  BY <1>3, <1>5, ListGainsLast
<1> HIDE DEF s, f
<1>7. /\ using'[s] = using[s] \ {p} /\ free'[s] = f
      /\ \A q \in Sizes \ {s} : using'[q] = using[q] /\ free'[q] = free[q]
  BY <1>1, <1>2, <1>3 DEF TypeOK, f, s
<1>8. using' \in [Sizes -> SUBSET Pages] /\ free' \in [Sizes -> Seq(Pages)]
  BY <1>1, <1>2, <1>3, <1>6 DEF TypeOK, f, s
<1>9. \A q \in Sizes : Listed(q)' = Listed(q)
  BY <1>3, <1>6, <1>7 DEF Listed
<1>10. PagesAccounted'
  <2>1. all' = UNION {Listed(q)' : q \in Sizes}
    BY <1>1, <1>2, <1>9 DEF PagesAccounted
  <2>2. \A q \in Sizes : \A o \in Listed(q)' : cut'[o] = q
    BY <1>1, <1>2, <1>9 DEF PagesAccounted
  <2>3. \A q \in Sizes : using'[q] \cap Range(free'[q]) = {} /\ IsInjective(free'[q])
    BY <1>2, <1>6, <1>7 DEF PagesAccounted
  <2>4. \A q \in Sizes : cur'[q] # None => cur'[q] \in using'[q]
    BY <1>1, <1>2, <1>7 DEF PagesAccounted, s
  <2> QED BY <2>1, <2>2, <2>3, <2>4 DEF PagesAccounted
<1>11. IdleIsBounded'
  <2>1. ASSUME NEW q \in Sizes, NEW o \in using'[q], out'[o] = {}
        PROVE  o = cur'[q]
    <3>1. o # p /\ o \in using[q]
      BY <1>3, <1>7
    <3>2. o \in Pages
      BY <1>2, <3>1 DEF TypeOK
    <3>3. out[o] = {}
      BY <1>4, <2>1, <3>1, <3>2
    <3> QED BY <1>1, <1>2, <3>1, <3>3 DEF IdleIsBounded, Intact
  <2>2. ASSUME NEW q \in Sizes, NEW o \in Range(free'[q])
        PROVE  out'[o] = {}
    <3>1. CASE o = p
      BY <1>1, <3>1
    <3>2. CASE o # p
      <4>1. o \in Range(free[q])
        BY <1>6, <1>7, <3>2
      <4>2. out[o] = {} /\ o \in Listed(q)
        BY <4>1, OfList
      <4>3. o \in Pages
        BY <4>2, OfList, OfPage
      <4> QED BY <1>4, <3>2, <4>2, <4>3
    <3> QED BY <3>1, <3>2
  <2>3. \A q \in Sizes : \A i \in DOMAIN free'[q] : out'[free'[q][i]] = {}
    BY <2>2 DEF Range
  <2>4. \A q \in Sizes : Len(free'[q]) <= RecycleSize
    <3>1. Len(free[s]) \in Nat /\ Len(free[s]) < RecycleSize
      BY <1>1, <1>5 DEF s
    <3>2. Len(f) <= RecycleSize
      BY <1>6, <3>1, RecycleAssumption
    <3> QED BY <1>2, <1>7, <3>2 DEF IdleIsBounded
  <2> QED BY <2>1, <2>3, <2>4 DEF IdleIsBounded, Intact
<1> QED BY <1>1, <1>8, <1>9, <1>10, <1>11, FreeKeepsMost

LEMMA DeletesStep ==
    ASSUME IInv, NEW p \in Pages, NEW b, FreeDeletes(p, b)
    PROVE  IInv'
<1> DEFINE s == cut[p]
<1>1. /\ TakeBack(p, b) /\ out'[p] = {} /\ cur[s] # p
      /\ using' = [using EXCEPT ![s] = @ \ {p}]
      /\ all' = all \ {p}
      /\ UNCHANGED <<align, start, cut>> /\ free' = free /\ cur' = cur
  <2>1. TakeBack(p, b)
    BY DEF FreeDeletes, Retires
  <2> QED BY <2>1, WaitingIsOther DEF FreeDeletes, Retires
<1>2. TypeOK /\ PagesAccounted /\ IdleIsBounded
  BY DEF IInv, Inv
<1>3. /\ s \in Sizes /\ p \in using[s] /\ \A q \in Sizes : p \notin Range(free[q])
      /\ \A q \in Sizes : p \in using[q] => q = s
  BY <1>1, WaitingIsOther
<1>4. \A q \in Pages \ {p} : out'[q] = out[q]
  BY <1>1, MapLoses
<1> HIDE DEF s
<1>5. \A q \in Sizes : using'[q] = using[q] \ {p}
  BY <1>1, <1>2, <1>3 DEF TypeOK
<1>6. using' \in [Sizes -> SUBSET Pages] /\ free' \in [Sizes -> Seq(Pages)]
  BY <1>1, <1>2, <1>3 DEF TypeOK
<1>7. \A q \in Sizes : Listed(q)' = Listed(q) \ {p}
  BY <1>1, <1>3, <1>5 DEF Listed
<1>8. PagesAccounted'
  <2>1. all' = UNION {Listed(q)' : q \in Sizes}
    <3>1. all = UNION {Listed(q) : q \in Sizes}
      BY <1>2 DEF PagesAccounted
    <3> QED BY <1>1, <1>7, <3>1
  <2>2. \A q \in Sizes : \A o \in Listed(q)' : cut'[o] = q
    BY <1>1, <1>2, <1>7 DEF PagesAccounted
  <2>3. \A q \in Sizes : using'[q] \cap Range(free'[q]) = {} /\ IsInjective(free'[q])
    BY <1>1, <1>2, <1>5 DEF PagesAccounted
  <2>4. \A q \in Sizes : cur'[q] # None => cur'[q] \in using'[q]
    <3>1. \A q \in Sizes : cur[q] # None => cur[q] \in using[q]
      BY <1>2 DEF PagesAccounted
    <3>2. \A q \in Sizes : cur[q] # None => cur[q] # p
      BY <1>1, <1>3, <3>1
    <3> QED BY <1>1, <1>5, <3>1, <3>2
  <2> QED BY <2>1, <2>2, <2>3, <2>4 DEF PagesAccounted
<1>9. IdleIsBounded'
  <2>1. ASSUME NEW q \in Sizes, NEW o \in using'[q], out'[o] = {}
        PROVE  o = cur'[q]
    <3>1. o # p /\ o \in using[q]
      BY <1>5
    <3>2. o \in Pages
      BY <1>2, <3>1 DEF TypeOK
    <3>3. out[o] = {}
      BY <1>4, <2>1, <3>1, <3>2
    <3> QED BY <1>1, <1>2, <3>1, <3>3 DEF IdleIsBounded, Intact
  <2>2. ASSUME NEW q \in Sizes, NEW o \in Range(free[q])
        PROVE  out'[o] = {}
    <3>1. out[o] = {} /\ o \in Listed(q) /\ o # p
      BY <1>3, OfList
    <3>2. o \in Pages
      BY <3>1, OfList, OfPage
    <3> QED BY <1>4, <3>1, <3>2
  <2>3. \A q \in Sizes : \A i \in DOMAIN free'[q] : out'[free'[q][i]] = {}
    BY <1>1, <2>2 DEF Range
  <2>4. \A q \in Sizes : Len(free'[q]) <= RecycleSize
    BY <1>1, <1>2 DEF IdleIsBounded
  <2> QED BY <2>1, <2>3, <2>4 DEF IdleIsBounded, Intact
<1>10. all' \subseteq all /\ \A q \in all \ all' : out'[q] = {}
  BY <1>1
<1>11. \A q \in Sizes : Listed(q)' \subseteq Listed(q)
  BY <1>7
<1> QED BY <1>1, <1>6, <1>8, <1>9, <1>10, <1>11, FreeKeepsMost

-----------------------------------------------------------------------------
(* The theorems *)

LEMMA InitIInv ==
    ASSUME Init
    PROVE  IInv
<1>1. \A s \in Sizes : align[s] = 0 /\ using[s] = {} /\ free[s] = <<>> /\ cur[s] = None
  BY DEF Init
<1>2. \A s \in Sizes : Listed(s) = {} /\ Len(free[s]) = 0 /\ IsInjective(free[s])
                       /\ DOMAIN free[s] = {}
  BY <1>1 DEF Listed, Range, IsInjective
<1>3. all = {} /\ DOMAIN owner = {} /\ out = [p \in Pages |-> {}]
  BY DEF Init
<1>4. TypeOK
  BY <1>3 DEF Init, TypeOK
<1>5. PagesAccounted
  BY <1>1, <1>2, <1>3 DEF PagesAccounted
<1>6. MapIsExact
  BY <1>3 DEF MapIsExact
<1>7. IdleIsBounded
  BY <1>1, <1>2, RecycleAssumption DEF IdleIsBounded
<1>8. BlocksWellPlaced /\ HasManager /\ OutOfPage
  BY <1>1, <1>2, <1>3 DEF BlocksWellPlaced, HasManager, OutOfPage
<1> QED BY <1>4, <1>5, <1>6, <1>7, <1>8 DEF IInv, Inv

LEMMA AllocateKeepsIInv ==
    ASSUME IInv, NEW r \in Requests, Allocate(r)
    PROVE  IInv'
<1> DEFINE s == AlignedSize(r)
<1>1. s \in Sizes
  BY DEF Sizes
<1>2. \/ AllocateFromCurrent(s) \/ AllocateFromUsing(s) \/ AllocateFromFree(s)
      \/ AllocateNew(r)
  BY DEF Allocate
<1> HIDE DEF s
<1> QED BY <1>1, <1>2, CurrentStep, UsingStep, FreeListStep, NewStep

LEMMA StepKeepsIInv ==
    ASSUME IInv, [Next]_vars
    PROVE  IInv'
<1>1. CASE \E r \in Requests : Allocate(r)
  BY <1>1, AllocateKeepsIInv
<1>2. CASE \E p \in Pages, b \in 1..PageBytes : Free(p, b)
  <2>1. PICK p \in Pages, b \in 1..PageBytes :
           FreeKeeps(p, b) \/ FreeRecycles(p, b) \/ FreeDeletes(p, b)
    BY <1>2 DEF Free
  <2> QED BY <2>1, KeepsStep, RecyclesStep, DeletesStep
<1>3. CASE UNCHANGED vars
  <2>1. /\ align' = align /\ using' = using /\ free' = free /\ cur' = cur /\ all' = all
        /\ start' = start /\ cut' = cut /\ out' = out /\ owner' = owner /\ ret' = ret
    BY <1>3 DEF vars, lists, memory
  <2>2. /\ \A s : Listed(s)' = Listed(s) /\ BlocksOf(s)' = BlocksOf(s)
        /\ \A p : Intact(p)' = Intact(p)
        /\ \A p, b : Address(p, b)' = Address(p, b) /\ Accepts(p, b)' = Accepts(p, b)
    BY <2>1 DEF Listed, BlocksOf, Intact, Address, Accepts
  <2>3. TypeOK' /\ PagesAccounted' /\ MapIsExact'
    <3>1. TypeOK'
      BY ONLY <2>1, IInv DEF TypeOK, IInv, Inv
    <3>2. PagesAccounted'
      BY <2>1, <2>2 DEF IInv, Inv, PagesAccounted
    <3>3. MapIsExact'
      BY ONLY <2>1, IInv DEF MapIsExact, IInv, Inv
    <3> QED BY <3>1, <3>2, <3>3
  <2>4. IdleIsBounded' /\ BlocksWellPlaced' /\ HasManager'
    BY <2>1, <2>2 DEF IInv, Inv, IdleIsBounded, BlocksWellPlaced, HasManager
  <2>5. OutOfPage'
    BY <2>1 DEF IInv, OutOfPage, BlocksOf
  <2> QED BY <2>3, <2>4, <2>5 DEF IInv, Inv
<1> QED BY <1>1, <1>2, <1>3 DEF Next

LEMMA IInvHolds == Spec => []IInv
<1>1. Init => IInv
  BY InitIInv
<1>2. IInv /\ [Next]_vars => IInv'
  BY StepKeepsIInv
<1> QED BY <1>1, <1>2, PTL DEF Spec

\* Whatever is asked for, in whatever order, and however it is given back: no page
\* is lost, no pointer is left behind, the idle memory is bounded, and every
\* block is aligned, inside the memory of its page and taken back by it.
THEOREM PagesRight == Spec => []Inv
<1>1. IInv => Inv
  BY DEF IInv
<1> QED BY <1>1, IInvHolds, PTL

\* A block served by a page that has been there is of a page that is not new.
LEMMA OnlyNewGrows ==
    ASSUME IInv, [Next]_vars, NEW p \in all' \ all
    PROVE  \E r \in Requests : AllocateNew(r)
<1>1. CASE \E r \in Requests : Allocate(r)
  BY <1>1 DEF Allocate, AllocateFromCurrent, AllocateFromUsing, AllocateFromFree, memory
<1>2. CASE \E q \in Pages, b \in 1..PageBytes : Free(q, b)
  BY <1>2 DEF Free, FreeKeeps, FreeRecycles, FreeDeletes, memory
<1>3. CASE UNCHANGED vars
  BY <1>3 DEF vars, memory
<1> QED BY <1>1, <1>2, <1>3 DEF Next

\* FreeToPage and AllocateFromPage leave no page with a block to spare out of
\* sight: memory is asked of the system only when every page of that block size
\* is used up.
THEOREM GrowsWhenFull == Spec => GrowsOnlyWhenFull
<1>1. ASSUME IInv, [Next]_vars
      PROVE  \A p \in all' \ all : \A o \in all : cut[o] = cut'[p] => UsedUp(cut[o], o)
  <2> SUFFICES ASSUME NEW p \in all' \ all, NEW o \in all, cut[o] = cut'[p]
               PROVE  UsedUp(cut[o], o)
    OBVIOUS
  <2>1. PICK r \in Requests : AllocateNew(r)
    BY <1>1, OnlyNewGrows
  <2>2. PICK s \in Sizes, n \in Pages \ all, a \in Starts :
           free[s] = <<>> /\ Serving(s) = {} /\ NewPage(r, s, n, a)
    BY <1>1, <2>1, NewPageIs
  <2>3. p = n /\ cut'[p] = s
    BY <1>1, <2>2 DEF NewPage, IInv, Inv, TypeOK
  <2>4. cut[o] = s /\ o \in Listed(s)
    BY <1>1, <2>3, OfPage
  <2>5. Range(free[s]) = {}
    BY <2>2 DEF Range
  <2>6. o \in using[s]
    BY <2>4, <2>5 DEF Listed
  <2> QED BY <2>2, <2>4, <2>6 DEF Serving
<1>2. IInv /\ [Next]_vars =>
        [\A p \in all' \ all : \A o \in all : cut[o] = cut'[p] => UsedUp(cut[o], o)]_vars
  BY <1>1
<1> QED BY <1>2, IInvHolds, PTL DEF Spec, GrowsOnlyWhenFull

-----------------------------------------------------------------------------
(* Refinement of the heap *)

\* The blocks of a page are counted from 1 and are not more than its bytes.
LEMMA BlocksOfPage ==
    ASSUME IInv, NEW s \in Sizes, Listed(s) # {}
    PROVE  BlocksOf(s) \subseteq 1..PageBytes
<1>1. PICK r \in Requests : AlignedSize(r) = s /\ align[s] = r.align
  BY DEF IInv, HasManager
<1>2. s \in Nat \ {0} /\ align[s] \in Nat \ {0}
  BY <1>1, SizeIsMultiple
<1>3. BlockCount(s, align[s]) \in 0..PageBytes
  BY <1>2, CountRight
<1>4. PageBytes \in Nat
  BY BytesAssumption
<1> QED BY <1>3, <1>4 DEF BlocksOf

LEMMA HeldIs ==
    ASSUME NEW p, NEW b
    PROVE  <<p, b>> \in Held <=> p \in all /\ b \in 1..PageBytes /\ b \in out[p]
BY DEF Held

LEMMA HeldIsNext ==
    ASSUME NEW p, NEW b
    PROVE  <<p, b>> \in Held' <=> p \in all' /\ b \in 1..PageBytes /\ b \in out'[p]
BY DEF Held

LEMMA AllocateHandsOut ==
    ASSUME IInv, NEW r \in Requests, Allocate(r)
    PROVE  \E s \in Sizes, p \in Pages : \E b \in 1..PageBytes :
               b \notin out[p] /\ HandedOut(s, p, b) /\ all' = all \cup {p}
<1>1. ASSUME NEW s \in Sizes, NEW p \in Listed(s), HandOut(s, p, BlocksOf(s), out[p]), all' = all
      PROVE  \E b \in 1..PageBytes :
                 p \in Pages /\ b \notin out[p] /\ HandedOut(s, p, b) /\ all' = all \cup {p}
  <2>1. PICK b \in BlocksOf(s) \ out[p] : HandedOut(s, p, b)
    BY <1>1, HandOutGives
  <2>2. b \in 1..PageBytes
    BY BlocksOfPage
  <2>3. p \in all
    BY OfList
  <2>4. p \in Pages
    BY <2>3, OfPage
  <2> QED BY <1>1, <2>1, <2>2, <2>3, <2>4
<1> DEFINE s == AlignedSize(r)
<1>2. s \in Sizes
  BY DEF Sizes
<1>3. AllocateFromCurrent(s) \/ AllocateFromUsing(s) \/ AllocateFromFree(s) \/ AllocateNew(r)
  BY DEF Allocate
<1> HIDE DEF s
<1>4. CASE AllocateFromCurrent(s)
  <2>1. cur[s] # None /\ HandOut(s, cur[s], BlocksOf(s), out[cur[s]]) /\ all' = all
    BY <1>4 DEF AllocateFromCurrent, CurrentServes, HandOutOf, memory
  <2>2. cur[s] \in Listed(s)
    BY <1>2, <2>1, OfList DEF IInv, Inv, PagesAccounted
  <2> QED BY <1>1, <1>2, <2>1, <2>2
<1>5. CASE AllocateFromUsing(s)
  <2>1. PICK p \in Serving(s) : HandOut(s, p, BlocksOf(s), out[p])
    BY <1>5 DEF AllocateFromUsing, HandOutOf
  <2>2. p \in Listed(s) /\ all' = all
    BY <1>5 DEF AllocateFromUsing, Serving, Listed, memory
  <2> QED BY <1>1, <1>2, <2>1, <2>2
<1>6. CASE AllocateFromFree(s)
  <2>1. /\ HandOut(s, Head(free[s]), BlocksOf(s), out[Head(free[s])])
        /\ free[s] # <<>> /\ all' = all
    BY <1>6 DEF AllocateFromFree, HandOutOf, Recyclable, memory
  <2>2. free[s] \in Seq(Pages) /\ IsInjective(free[s])
    BY <1>2 DEF IInv, Inv, TypeOK, PagesAccounted
  <2>3. Head(free[s]) \in Range(free[s])
    BY <2>1, <2>2, ListLosesHead
  <2>4. Head(free[s]) \in Listed(s)
    BY <1>2, <2>3, OfList
  <2> QED BY <1>1, <1>2, <2>1, <2>4
<1>7. CASE AllocateNew(r)
  <2>1. PICK m \in Sizes, p \in Pages \ all, a \in Starts :
           NewPage(r, m, p, a) /\ HandOut(m, p, 1..BlockCount(m, AlignOf(r)), out[p])
    BY <1>7, NewPageIs
  <2>2. PICK b \in 1..BlockCount(m, AlignOf(r)) \ out[p] : HandedOut(m, p, b)
    BY <2>1, HandOutGives
  <2>3. IInv'
    BY <1>7, NewStep
  <2>4. p \in all' /\ b \in out'[p]
    BY <2>1, <2>2 DEF NewPage, HandedOut, IInv, Inv, TypeOK
  <2>5. b \in 1..PageBytes
    <3>1. BlocksOf(m)' = 1..BlockCount(m, AlignOf(r)) /\ p \in Listed(m)'
      BY <2>1 DEF NewPage, BlocksOf, Listed, IInv, Inv, TypeOK
    <3>2. PICK k \in Requests : AlignedSize(k) = m /\ align'[m] = k.align
      BY <2>3, <3>1 DEF IInv, HasManager
    <3>3. BlocksOf(m)' = 1..BlockCount(m, k.align)
      BY <3>2 DEF BlocksOf
    <3>4. m \in Nat \ {0} /\ k.align \in Nat \ {0}
      BY <3>2, SizeIsMultiple
    <3>5. BlockCount(m, k.align) \in 0..PageBytes /\ PageBytes \in Nat
      BY <3>4, CountRight, BytesAssumption
    <3>6. b \in 1..BlockCount(m, k.align)
      BY <2>2, <3>1, <3>3
    <3> QED BY ONLY <3>5, <3>6
  <2>6. all' = all \cup {p}
    BY <2>1 DEF NewPage
  <2> QED BY <2>1, <2>2, <2>5, <2>6
<1> QED BY <1>2, <1>3, <1>4, <1>5, <1>6, <1>7

LEMMA AllocateRefines ==
    ASSUME IInv, NEW r \in Requests, Allocate(r)
    PROVE  HeapOfPages!HAllocate
<1>1. PICK s \in Sizes, p \in Pages, b \in 1..PageBytes :
         b \notin out[p] /\ HandedOut(s, p, b) /\ all' = all \cup {p}
  BY AllocateHandsOut
<1>2. ret' = <<p, b>> /\ <<p, b>> \in Pages \X (1..PageBytes) /\ <<p, b>> \notin Held
  BY <1>1, HeldIs DEF HandedOut
<1>3. Held' = Held \cup {<<p, b>>}
  <2>1. /\ out'[p] = out[p] \cup {b} /\ \A o \in Pages \ {p} : out'[o] = out[o]
        /\ all \subseteq Pages /\ \A o \in Pages \ all : out[o] = {}
    BY <1>1 DEF HandedOut, IInv, Inv, TypeOK, MapIsExact
  <2>2. ASSUME NEW o, NEW c
        PROVE  <<o, c>> \in Held' <=> <<o, c>> \in Held \/ <<o, c>> = <<p, b>>
    <3>1. CASE o = p
      <4>1. p \notin all => out[p] = {}
        BY <2>1
      <4> QED BY <1>1, <2>1, <3>1, <4>1, HeldIs, HeldIsNext
    <3>2. CASE o # p
      BY <1>1, <2>1, <3>2, HeldIs, HeldIsNext
    <3> QED BY <3>1, <3>2
  <2>3. \A q \in Held \cup Held' : \E o, c : q = <<o, c>>
    BY DEF Held
  <2> QED BY <2>2, <2>3
<1> QED BY <1>2, <1>3 DEF HeapOfPages!HAllocate

LEMMA FreeRefines ==
    ASSUME IInv, NEW p \in Pages, NEW b \in 1..PageBytes, Free(p, b)
    PROVE  HeapOfPages!HFree
<1>1. /\ TakeBack(p, b) /\ cut' = cut /\ all' \subseteq all
      /\ \A q \in all \ all' : q = p /\ out'[p] = {}
  BY DEF Free, FreeKeeps, FreeRecycles, FreeDeletes, Retires, memory
<1>2. p \in all /\ b \in out[p]
  BY <1>1, FreedIsOut DEF TakeBack
<1>3. out'[p] = out[p] \ {b} /\ \A q \in Pages \ {p} : out'[q] = out[q]
  BY <1>1, MapLoses
<1>4. <<p, b>> \in Held
  BY <1>2, HeldIs
<1>5. Held' = Held \ {<<p, b>>}
  <2>1. all \subseteq Pages
    BY DEF IInv, Inv, TypeOK
  <2>2. ASSUME NEW o, NEW c
        PROVE  <<o, c>> \in Held' <=> <<o, c>> \in Held /\ <<o, c>> # <<p, b>>
    <3>1. CASE o = p
      BY <1>1, <1>2, <1>3, <3>1, HeldIs, HeldIsNext
    <3>2. CASE o # p
      BY <1>1, <1>3, <2>1, <3>2, HeldIs, HeldIsNext
    <3> QED BY <3>1, <3>2
  <2>3. \A q \in Held \cup Held' : \E o, c : q = <<o, c>>
    BY DEF Held
  <2> QED BY <2>2, <2>3
<1>6. ret' = ret
  BY <1>1 DEF TakeBack
<1> QED BY <1>4, <1>5, <1>6 DEF HeapOfPages!HFree

LEMMA StepRefines == IInv /\ [Next]_vars => [HeapOfPages!HNext]_(HeapOfPages!hvars)
<1> SUFFICES ASSUME IInv, [Next]_vars
             PROVE  HeapOfPages!HNext \/ UNCHANGED HeapOfPages!hvars
  OBVIOUS
<1>1. CASE \E r \in Requests : Allocate(r)
  BY <1>1, AllocateRefines DEF HeapOfPages!HNext
<1>2. CASE \E p \in Pages, b \in 1..PageBytes : Free(p, b)
  BY <1>2, FreeRefines DEF HeapOfPages!HNext
<1>3. CASE UNCHANGED vars
  BY <1>3 DEF vars, memory, HeapOfPages!hvars, Held
<1> QED BY <1>1, <1>2, <1>3 DEF Next

\* The managers with their lists of pages implement the heap: no block is handed
\* out while a user has it, and none leaves its user but by Free, whatever pages
\* are recycled or deleted meanwhile.
THEOREM PagesImplementHeap == Spec => ImplementsHeap
<1>1. Init => HeapOfPages!HInit
  BY DEF Init, HeapOfPages!HInit, Held
<1> QED
  BY <1>1, StepRefines, IInvHolds, PTL DEF Spec, ImplementsHeap, HeapOfPages!HSpec

=============================================================================
