-------------------------- MODULE NetClient_proof --------------------------
(***************************************************************************)
(* Proofs about NetClient for any number of messages that wait for the     *)
(* main thread.                                                            *)
(*                                                                         *)
(* The inductive invariant IInv says what the job queue can hold: the      *)
(* first postin_connect is alone (Fresh), and a second real_connect never  *)
(* waits behind a first or runs on a socket that is in use (OneOpen),      *)
(* although the last expiry of the reconnect timer posts one too.          *)
(***************************************************************************)
EXTENDS NetClient, SequenceTheorems, FiniteSetTheorems, TLAPS

JobNames == {"connect", "open", "close", "sfini", "rwait", "twait", "rfini", "tfini"}
Told == {"up", "msg", "down"}
Heard == Told \cup {"none"}

Has(q, op) == \E i \in DOMAIN q : q[i] = op

\* At most one real_connect waits, and no real_fini of the reconnect timer
\* before it.
OpenOnce(q) == \A i, k \in DOMAIN q : q[i] = "open" /\ q[k] = "open" => i = k
NoFiniBefore(q) == \A i, k \in DOMAIN q : q[i] = "open" /\ k < i => q[k] # "rfini"

\* The client's references held by jobs.
Owned(q) == Cardinality({i \in DOMAIN q : q[i] \in {"connect", "close"}})

\* Until postin_connect has run nothing else has happened to the client.
Fresh ==
    Has(jobs, "connect") =>
        /\ jobs = <<"connect">>
        /\ sstat = "null" /\ ~binit /\ ~ccb /\ recv = "none"
        /\ ~busing /\ status = "closed"
        /\ tstat["reconnect"] = "null" /\ tstat["timeout"] = "null"
        /\ armed = {}

\* A real_connect waits for a socket that is not in use, and the last expiry of
\* the reconnect timer, which may post another, is over or still ahead of it.
OneOpen ==
    Has(jobs, "open") =>
        /\ sstat = "null"
        /\ OpenOnce(jobs)
        /\ \/ tstat["reconnect"] = "null" /\ "reconnect" \notin armed
           \/ tstat["reconnect"] # "end" /\ NoFiniBefore(jobs)

\* The client's view of its socket.
Linked ==
    /\ binit = ccb
    /\ ~ccb => sstat = "null"
    /\ recv # "none" => status = "connected"
    /\ status = "connected" => sstat = "common"

\* The references, counted one by one.
Balanced ==
    refs = One(held) + One(ccb) + One(tstat["reconnect"] # "null")
           + One(tstat["timeout"] # "null") + Owned(jobs)

\* A story of the main thread.
Ordered(q) == \A i \in 1..(Len(q) - 1) : <<q[i], q[i + 1]>> \in Follows

IInv ==
    /\ TypeOK
    /\ Fresh
    /\ OneOpen
    /\ Linked
    /\ Balanced
    /\ EventsInOrder

-----------------------------------------------------------------------------
(* The job queue *)

\* A job is taken from the front ...
LEMMA Taken ==
    ASSUME NEW q \in Seq(JobNames), q # <<>>
    PROVE  /\ Tail(q) \in Seq(JobNames)
           /\ Has(q, Head(q))
           /\ \A op : Has(Tail(q), op) => Has(q, op)
           /\ OpenOnce(q) => OpenOnce(Tail(q))
           /\ NoFiniBefore(q) => NoFiniBefore(Tail(q))
           /\ OpenOnce(q) /\ Head(q) = "open" => ~Has(Tail(q), "open")
           /\ NoFiniBefore(q) /\ Head(q) = "rfini" => ~Has(Tail(q), "open")
  <1>1. /\ Tail(q) \in Seq(JobNames)
        /\ Len(Tail(q)) = Len(q) - 1
        /\ \A i \in 1..Len(Tail(q)) : Tail(q)[i] = q[i + 1]
        /\ Head(q) = q[1]
    BY HeadTailProperties
  <1>2. /\ Len(q) \in Nat \ {0} /\ DOMAIN q = 1..Len(q)
        /\ DOMAIN Tail(q) = 1..(Len(q) - 1)
    BY <1>1, LenProperties, EmptySeq
  <1>3. \A i \in DOMAIN Tail(q) : i + 1 \in DOMAIN q /\ Tail(q)[i] = q[i + 1] /\ i + 1 # 1 /\ 1 < i + 1
    BY <1>1, <1>2
  <1>4. Has(q, Head(q)) /\ \A op : Has(Tail(q), op) => Has(q, op)
    BY <1>1, <1>2, <1>3 DEF Has
  <1>5. /\ OpenOnce(q) => OpenOnce(Tail(q))
        /\ NoFiniBefore(q) => NoFiniBefore(Tail(q))
    BY <1>2, <1>3 DEF OpenOnce, NoFiniBefore
  <1>6. 1 \in DOMAIN q
    BY <1>2
  <1>7. /\ OpenOnce(q) /\ Head(q) = "open" => ~Has(Tail(q), "open")
        /\ NoFiniBefore(q) /\ Head(q) = "rfini" => ~Has(Tail(q), "open")
    BY <1>1, <1>3, <1>6 DEF OpenOnce, NoFiniBefore, Has
  <1> QED BY <1>1, <1>4, <1>5, <1>7

\* ... and jobs are added at the end.
LEMMA Added ==
    ASSUME NEW q \in Seq(JobNames), NEW s \in Seq(JobNames)
    PROVE  /\ q \o s \in Seq(JobNames)
           /\ \A op : Has(q \o s, op) <=> Has(q, op) \/ Has(s, op)
           /\ OpenOnce(q) /\ ~Has(s, "open") => OpenOnce(q \o s)
           /\ NoFiniBefore(q) /\ ~Has(s, "open") => NoFiniBefore(q \o s)
           /\ OpenOnce(s) /\ ~Has(q, "open") => OpenOnce(q \o s)
  <1>1. /\ q \o s \in Seq(JobNames)
        /\ Len(q) \in Nat /\ DOMAIN q = 1..Len(q)
        /\ Len(s) \in Nat /\ DOMAIN s = 1..Len(s)
        /\ DOMAIN (q \o s) = 1..(Len(q) + Len(s))
    BY ConcatProperties, LenProperties
  <1>2. \A i \in DOMAIN (q \o s) :
           \/ i \in DOMAIN q /\ (q \o s)[i] = q[i]
           \/ /\ i > Len(q) /\ i - Len(q) \in DOMAIN s
              /\ (q \o s)[i] = s[i - Len(q)]
    BY <1>1, ConcatProperties
  <1>3. /\ \A i \in DOMAIN q : i \in DOMAIN (q \o s) /\ (q \o s)[i] = q[i]
        /\ \A i \in DOMAIN s : i + Len(q) \in DOMAIN (q \o s) /\ (q \o s)[i + Len(q)] = s[i]
    BY <1>1, ConcatProperties
  <1>4. \A op : Has(q \o s, op) <=> Has(q, op) \/ Has(s, op)
    BY <1>2, <1>3 DEF Has
  <1>5. OpenOnce(q) /\ ~Has(s, "open") => OpenOnce(q \o s)
    BY <1>2 DEF OpenOnce, Has
  <1>6. NoFiniBefore(q) /\ ~Has(s, "open") => NoFiniBefore(q \o s)
    <2> SUFFICES ASSUME NoFiniBefore(q), ~Has(s, "open"),
                        NEW i \in DOMAIN (q \o s), NEW k \in DOMAIN (q \o s),
                        (q \o s)[i] = "open", k < i
                 PROVE  (q \o s)[k] # "rfini"
      BY DEF NoFiniBefore
    <2>1. i \in DOMAIN q /\ (q \o s)[i] = q[i]
      BY <1>2 DEF Has
    <2>2. k \in DOMAIN q /\ (q \o s)[k] = q[k]
      BY <1>1, <1>2, <2>1
    <2> QED BY <2>1, <2>2 DEF NoFiniBefore
  <1>7. OpenOnce(s) /\ ~Has(q, "open") => OpenOnce(q \o s)
    <2> SUFFICES ASSUME OpenOnce(s), ~Has(q, "open"),
                        NEW i \in DOMAIN (q \o s), NEW k \in DOMAIN (q \o s),
                        (q \o s)[i] = "open", (q \o s)[k] = "open"
                 PROVE  i = k
      BY DEF OpenOnce
    <2>1. /\ i - Len(q) \in DOMAIN s /\ s[i - Len(q)] = "open"
          /\ k - Len(q) \in DOMAIN s /\ s[k - Len(q)] = "open"
      BY <1>2 DEF Has
    <2>2. i - Len(q) = k - Len(q)
      BY <2>1 DEF OpenOnce
    <2> QED BY <1>1, <2>2
  <1> QED BY <1>1, <1>4, <1>5, <1>6, <1>7

\* One job, or none.
LEMMA OneJob ==
    ASSUME NEW op \in JobNames, NEW b
    PROVE  /\ If(b, <<op>>) \in Seq(JobNames)
           /\ \A x : Has(If(b, <<op>>), x) => x = op
           /\ OpenOnce(If(b, <<op>>))
  <1>1. <<op>> \in Seq(JobNames) /\ <<>> \in Seq(JobNames)
    BY EmptySeq
  <1>2. /\ \A x : Has(<<op>>, x) => x = op
        /\ \A x : ~Has(<<>>, x)
        /\ OpenOnce(<<op>>) /\ OpenOnce(<<>>)
    BY EmptySeq DEF Has, OpenOnce
  <1> QED BY <1>1, <1>2 DEF If

-----------------------------------------------------------------------------
(* References held by jobs *)

OwnedSet(q) == {i \in DOMAIN q : q[i] \in {"connect", "close"}}

LEMMA OwnedFinite ==
    ASSUME NEW q \in Seq(JobNames)
    PROVE  IsFiniteSet(OwnedSet(q)) /\ Owned(q) = Cardinality(OwnedSet(q)) /\ Owned(q) \in Nat
  <1>1. Len(q) \in Nat /\ DOMAIN q = 1..Len(q)
    BY LenProperties
  <1>2. IsFiniteSet(1..Len(q))
    BY <1>1, FS_Interval
  <1>3. IsFiniteSet(OwnedSet(q))
    BY <1>1, <1>2, FS_Subset DEF OwnedSet
  <1> QED BY <1>3, FS_CardinalityType DEF Owned, OwnedSet

LEMMA NoneOwned == \A q : q = <<>> => Owned(q) = 0
  <1>1. DOMAIN <<>> = {}
    BY EmptySeq
  <1> QED BY <1>1, FS_EmptySet DEF Owned

LEMMA OneType == One(TRUE) = 1 /\ One(FALSE) = 0 /\ \A b : One(b) \in {0, 1}
  BY DEF One

\* A job that has run no longer holds its reference.
LEMMA OwnedTaken ==
    ASSUME NEW q \in Seq(JobNames), q # <<>>
    PROVE  Owned(Tail(q)) = Owned(q) - One(Head(q) \in {"connect", "close"})
  <1>1. /\ Tail(q) \in Seq(JobNames)
        /\ Len(Tail(q)) = Len(q) - 1
        /\ \A i \in 1..Len(Tail(q)) : Tail(q)[i] = q[i + 1]
        /\ Head(q) = q[1]
    BY HeadTailProperties
  <1>2. /\ Len(q) \in Nat \ {0} /\ DOMAIN q = 1..Len(q)
        /\ DOMAIN Tail(q) = 1..(Len(q) - 1)
    BY <1>1, LenProperties, EmptySeq
  <1> DEFINE S == OwnedSet(Tail(q))
             T == OwnedSet(q) \ {1}
             f == [i \in S |-> i + 1]
  <1>3. f \in Bijection(S, T)
    <2>1. \A i \in S : i + 1 \in T
      BY <1>1, <1>2 DEF OwnedSet
    <2>2. \A j \in T : j - 1 \in S /\ (j - 1) + 1 = j
      BY <1>1, <1>2 DEF OwnedSet
    <2>3. \A a, b \in S : f[a] = f[b] => a = b
      BY <1>2 DEF OwnedSet
    <2>4. f \in [S -> T] /\ \A j \in T : \E i \in S : f[i] = j
      BY <2>1, <2>2
    <2> QED BY <2>3, <2>4 DEF Bijection, Injection, Surjection, IsInjective
  <1>4. IsFiniteSet(S) /\ IsFiniteSet(OwnedSet(q))
    BY <1>1, OwnedFinite
  <1>5. Cardinality(T) = Cardinality(S)
    <2>1. ExistsBijection(S, T)
      BY <1>3 DEF ExistsBijection
    <2> HIDE DEF S, T
    <2> QED BY <1>4, <2>1, FS_Bijection
  <1>6. 1 \in OwnedSet(q) <=> Head(q) \in {"connect", "close"}
    BY <1>1, <1>2 DEF OwnedSet
  <1>7. Cardinality(T) = Cardinality(OwnedSet(q)) - One(Head(q) \in {"connect", "close"})
    <2>1. CASE Head(q) \in {"connect", "close"}
      BY <1>4, <1>6, <2>1, FS_RemoveElement DEF One
    <2>2. CASE ~(Head(q) \in {"connect", "close"})
      <3>1. T = OwnedSet(q)
        BY <1>6, <2>2
      <3>2. Cardinality(T) \in Nat /\ Cardinality(T) = Cardinality(OwnedSet(q))
        BY <1>4, <3>1, FS_CardinalityType
      <3>3. One(Head(q) \in {"connect", "close"}) = 0
        BY <2>2 DEF One
      <3> QED BY <3>2, <3>3
    <2> QED BY <2>1, <2>2
  <1> QED BY <1>1, <1>5, <1>7, OwnedFinite

\* Only postin_connect and postin_close hold one ...
LEMMA OwnedAdded ==
    ASSUME NEW q \in Seq(JobNames), NEW s \in Seq(JobNames),
           ~Has(s, "connect"), ~Has(s, "close")
    PROVE  Owned(q \o s) = Owned(q)
  <1>1. /\ Len(q) \in Nat /\ DOMAIN q = 1..Len(q)
        /\ Len(s) \in Nat /\ DOMAIN s = 1..Len(s)
        /\ DOMAIN (q \o s) = 1..(Len(q) + Len(s))
    BY ConcatProperties, LenProperties
  <1>2. \A i \in DOMAIN (q \o s) :
           \/ i \in DOMAIN q /\ (q \o s)[i] = q[i]
           \/ i \notin DOMAIN q /\ \E j \in DOMAIN s : (q \o s)[i] = s[j]
    BY <1>1, ConcatProperties
  <1>3. \A i \in DOMAIN q : i \in DOMAIN (q \o s)
    BY <1>1
  <1>4. OwnedSet(q \o s) = OwnedSet(q)
    BY <1>2, <1>3 DEF OwnedSet, Has
  <1> QED BY <1>4 DEF Owned, OwnedSet

\* ... and a postin_close that is posted holds a new one.
LEMMA OwnedClose ==
    ASSUME NEW q \in Seq(JobNames)
    PROVE  Owned(Append(q, "close")) = Owned(q) + 1
  <1>1. /\ Len(q) \in Nat /\ DOMAIN q = 1..Len(q)
        /\ DOMAIN Append(q, "close") = 1..(Len(q) + 1)
        /\ \A i \in 1..Len(q) : Append(q, "close")[i] = q[i]
        /\ Append(q, "close")[Len(q) + 1] = "close"
        /\ Append(q, "close") \in Seq(JobNames)
    BY AppendProperties, LenProperties DEF JobNames
  <1>2. /\ OwnedSet(Append(q, "close")) = OwnedSet(q) \cup {Len(q) + 1}
        /\ Len(q) + 1 \notin OwnedSet(q)
    BY <1>1 DEF OwnedSet
  <1>3. IsFiniteSet(OwnedSet(q)) /\ Owned(q) = Cardinality(OwnedSet(q))
    BY OwnedFinite
  <1>4. Owned(Append(q, "close")) = Cardinality(OwnedSet(q) \cup {Len(q) + 1})
    BY <1>1, <1>2, OwnedFinite
  <1>5. Cardinality(OwnedSet(q) \cup {Len(q) + 1}) = Cardinality(OwnedSet(q)) + 1
    BY <1>2, <1>3, FS_AddElement
  <1> QED BY <1>3, <1>4, <1>5

\* The timers' references.
LEMMA TimerRefs ==
    ASSUME tstat \in [Timers -> {"null", "init", "on", "end"}]
    PROVE  Cardinality({t \in Timers : tstat[t] # "null"})
               = One(tstat["reconnect"] # "null") + One(tstat["timeout"] # "null")
  <1> DEFINE S == {t \in Timers : tstat[t] # "null"}
  <1>1. Cardinality({}) = 0 /\ Cardinality({"reconnect"}) = 1 /\ Cardinality({"timeout"}) = 1
    BY FS_EmptySet, FS_Singleton
  <1>2. Cardinality({"reconnect", "timeout"}) = 2
    <2>1. {"reconnect", "timeout"} = {"reconnect"} \cup {"timeout"}
      OBVIOUS
    <2>2. "timeout" \notin {"reconnect"} /\ IsFiniteSet({"reconnect"})
      BY FS_Singleton
    <2>3. Cardinality({"reconnect"} \cup {"timeout"}) = Cardinality({"reconnect"}) + 1
      BY <2>2, FS_AddElement
    <2> QED BY <1>1, <2>1, <2>3
  <1>3. S = {} \/ S = {"reconnect"} \/ S = {"timeout"} \/ S = {"reconnect", "timeout"}
    BY DEF Timers
  <1>4. /\ "reconnect" \in S <=> tstat["reconnect"] # "null"
        /\ "timeout" \in S <=> tstat["timeout"] # "null"
    BY DEF Timers
  <1> HIDE DEF S
  <1>5. Cardinality(S) = One("reconnect" \in S) + One("timeout" \in S)
    <2>1. CASE S = {}
      BY <1>1, <2>1 DEF One
    <2>2. CASE S = {"reconnect"}
      BY <1>1, <2>2 DEF One
    <2>3. CASE S = {"timeout"}
      BY <1>1, <2>3 DEF One
    <2>4. CASE S = {"reconnect", "timeout"}
      BY <1>2, <2>4 DEF One
    <2> QED BY <1>3, <2>1, <2>2, <2>3, <2>4
  <1> QED BY <1>4, <1>5 DEF S, One

-----------------------------------------------------------------------------
(* What the main thread hears *)

LEMMA StoryGoesOn ==
    ASSUME NEW m \in Seq(Heard), NEW x \in Heard, NEW e \in Heard,
           Ordered(<<x>> \o m),
           <<(<<x>> \o m)[Len(<<x>> \o m)], e>> \in Follows
    PROVE  LET q == <<x>> \o Append(m, e)
           IN  Ordered(q) /\ q[Len(q)] = e
  <1> DEFINE p == <<x>> \o m
             q == <<x>> \o Append(m, e)
  <1>1. /\ Len(m) \in Nat
        /\ Append(m, e) \in Seq(Heard) /\ Len(Append(m, e)) = Len(m) + 1
        /\ \A i \in 1..Len(m) : Append(m, e)[i] = m[i]
        /\ Append(m, e)[Len(m) + 1] = e
        /\ <<x>> \in Seq(Heard) /\ Len(<<x>>) = 1 /\ <<x>>[1] = x
    BY AppendProperties, LenProperties
  <1>2. /\ Len(p) = Len(m) + 1 /\ p[1] = x
        /\ \A i \in 1..Len(m) : p[i + 1] = m[i]
    BY <1>1, ConcatProperties
  <1>3. /\ Len(q) = Len(m) + 2 /\ q[1] = x
        /\ \A i \in 1..(Len(m) + 1) : q[i + 1] = Append(m, e)[i]
    BY <1>1, ConcatProperties
  <1> HIDE DEF p, q
  <1>4. \A i \in 1..Len(p) : q[i] = p[i]
    <2> TAKE i \in 1..Len(p)
    <2>1. CASE i = 1
      BY <1>2, <1>3, <2>1
    <2>2. CASE i # 1
      <3>1. i - 1 \in 1..Len(m) /\ (i - 1) + 1 = i
        BY <1>1, <1>2, <2>2
      <3>2. i - 1 \in 1..(Len(m) + 1)
        BY <1>1, <3>1
      <3>3. p[i] = m[i - 1] /\ Append(m, e)[i - 1] = m[i - 1] /\ q[i] = Append(m, e)[i - 1]
        BY <1>1, <1>2, <1>3, <3>1, <3>2
      <3> QED BY <3>3
    <2> QED BY <2>1, <2>2
  <1>5. q[Len(q)] = e
    <2>1. Len(m) + 1 \in 1..(Len(m) + 1) /\ Len(q) = (Len(m) + 1) + 1
      BY <1>1, <1>3
    <2> QED BY <1>1, <1>3, <2>1
  <1>6. Ordered(q)
    <2> SUFFICES ASSUME NEW i \in 1..(Len(q) - 1) PROVE <<q[i], q[i + 1]>> \in Follows
      BY DEF Ordered
    <2>1. CASE i < Len(p)
      <3>1. i \in 1..(Len(p) - 1) /\ i \in 1..Len(p) /\ i + 1 \in 1..Len(p)
        BY <1>1, <1>2, <2>1
      <3> QED BY <1>4, <3>1 DEF Ordered, p
    <2>2. CASE ~(i < Len(p))
      <3>1. i = Len(p) /\ i \in 1..Len(p) /\ i + 1 = Len(q)
        BY <1>1, <1>2, <1>3, <2>2
      <3> QED BY <1>4, <1>5, <3>1 DEF p
    <2> QED BY <2>1, <2>2
  <1> QED BY <1>5, <1>6 DEF q

LEMMA StoryIsHeard ==
    ASSUME NEW m \in Seq(Heard), NEW x \in Heard, m # <<>>, Ordered(<<x>> \o m)
    PROVE  LET p == <<x>> \o m
               q == <<Head(m)>> \o Tail(m)
           IN  Ordered(q) /\ q[Len(q)] = p[Len(p)]
  <1> DEFINE p == <<x>> \o m
             q == <<Head(m)>> \o Tail(m)
  <1>1. q = m
    BY HeadTailProperties
  <1>2. Len(m) \in Nat \ {0} /\ <<x>> \in Seq(Heard) /\ Len(<<x>>) = 1
    BY LenProperties, EmptySeq
  <1>3. Len(p) = Len(m) + 1 /\ \A i \in 1..Len(m) : p[i + 1] = m[i]
    BY <1>2, ConcatProperties
  <1>4. q[Len(q)] = p[Len(p)]
    BY <1>1, <1>2, <1>3
  <1>5. Ordered(q)
    <2> SUFFICES ASSUME NEW i \in 1..(Len(m) - 1) PROVE <<m[i], m[i + 1]>> \in Follows
      BY <1>1 DEF Ordered
    <2>1. i + 1 \in 1..(Len(p) - 1) /\ i \in 1..Len(m) /\ i + 1 \in 1..Len(m)
      BY <1>2, <1>3
    <2> QED BY <1>3, <2>1 DEF Ordered
  <1> QED BY <1>4, <1>5

\* What the invariant says of the story so far.
LEMMA StoryType ==
    ASSUME IInv
    PROVE  /\ main \in Seq(Heard) /\ told \in Heard
           /\ Ordered(Story)
           /\ Story[Len(Story)] \in Heard
           /\ status = "connected" <=> Story[Len(Story)] \in {"up", "msg"}
  <1>1. main \in Seq(Heard) /\ told \in Heard
    BY SeqMonotonic DEF IInv, TypeOK, Heard, Told
  <1>2. <<told>> \in Seq(Heard) /\ Len(<<told>>) = 1 /\ Len(main) \in Nat
    BY <1>1, LenProperties
  <1>3. Story \in Seq(Heard) /\ Len(Story) = Len(main) + 1
    BY <1>1, <1>2, ConcatProperties DEF Story
  <1>4. Story[Len(Story)] \in Heard
    BY <1>2, <1>3, ElementOfSeq
  <1> QED BY <1>1, <1>4 DEF IInv, EventsInOrder, Ordered

\* The main thread is told something that may follow.
LEMMA Tells ==
    ASSUME IInv, NEW e \in Told,
           <<Story[Len(Story)], e>> \in Follows,
           main' = Append(main, e), told' = told,
           status' = "connected" <=> e \in {"up", "msg"}
    PROVE  EventsInOrder'
  <1>1. e \in Heard
    BY DEF Told, Heard
  <1>2. Ordered(<<told>> \o Append(main, e))
        /\ (<<told>> \o Append(main, e))[Len(<<told>> \o Append(main, e))] = e
    BY <1>1, StoryType, StoryGoesOn DEF Story
  <1>3. Story' = <<told>> \o Append(main, e)
    BY DEF Story
  <1> QED BY <1>2, <1>3 DEF EventsInOrder, Ordered

\* That the connection is down may follow anything.
LEMMA TellsDown ==
    ASSUME IInv, CloseLink, told' = told
    PROVE  EventsInOrder'
  <1>1. CASE ccb
    <2>1. main' = Append(main, "down") /\ status' = "closed"
      BY <1>1 DEF CloseLink
    <2>2. <<Story[Len(Story)], "down">> \in Follows
      BY StoryType DEF Heard, Told, Follows
    <2> QED BY <2>1, <2>2, Tells DEF Told
  <1>2. CASE ~ccb
    BY <1>2 DEF CloseLink, IInv, EventsInOrder, Story
  <1> QED BY <1>1, <1>2

LEMMA CloseLinkTypes ==
    ASSUME IInv, CloseLink
    PROVE  main' \in Seq(Told) /\ status' \in {"closed", "connecting", "connected"}
  <1>1. main \in Seq(Told) /\ status \in {"closed", "connecting", "connected"}
    BY DEF IInv, TypeOK, Told
  <1>2. Append(main, "down") \in Seq(Told)
    BY <1>1, AppendProperties DEF Told
  <1> QED BY <1>1, <1>2 DEF CloseLink

-----------------------------------------------------------------------------
(* The initial state *)

LEMMA InitIInv == Init => IInv
  <1> SUFFICES ASSUME Init PROVE IInv
    OBVIOUS
  <1>1. jobs = <<"connect">> /\ jobs \in Seq(JobNames) /\ main \in Seq(Told)
    BY EmptySeq DEF Init, JobNames
  <1>2. Tail(jobs) = <<>> /\ Head(jobs) = "connect"
    BY <1>1
  <1>3. Owned(jobs) = 1
    <2>1. One(Head(jobs) \in {"connect", "close"}) = 1
      BY <1>2 DEF One
    <2>2. Owned(Tail(jobs)) = Owned(jobs) - One(Head(jobs) \in {"connect", "close"})
      BY <1>1, OwnedTaken
    <2>3. Owned(jobs) \in Nat
      BY <1>1, OwnedFinite
    <2>4. Owned(Tail(jobs)) = 0
      BY <1>2, NoneOwned
    <2> QED BY <2>1, <2>2, <2>3, <2>4
  <1>4. ~Has(jobs, "open")
    BY <1>1 DEF Has
  <1>5. TypeOK
    <2>1. tstat \in [Timers -> {"null", "init", "on", "end"}]
      BY DEF Init
    <2>2. /\ binit \in BOOLEAN /\ ccb \in BOOLEAN /\ busing \in BOOLEAN
          /\ held \in BOOLEAN /\ ignored \in BOOLEAN
      BY Zenon DEF Init
    <2>3. refs \in Nat
      BY DEF Init
    <2> QED BY <1>1, <2>1, <2>2, <2>3, Zenon DEF Init, TypeOK, JobNames, Told
  <1>6. Fresh
    BY <1>1 DEF Init, Fresh, Timers
  <1>7. OneOpen /\ Linked
    BY <1>4 DEF Init, OneOpen, Linked
  <1>8. Balanced
    BY <1>3 DEF Init, Balanced, One, Timers
  <1>9. EventsInOrder
    BY DEF Init, EventsInOrder, Story
  <1> QED BY <1>5, <1>6, <1>7, <1>8, <1>9 DEF IInv

-----------------------------------------------------------------------------
(* What the steps do to the queue *)

\* The job that runs, and what is left.
LEMMA RunFacts ==
    ASSUME IInv, NEW op, Runs(op)
    PROVE  /\ Tail(jobs) \in Seq(JobNames)
           /\ Has(jobs, op)
           /\ \A x : Has(Tail(jobs), x) => Has(jobs, x)
           /\ OpenOnce(jobs) => OpenOnce(Tail(jobs))
           /\ NoFiniBefore(jobs) => NoFiniBefore(Tail(jobs))
           /\ op = "open" => ~Has(Tail(jobs), "open")
           /\ op = "rfini" /\ NoFiniBefore(jobs) => ~Has(Tail(jobs), "open")
           /\ op # "connect" => ~Has(jobs, "connect") /\ ~Has(Tail(jobs), "connect")
           /\ op = "connect" => Tail(jobs) = <<>>
           /\ Owned(Tail(jobs)) = Owned(jobs) - One(op \in {"connect", "close"})
           /\ Owned(jobs) \in Nat
           /\ op = "connect" => Owned(jobs) = 1
  <1>1. jobs \in Seq(JobNames) /\ jobs # <<>> /\ Head(jobs) = op
    BY DEF IInv, TypeOK, Runs, JobNames
  <1>2. /\ Tail(jobs) \in Seq(JobNames)
        /\ Has(jobs, op)
        /\ \A x : Has(Tail(jobs), x) => Has(jobs, x)
        /\ OpenOnce(jobs) => OpenOnce(Tail(jobs))
        /\ NoFiniBefore(jobs) => NoFiniBefore(Tail(jobs))
        /\ OpenOnce(jobs) /\ op = "open" => ~Has(Tail(jobs), "open")
        /\ op = "rfini" /\ NoFiniBefore(jobs) => ~Has(Tail(jobs), "open")
    BY <1>1, Taken
  <1>3. Owned(Tail(jobs)) = Owned(jobs) - One(op \in {"connect", "close"}) /\ Owned(jobs) \in Nat
    BY <1>1, OwnedTaken, OwnedFinite
  <1>4. jobs = <<"connect">> => Head(jobs) = "connect" /\ Tail(jobs) = <<>>
    OBVIOUS
  <1>5. op # "connect" => ~Has(jobs, "connect")
    BY <1>1, <1>4 DEF IInv, Fresh
  <1>6. op = "connect" => Tail(jobs) = <<>>
    BY <1>2, <1>4 DEF IInv, Fresh
  <1>7. op = "open" => OpenOnce(jobs)
    BY <1>2 DEF IInv, OneOpen
  <1>8. ASSUME op = "connect" PROVE Owned(jobs) = 1
    <2>1. Owned(Tail(jobs)) = 0
      BY <1>6, <1>8, NoneOwned
    <2>2. One(op \in {"connect", "close"}) = 1
      BY <1>8 DEF One
    <2> QED BY <1>3, <2>1, <2>2
  <1> QED BY <1>2, <1>3, <1>5, <1>6, <1>7, <1>8

\* Jobs that only end something.
Quiet(s) ==
    s \in Seq(JobNames) /\ ~Has(s, "open") /\ ~Has(s, "connect") /\ ~Has(s, "close")

LEMMA QuietAdded ==
    ASSUME NEW q \in Seq(JobNames), NEW s, Quiet(s)
    PROVE  /\ q \o s \in Seq(JobNames)
           /\ Has(q \o s, "open") <=> Has(q, "open")
           /\ Has(q \o s, "connect") <=> Has(q, "connect")
           /\ OpenOnce(q) => OpenOnce(q \o s)
           /\ NoFiniBefore(q) => NoFiniBefore(q \o s)
           /\ Owned(q \o s) = Owned(q)
           /\ Quiet(q) => Quiet(q \o s)
  <1>1. s \in Seq(JobNames) /\ ~Has(s, "open") /\ ~Has(s, "connect") /\ ~Has(s, "close")
    BY DEF Quiet
  <1>2. Owned(q \o s) = Owned(q)
    BY <1>1, OwnedAdded
  <1> QED BY <1>1, <1>2, Added DEF Quiet

LEMMA QuietJob ==
    ASSUME NEW op \in {"sfini", "rwait", "twait", "rfini", "tfini"}, NEW b
    PROVE  Quiet(If(b, <<op>>))
  <1>1. op \in JobNames /\ op # "open" /\ op # "connect" /\ op # "close"
    BY DEF JobNames
  <1> QED BY <1>1, OneJob DEF Quiet

\* The Finis that postin_close posts.
LEMMA ClosePosts ==
    ASSUME NEW q \in Seq(JobNames)
    PROVE  LET r == q \o SocketFini \o TimerFini("timeout") \o TimerFini("reconnect")
           IN  /\ r \in Seq(JobNames)
               /\ Has(r, "open") <=> Has(q, "open")
               /\ Has(r, "connect") <=> Has(q, "connect")
               /\ OpenOnce(q) => OpenOnce(r)
               /\ NoFiniBefore(q) => NoFiniBefore(r)
               /\ Owned(r) = Owned(q)
  <1> DEFINE a == q \o SocketFini
             b == a \o TimerFini("timeout")
             r == b \o TimerFini("reconnect")
  <1>1. Quiet(SocketFini) /\ Quiet(TimerFini("timeout")) /\ Quiet(TimerFini("reconnect"))
    BY QuietJob DEF SocketFini, TimerFini, FiniOf
  <1>2. /\ a \in Seq(JobNames)
        /\ Has(a, "open") <=> Has(q, "open")
        /\ Has(a, "connect") <=> Has(q, "connect")
        /\ OpenOnce(q) => OpenOnce(a)
        /\ NoFiniBefore(q) => NoFiniBefore(a)
        /\ Owned(a) = Owned(q)
    BY <1>1, QuietAdded
  <1> HIDE DEF a
  <1>3. /\ b \in Seq(JobNames)
        /\ Has(b, "open") <=> Has(a, "open")
        /\ Has(b, "connect") <=> Has(a, "connect")
        /\ OpenOnce(a) => OpenOnce(b)
        /\ NoFiniBefore(a) => NoFiniBefore(b)
        /\ Owned(b) = Owned(a)
    BY <1>1, <1>2, QuietAdded
  <1> HIDE DEF b
  <1>4. /\ r \in Seq(JobNames)
        /\ Has(r, "open") <=> Has(b, "open")
        /\ Has(r, "connect") <=> Has(b, "connect")
        /\ OpenOnce(b) => OpenOnce(r)
        /\ NoFiniBefore(b) => NoFiniBefore(r)
        /\ Owned(r) = Owned(b)
    BY <1>1, <1>3, QuietAdded
  <1> HIDE DEF r
  <1>5. /\ r \in Seq(JobNames)
        /\ Has(r, "open") <=> Has(q, "open")
        /\ Has(r, "connect") <=> Has(q, "connect")
        /\ OpenOnce(q) => OpenOnce(r)
        /\ NoFiniBefore(q) => NoFiniBefore(r)
        /\ Owned(r) = Owned(q)
    BY <1>2, <1>3, <1>4
  <1> QED BY <1>5 DEF a, b, r

\* The Finis of a closing server.
LEMMA SweepPosts ==
    ASSUME IInv, Sweep
    PROVE  \E s : Quiet(s) /\ jobs' = jobs \o s
  <1> DEFINE a == If(sstat # "null" /\ binit /\ ~Waiting("sfini"), <<"sfini">>)
             b == If("reconnect" \in armed /\ ~Waiting("rfini"), <<"rfini">>)
             c == If("timeout" \in armed /\ ~Waiting("tfini"), <<"tfini">>)
  <1>1. Quiet(a) /\ Quiet(b) /\ Quiet(c)
    BY QuietJob
  <1>2. jobs' = jobs \o (a \o b \o c)
    BY DEF Sweep
  <1> HIDE DEF a, b, c
  <1>3. Quiet(a \o b)
    BY <1>1, QuietAdded DEF Quiet
  <1>4. Quiet(a \o b \o c)
    BY <1>1, <1>3, QuietAdded DEF Quiet
  <1> QED BY <1>2, <1>4

\* The main thread, and the server's life.
LEMMA UserKeepsIInv ==
    ASSUME IInv,
           \/ MainHears
           \/ UserClose
           \/ Stop
           \/ Finish
           \/ Sweep
    PROVE  IInv'
  <1>1. CASE MainHears
    <2>0. main' \in Seq(Told) /\ told' \in Told
      BY <1>1, HeadTailProperties DEF MainHears, IInv, TypeOK, Told
    <2>1. Fresh' /\ OneOpen' /\ Linked' /\ Balanced'
      BY <1>1, <2>0 DEF MainHears, socket, client, timers, owner, IInv, Fresh, OneOpen,
         Linked, Balanced
    <2>2. EventsInOrder'
      <3>1. /\ Ordered(<<Head(main)>> \o Tail(main))
            /\ LET q == <<Head(main)>> \o Tail(main) IN q[Len(q)] = Story[Len(Story)]
        BY <1>1, StoryType, StoryIsHeard DEF MainHears, Story
      <3>2. Story' = <<Head(main)>> \o Tail(main) /\ status' = status
        BY <1>1 DEF MainHears, Story, client
      <3> QED BY <3>1, <3>2, StoryType DEF EventsInOrder, Ordered
    <2>3. TypeOK'
      BY <1>1, <2>0 DEF MainHears, socket, client, timers, owner, IInv, TypeOK, JobNames,
         Told
    <2> QED BY <2>1, <2>2, <2>3 DEF IInv
  <1>2. CASE UserClose
    <2>0. /\ jobs' \in Seq(JobNames)
          /\ Has(jobs', "open") <=> Has(jobs, "open")
          /\ Has(jobs', "connect") <=> Has(jobs, "connect")
          /\ OpenOnce(jobs) => OpenOnce(jobs')
          /\ NoFiniBefore(jobs) => NoFiniBefore(jobs')
          /\ Owned(jobs') = Owned(jobs) + One(busing)
          /\ ~busing => jobs' = jobs
          /\ Owned(jobs) \in Nat
      <3>0. jobs \in Seq(JobNames)
        BY DEF IInv, TypeOK, JobNames
      <3>1. CASE busing
        <4>1. jobs' = jobs \o <<"close">> /\ <<"close">> \in Seq(JobNames) /\ One(busing) = 1
          BY <1>2, <3>1 DEF UserClose, If, JobNames, One
        <4>2. ~Has(<<"close">>, "open") /\ ~Has(<<"close">>, "connect")
          BY DEF Has
        <4>3. jobs \o <<"close">> = Append(jobs, "close")
          BY <3>0, AppendIsConcat DEF JobNames
        <4> QED BY <3>0, <3>1, <4>1, <4>2, <4>3, Added, OwnedClose, OwnedFinite
      <3>2. CASE ~busing
        <4>1. jobs' = jobs /\ One(busing) = 0
          BY <1>2, <3>0, <3>2, ConcatEmptySeq DEF UserClose, If, One
        <4> QED BY <3>0, <4>1, OwnedFinite
      <3> QED BY <3>1, <3>2
    <2>1. Fresh' /\ OneOpen' /\ Linked' /\ EventsInOrder'
      BY <1>2, <2>0 DEF UserClose, socket, client, timers, IInv, Fresh, OneOpen, Linked,
         EventsInOrder, Story
    <2>2. Balanced'
      <3>1. One(held) = 1 /\ One(held') = 0
        BY <1>2 DEF UserClose, One
      <3>2. One(busing) \in Nat /\ One(held) \in Nat /\ One(ccb) \in Nat
            /\ One(tstat["reconnect"] # "null") \in Nat /\ One(tstat["timeout"] # "null") \in Nat
        BY OneType
      <3>3. refs' = refs - 1 + One(busing) /\ ccb' = ccb /\ tstat' = tstat
        BY <1>2 DEF UserClose, socket, timers
      <3>4. Owned(jobs') = Owned(jobs) + One(busing) /\ Owned(jobs) \in Nat
        BY <2>0
      <3>5. Balanced
        BY DEF IInv
      <3> DEFINE h0 == One(held)
                 h1 == One(held')
                 c == One(ccb)
                 r == One(tstat["reconnect"] # "null")
                 t == One(tstat["timeout"] # "null")
                 b == One(busing)
      <3>6. /\ refs = h0 + c + r + t + Owned(jobs)
            /\ Balanced' <=> refs' = h1 + c + r + t + Owned(jobs')
        BY ONLY <3>3, <3>5 DEF Balanced
      <3>7. /\ h0 = 1 /\ h1 = 0 /\ c \in Nat /\ r \in Nat /\ t \in Nat /\ b \in Nat
            /\ refs' = refs - 1 + b /\ Owned(jobs') = Owned(jobs) + b
        BY ONLY <3>1, <3>2, <3>3, <3>4
      <3> HIDE DEF h0, h1, c, r, t, b
      <3> QED BY ONLY <3>4, <3>6, <3>7
    <2>3. TypeOK'
      <3>1. refs' \in Nat
        BY <2>0, <2>2, OneType, OwnedFinite DEF Balanced
      <3>2. /\ held' \in BOOLEAN /\ ignored' \in BOOLEAN
            /\ UNCHANGED <<main, io, sstat, binit, ccb, recv, busing, status, tstat, armed,
                          told>>
        BY <1>2 DEF UserClose, socket, client, timers
      <3>3. jobs' \in Seq(JobNames) /\ TypeOK
        BY <2>0 DEF IInv
      <3> QED BY ONLY <3>1, <3>2, <3>3 DEF TypeOK, JobNames, Told
    <2> QED BY <2>1, <2>2, <2>3 DEF IInv
  <1>3. CASE Stop
    <2>1. Fresh' /\ OneOpen' /\ Linked' /\ Balanced' /\ EventsInOrder'
      BY <1>3 DEF Stop, socket, client, timers, owner, IInv, Fresh, OneOpen, Linked,
         Balanced, EventsInOrder, Story
    <2>2. TypeOK'
      BY <1>3 DEF Stop, socket, client, timers, owner, IInv, TypeOK, JobNames, Told
    <2> QED BY <2>1, <2>2 DEF IInv
  <1>4. CASE Finish
    <2>1. Fresh' /\ OneOpen' /\ Linked' /\ Balanced' /\ EventsInOrder'
      BY <1>4 DEF Finish, socket, client, timers, owner, IInv, Fresh, OneOpen, Linked,
         Balanced, EventsInOrder, Story
    <2>2. TypeOK'
      BY <1>4 DEF Finish, socket, client, timers, owner, IInv, TypeOK, JobNames, Told
    <2> QED BY <2>1, <2>2 DEF IInv
  <1>5. CASE Sweep
    <2>0. /\ jobs' \in Seq(JobNames)
          /\ Has(jobs', "open") <=> Has(jobs, "open")
          /\ Has(jobs', "connect") <=> Has(jobs, "connect")
          /\ OpenOnce(jobs) => OpenOnce(jobs')
          /\ NoFiniBefore(jobs) => NoFiniBefore(jobs')
          /\ Owned(jobs') = Owned(jobs)
          /\ sstat # "null" \/ armed # {}
      <3>1. PICK s : Quiet(s) /\ jobs' = jobs \o s
        BY <1>5, SweepPosts
      <3>2. jobs \in Seq(JobNames)
        BY DEF IInv, TypeOK, JobNames
      <3>3. sstat # "null" \/ armed # {}
        BY <1>5, ConcatEmptySeq DEF Sweep, If
      <3> QED BY <3>1, <3>2, <3>3, QuietAdded
    <2>1. Fresh' /\ OneOpen' /\ Linked' /\ Balanced' /\ EventsInOrder'
      BY <1>5, <2>0 DEF Sweep, socket, client, timers, owner, IInv, Fresh, OneOpen, Linked,
         Balanced, EventsInOrder, Story
    <2>2. TypeOK'
      BY <1>5, <2>0 DEF Sweep, socket, client, timers, owner, IInv, TypeOK, JobNames, Told
    <2> QED BY <2>1, <2>2 DEF IInv
  <1> QED BY <1>1, <1>2, <1>3, <1>4, <1>5

\* The jobs of the IO thread.
LEMMA JobsKeepIInv ==
    ASSUME IInv,
           \/ ConnectNoHost
           \/ Connect
           \/ OpenFinied
           \/ OpenFails
           \/ OpenStarts
           \/ PostinClose
           \/ RealFini
           \/ RealFiniAgain
           \/ \E t \in Timers : TimerWait(t)
           \/ \E t \in Timers : TimerRealFini(t)
    PROVE  IInv'
  <1>1. CASE ConnectNoHost
    <2>0. /\ jobs' = <<>> /\ jobs' \in Seq(JobNames) /\ Has(jobs, "connect")
          /\ ~Has(jobs', "connect") /\ ~Has(jobs', "open")
          /\ Owned(jobs) = 1 /\ Owned(jobs') = 0
      <3>1. jobs' = <<>> /\ Owned(jobs) = 1 /\ Has(jobs, "connect")
        BY <1>1, RunFacts DEF ConnectNoHost
      <3> QED BY <3>1, NoneOwned, EmptySeq DEF Has
    <2>1. Fresh' /\ OneOpen' /\ Linked' /\ EventsInOrder'
      BY <1>1, <2>0 DEF ConnectNoHost, socket, client, timers, IInv, Fresh, OneOpen,
         Linked, EventsInOrder, Story
    <2>2. Balanced'
      BY <1>1, <2>0, OneType DEF ConnectNoHost, socket, timers, IInv, Balanced, TypeOK
    <2>3. TypeOK'
      <3>1. refs' \in Nat
        BY <2>0, <2>2, OneType, OwnedFinite DEF Balanced
      <3> QED BY <1>1, <2>0, <3>1 DEF ConnectNoHost, socket, client, timers, IInv, TypeOK,
                 JobNames, Told
    <2> QED BY <2>1, <2>2, <2>3 DEF IInv
  <1>2. CASE Connect
    <2>0. /\ jobs' = <<"open", "rwait", "twait">> /\ jobs' \in Seq(JobNames)
          /\ OpenOnce(jobs') /\ NoFiniBefore(jobs') /\ ~Has(jobs', "connect")
          /\ Owned(jobs') = 0 /\ Owned(jobs) = 1 /\ Has(jobs, "connect")
      <3>1. Tail(jobs) = <<>> /\ Has(jobs, "connect") /\ Owned(jobs) = 1
        BY <1>2, RunFacts DEF Connect
      <3> DEFINE s == <<"open", "rwait", "twait">>
      <3>2. s \in Seq(JobNames)
        BY DEF JobNames
      <3>3. jobs' = s
        BY <1>2, <3>1, <3>2, ConcatEmptySeq DEF Connect
      <3>4. OpenOnce(s) /\ NoFiniBefore(s) /\ ~Has(s, "connect") /\ ~Has(s, "close")
        BY DEF OpenOnce, NoFiniBefore, Has
      <3>5. Owned(s) = 0
        <4>1. <<>> \o s = s /\ <<>> \in Seq(JobNames)
          BY <3>2, ConcatEmptySeq, EmptySeq
        <4> HIDE DEF s
        <4> QED BY <3>2, <3>4, <4>1, OwnedAdded, NoneOwned
      <3> QED BY <3>1, <3>2, <3>3, <3>4, <3>5
    <2>1. Fresh'
      BY <1>2, <2>0 DEF Connect, IInv, Fresh
    <2>2. OneOpen'
      BY <1>2, <2>0 DEF Connect, IInv, OneOpen, Fresh, Linked, TypeOK, Timers
    <2>3. Linked'
      BY <1>2, <2>0 DEF Connect, IInv, Linked, Fresh, TypeOK
    <2>4. Balanced'
      <3>1. /\ One(ccb) = 0 /\ One(ccb') = 1
            /\ One(tstat["reconnect"] # "null") = 0 /\ One(tstat'["reconnect"] # "null") = 1
            /\ One(tstat["timeout"] # "null") = 0 /\ One(tstat'["timeout"] # "null") = 1
        BY <1>2, <2>0 DEF Connect, IInv, Fresh, One, Timers
      <3>2. refs' = refs + 2 /\ held' = held /\ Owned(jobs') = 0 /\ Owned(jobs) = 1
        BY <1>2, <2>0 DEF Connect
      <3>3. Balanced /\ One(held) \in Nat
        BY OneType DEF IInv
      <3> DEFINE h == One(held)
      <3>4. refs = h + 0 + 0 + 0 + 1 /\ (Balanced' <=> refs' = h + 1 + 1 + 1 + 0)
        BY ONLY <3>1, <3>2, <3>3 DEF Balanced
      <3>5. h \in Nat
        BY <3>3
      <3> HIDE DEF h
      <3> QED BY ONLY <3>2, <3>4, <3>5
    <2>5. EventsInOrder'
      BY <1>2, <2>0 DEF Connect, IInv, EventsInOrder, Fresh, TypeOK, Story
    <2>6. TypeOK'
      BY <1>2, <2>0 DEF Connect, IInv, TypeOK, JobNames, Told
    <2> QED BY <2>1, <2>2, <2>3, <2>4, <2>5, <2>6 DEF IInv
  <1>3. CASE OpenFinied
    <2>0. /\ Tail(jobs) \in Seq(JobNames)
          /\ Has(jobs, "open")
          /\ \A x : Has(Tail(jobs), x) => Has(jobs, x)
          /\ OpenOnce(jobs) => OpenOnce(Tail(jobs))
          /\ NoFiniBefore(jobs) => NoFiniBefore(Tail(jobs))
          /\ ~Has(jobs, "connect")
          /\ Owned(Tail(jobs)) = Owned(jobs) /\ Owned(jobs) \in Nat
          /\ ~Has(Tail(jobs), "open")
      BY <1>3, RunFacts DEF OpenFinied, One
    <2>1. Fresh' /\ OneOpen' /\ Linked' /\ Balanced' /\ EventsInOrder'
      BY <1>3, <2>0 DEF OpenFinied, socket, client, timers, owner, IInv, Fresh, OneOpen,
         Linked, Balanced, EventsInOrder, Story
    <2>2. TypeOK'
      BY <1>3, <2>0 DEF OpenFinied, socket, client, timers, owner, IInv, TypeOK, JobNames,
         Told
    <2> QED BY <2>1, <2>2 DEF IInv
  <1>4. CASE OpenFails
    <2>0. /\ Tail(jobs) \in Seq(JobNames)
          /\ Has(jobs, "open")
          /\ \A x : Has(Tail(jobs), x) => Has(jobs, x)
          /\ OpenOnce(jobs) => OpenOnce(Tail(jobs))
          /\ NoFiniBefore(jobs) => NoFiniBefore(Tail(jobs))
          /\ ~Has(jobs, "connect")
          /\ Owned(Tail(jobs)) = Owned(jobs) /\ Owned(jobs) \in Nat
          /\ ~Has(Tail(jobs), "open")
      BY <1>4, RunFacts DEF OpenFails, One
    <2>1. Fresh' /\ OneOpen' /\ Linked' /\ Balanced'
      BY <1>4, <2>0 DEF OpenFails, CloseLink, timers, owner, IInv, Fresh, OneOpen, Linked,
         Balanced
    <2>2. EventsInOrder'
      BY <1>4, TellsDown DEF OpenFails
    <2>3. TypeOK'
      BY <1>4, <2>0, CloseLinkTypes DEF OpenFails, CloseLink, timers, owner, IInv, TypeOK,
         JobNames, Told
    <2> QED BY <2>1, <2>2, <2>3 DEF IInv
  <1>5. CASE OpenStarts
    <2>0. /\ Tail(jobs) \in Seq(JobNames)
          /\ Has(jobs, "open")
          /\ \A x : Has(Tail(jobs), x) => Has(jobs, x)
          /\ OpenOnce(jobs) => OpenOnce(Tail(jobs))
          /\ NoFiniBefore(jobs) => NoFiniBefore(Tail(jobs))
          /\ ~Has(jobs, "connect")
          /\ Owned(Tail(jobs)) = Owned(jobs) /\ Owned(jobs) \in Nat
          /\ ~Has(Tail(jobs), "open")
      BY <1>5, RunFacts DEF OpenStarts, One
    <2>1. Fresh' /\ OneOpen' /\ Balanced' /\ EventsInOrder'
      BY <1>5, <2>0 DEF OpenStarts, client, timers, owner, IInv, Fresh, OneOpen, Balanced,
         EventsInOrder, Story
    <2>2. Linked'
      BY <1>5, <2>0 DEF OpenStarts, client, timers, owner, IInv, Linked, OneOpen, TypeOK,
         Timers
    <2>3. TypeOK'
      BY <1>5, <2>0 DEF OpenStarts, client, timers, owner, IInv, TypeOK, JobNames, Told
    <2> QED BY <2>1, <2>2, <2>3 DEF IInv
  <1>6. CASE PostinClose
    <2>0. /\ jobs' \in Seq(JobNames)
          /\ Has(jobs', "open") => Has(jobs, "open")
          /\ ~Has(jobs', "connect") /\ ~Has(jobs, "connect")
          /\ OpenOnce(jobs) => OpenOnce(jobs')
          /\ NoFiniBefore(jobs) => NoFiniBefore(jobs')
          /\ Owned(jobs') = Owned(jobs) - 1 /\ Owned(jobs) \in Nat
      <3>1. One("close" \in {"connect", "close"}) = 1
        BY DEF One
      <3>2. Runs("close") /\ jobs' = Tail(jobs) \o SocketFini \o TimerFini("timeout") \o TimerFini("reconnect")
        BY <1>6 DEF PostinClose
      <3>3. /\ Tail(jobs) \in Seq(JobNames)
            /\ Has(Tail(jobs), "open") => Has(jobs, "open")
            /\ ~Has(Tail(jobs), "connect") /\ ~Has(jobs, "connect")
            /\ OpenOnce(jobs) => OpenOnce(Tail(jobs))
            /\ NoFiniBefore(jobs) => NoFiniBefore(Tail(jobs))
            /\ Owned(Tail(jobs)) = Owned(jobs) - 1 /\ Owned(jobs) \in Nat
        BY <3>1, <3>2, RunFacts
      <3> QED BY <3>2, <3>3, ClosePosts
    <2>1. Fresh' /\ OneOpen' /\ Linked' /\ EventsInOrder'
      BY <1>6, <2>0 DEF PostinClose, socket, timers, IInv, Fresh, OneOpen, Linked,
         EventsInOrder, Story
    <2>2. Balanced'
      <3>1. One(held) \in Nat /\ One(ccb) \in Nat
            /\ One(tstat["reconnect"] # "null") \in Nat /\ One(tstat["timeout"] # "null") \in Nat
        BY OneType
      <3>2. refs' = refs - 1 /\ held' = held /\ ccb' = ccb /\ tstat' = tstat
        BY <1>6 DEF PostinClose, socket, timers
      <3> QED BY <2>0, <3>1, <3>2 DEF IInv, Balanced
    <2>3. TypeOK'
      <3>1. refs' \in Nat
        BY <2>0, <2>2, OneType, OwnedFinite DEF Balanced
      <3>2. /\ busing' \in BOOLEAN
            /\ UNCHANGED <<main, io, sstat, binit, ccb, recv, status, tstat, armed, held,
                          told, ignored>>
        BY <1>6 DEF PostinClose, socket, timers
      <3>3. jobs' \in Seq(JobNames) /\ TypeOK
        BY <2>0 DEF IInv
      <3> QED BY ONLY <3>1, <3>2, <3>3 DEF TypeOK, JobNames, Told
    <2> QED BY <2>1, <2>2, <2>3 DEF IInv
  <1>7. CASE RealFini
    <2>0. /\ Tail(jobs) \in Seq(JobNames)
          /\ Has(jobs, "sfini")
          /\ \A x : Has(Tail(jobs), x) => Has(jobs, x)
          /\ OpenOnce(jobs) => OpenOnce(Tail(jobs))
          /\ NoFiniBefore(jobs) => NoFiniBefore(Tail(jobs))
          /\ ~Has(jobs, "connect")
          /\ Owned(Tail(jobs)) = Owned(jobs) /\ Owned(jobs) \in Nat
      BY <1>7, RunFacts DEF RealFini, One
    <2>1. Fresh' /\ OneOpen' /\ Linked'
      BY <1>7, <2>0 DEF RealFini, CloseLink, client, timers, IInv, Fresh, OneOpen, Linked
    <2>2. Balanced'
      <3>1. One(ccb) = 1 /\ One(ccb') = 0
        BY <1>7 DEF RealFini, IInv, Linked, One
      <3>2. /\ refs' = refs - 1 /\ jobs' = Tail(jobs)
            /\ held' = held /\ tstat' = tstat
        BY <1>7 DEF RealFini, timers
      <3>3. Balanced /\ refs \in Nat
        BY DEF IInv, TypeOK
      <3>4. One(held) \in Nat /\ Owned(jobs') = Owned(jobs) /\ Owned(jobs) \in Nat
            /\ One(tstat["reconnect"] # "null") \in Nat /\ One(tstat["timeout"] # "null") \in Nat
        BY <2>0, <3>2, OneType
      <3> DEFINE h == One(held)
                 r == One(tstat["reconnect"] # "null")
                 t == One(tstat["timeout"] # "null")
      <3>5. /\ refs = h + 1 + r + t + Owned(jobs)
            /\ Balanced' <=> refs' = h + 0 + r + t + Owned(jobs')
        BY ONLY <3>1, <3>2, <3>3 DEF Balanced
      <3>6. h \in Nat /\ r \in Nat /\ t \in Nat
        BY <3>4
      <3> HIDE DEF h, r, t
      <3> QED BY ONLY <3>2, <3>3, <3>4, <3>5, <3>6
    <2>3. EventsInOrder'
      <3>1. CASE sstat = "null"
        BY <1>7, <3>1 DEF RealFini, client, IInv, EventsInOrder, Story
      <3>2. CASE sstat # "null"
        BY <1>7, <3>2, TellsDown DEF RealFini
      <3> QED BY <3>1, <3>2
    <2>4. TypeOK'
      <3>1. refs' \in Nat
        BY <1>7, <2>0, <2>2, OneType, OwnedFinite DEF Balanced, RealFini
      <3>2. /\ binit' \in BOOLEAN /\ ccb' \in BOOLEAN
            /\ UNCHANGED <<io, tstat, armed, held, told, ignored>>
        BY <1>7 DEF RealFini, timers
      <3>3. jobs' \in Seq(JobNames) /\ TypeOK
        BY <1>7, <2>0 DEF IInv, RealFini
      <3>4. CASE sstat = "null"
        <4>1. UNCHANGED <<sstat, recv, busing, status, main>>
          BY <1>7, <3>4 DEF RealFini, client
        <4> QED BY ONLY <3>1, <3>2, <3>3, <4>1 DEF TypeOK, JobNames, Told
      <3>5. CASE sstat # "null"
        <4>1. CloseLink
          BY <1>7, <3>5 DEF RealFini
        <4>2. /\ sstat' = "null" /\ recv' = "none" /\ busing' = busing
              /\ status' \in {"closed", status}
          BY <4>1 DEF CloseLink
        <4>3. main' \in Seq(Told)
          BY <4>1, CloseLinkTypes
        <4> QED BY ONLY <3>1, <3>2, <3>3, <4>2, <4>3 DEF TypeOK, JobNames, Told
      <3> QED BY <3>4, <3>5
    <2> QED BY <2>1, <2>2, <2>3, <2>4 DEF IInv
  <1>8. CASE RealFiniAgain
    <2>0. /\ Tail(jobs) \in Seq(JobNames)
          /\ Has(jobs, "sfini")
          /\ \A x : Has(Tail(jobs), x) => Has(jobs, x)
          /\ OpenOnce(jobs) => OpenOnce(Tail(jobs))
          /\ NoFiniBefore(jobs) => NoFiniBefore(Tail(jobs))
          /\ ~Has(jobs, "connect")
          /\ Owned(Tail(jobs)) = Owned(jobs) /\ Owned(jobs) \in Nat
      BY <1>8, RunFacts DEF RealFiniAgain, One
    <2>1. Fresh' /\ OneOpen' /\ Linked' /\ Balanced' /\ EventsInOrder'
      BY <1>8, <2>0 DEF RealFiniAgain, socket, client, timers, owner, IInv, Fresh, OneOpen,
         Linked, Balanced, EventsInOrder, Story
    <2>2. TypeOK'
      BY <1>8, <2>0 DEF RealFiniAgain, socket, client, timers, owner, IInv, TypeOK,
         JobNames, Told
    <2> QED BY <2>1, <2>2 DEF IInv
  <1>9. ASSUME NEW t \in Timers, TimerWait(t) PROVE IInv'
    <2>0. /\ Tail(jobs) \in Seq(JobNames)
          /\ Has(jobs, WaitOf(t))
          /\ \A x : Has(Tail(jobs), x) => Has(jobs, x)
          /\ OpenOnce(jobs) => OpenOnce(Tail(jobs))
          /\ NoFiniBefore(jobs) => NoFiniBefore(Tail(jobs))
          /\ ~Has(jobs, "connect")
          /\ Owned(Tail(jobs)) = Owned(jobs) /\ Owned(jobs) \in Nat
      BY <1>9, RunFacts DEF TimerWait, One, WaitOf, FiniOf
    <2>1. Fresh' /\ Linked' /\ EventsInOrder'
      BY <1>9, <2>0 DEF TimerWait, socket, client, timers, owner, IInv, Fresh, Linked,
         EventsInOrder, Story
    <2>2. OneOpen'
      BY <1>9, <2>0 DEF TimerWait, socket, client, timers, owner, IInv, OneOpen, TypeOK,
         Timers
    <2>3. Balanced'
      <3>1. tstat'["reconnect"] # "null" <=> tstat["reconnect"] # "null"
        BY <1>9 DEF TimerWait, timers, IInv, TypeOK, Timers
      <3>2. tstat'["timeout"] # "null" <=> tstat["timeout"] # "null"
        BY <1>9 DEF TimerWait, timers, IInv, TypeOK, Timers
      <3> QED BY <1>9, <2>0, <3>1, <3>2 DEF TimerWait, socket, owner, IInv, Balanced, One
    <2>4. TypeOK'
      BY <1>9, <2>0 DEF TimerWait, socket, client, timers, owner, IInv, TypeOK, JobNames,
         Told
    <2> QED BY <2>1, <2>2, <2>3, <2>4 DEF IInv
  <1>10. ASSUME NEW t \in Timers, TimerRealFini(t) PROVE IInv'
    <2>0. /\ Tail(jobs) \in Seq(JobNames)
          /\ Has(jobs, FiniOf(t))
          /\ \A x : Has(Tail(jobs), x) => Has(jobs, x)
          /\ OpenOnce(jobs) => OpenOnce(Tail(jobs))
          /\ NoFiniBefore(jobs) => NoFiniBefore(Tail(jobs))
          /\ ~Has(jobs, "connect")
          /\ Owned(Tail(jobs)) = Owned(jobs) /\ Owned(jobs) \in Nat
          /\ t = "reconnect" /\ NoFiniBefore(jobs) => ~Has(Tail(jobs), "open")
      BY <1>10, RunFacts DEF TimerRealFini, One, WaitOf, FiniOf
    <2>1. Fresh' /\ OneOpen' /\ Linked' /\ Balanced' /\ EventsInOrder'
      BY <1>10, <2>0 DEF TimerRealFini, socket, client, owner, IInv, Fresh, OneOpen,
         Linked, Balanced, EventsInOrder, Story
    <2>2. TypeOK'
      BY <1>10, <2>0 DEF TimerRealFini, socket, client, owner, IInv, TypeOK, JobNames, Told
    <2> QED BY <2>1, <2>2 DEF IInv
  <1> QED BY <1>1, <1>2, <1>3, <1>4, <1>5, <1>6, <1>7, <1>8, <1>9, <1>10

\* The events of the IO thread.
LEMMA EventsKeepIInv ==
    ASSUME IInv,
           \/ Reconnect
           \/ \E t \in Timers : TimerEnds(t)
           \/ Connected
           \/ ConnectTimeout
           \/ RecvHead
           \/ RecvBody
           \/ RecvCloses
    PROVE  IInv'
  <1>1. CASE Reconnect
    <2>0. /\ jobs' \in Seq(JobNames)
          /\ OpenOnce(jobs') /\ NoFiniBefore(jobs') /\ ~Has(jobs', "connect")
          /\ Owned(jobs') = Owned(jobs)
      <3>1. jobs = <<>> /\ jobs' = <<"open">> /\ <<"open">> \in Seq(JobNames) /\ <<>> \in Seq(JobNames)
        BY <1>1, EmptySeq DEF Reconnect, JobNames
      <3>2. OpenOnce(<<"open">>) /\ NoFiniBefore(<<"open">>)
            /\ ~Has(<<"open">>, "connect") /\ ~Has(<<"open">>, "close")
        BY DEF OpenOnce, NoFiniBefore, Has
      <3>3. <<>> \o <<"open">> = <<"open">>
        OBVIOUS
      <3>4. Owned(<<"open">>) = Owned(<<>>)
        BY <3>1, <3>2, <3>3, OwnedAdded
      <3> QED BY <3>1, <3>2, <3>4
    <2>1. Fresh' /\ OneOpen' /\ Linked' /\ Balanced' /\ EventsInOrder'
      BY <1>1, <2>0 DEF Reconnect, Reconnects, socket, client, timers, owner, IInv, Fresh,
         OneOpen, Linked, Balanced, EventsInOrder, Story
    <2>2. TypeOK'
      BY <1>1, <2>0 DEF Reconnect, Reconnects, socket, client, timers, owner, IInv, TypeOK,
         JobNames, Told
    <2> QED BY <2>1, <2>2 DEF IInv
  <1>2. ASSUME NEW t \in Timers, TimerEnds(t) PROVE IInv'
    <2>0. /\ jobs' \in Seq(JobNames)
          /\ ~Has(jobs', "connect")
          /\ Owned(jobs') = Owned(jobs) /\ Owned(jobs) \in Nat
          /\ \/ jobs' = jobs
             \/ t = "reconnect" /\ sstat = "null" /\ ~Has(jobs, "open") /\ OpenOnce(jobs')
      <3>0. jobs \in Seq(JobNames) /\ ~Has(jobs, "connect")
        BY <1>2 DEF TimerEnds, IInv, TypeOK, JobNames, Fresh
      <3>1. PICK resolved \in BOOLEAN :
               jobs' = jobs \o If(t = "reconnect" /\ Reconnects /\ resolved, <<"open">>)
        BY <1>2 DEF TimerEnds
      <3>2. CASE t = "reconnect" /\ Reconnects /\ resolved
        <4>1. jobs' = jobs \o <<"open">> /\ <<"open">> \in Seq(JobNames)
          BY <3>1, <3>2 DEF If, JobNames
        <4>2. sstat = "null" /\ ~Has(jobs, "open")
          BY <1>2, <3>2 DEF TimerEnds, Reconnects, IInv, OneOpen
        <4>3. OpenOnce(<<"open">>) /\ ~Has(<<"open">>, "connect") /\ ~Has(<<"open">>, "close")
          BY DEF OpenOnce, Has
        <4> QED BY <3>0, <3>2, <4>1, <4>2, <4>3, Added, OwnedAdded, OwnedFinite
      <3>3. CASE ~(t = "reconnect" /\ Reconnects /\ resolved)
        BY <3>0, <3>1, <3>3, ConcatEmptySeq, OwnedFinite DEF If
      <3> QED BY <3>2, <3>3
    <2>1. Fresh' /\ Linked' /\ EventsInOrder'
      BY <1>2, <2>0 DEF TimerEnds, Reconnects, socket, client, IInv, Fresh, Linked,
         EventsInOrder, Story
    <2>2. OneOpen'
      BY <1>2, <2>0 DEF TimerEnds, Reconnects, socket, client, IInv, OneOpen, TypeOK, Timers
    <2>3. Balanced'
      <3>a. One(held) \in Nat /\ One(ccb) \in Nat
            /\ One(tstat["reconnect"] # "null") \in Nat /\ One(tstat["timeout"] # "null") \in Nat
        BY OneType
      <3>b. refs' = refs - 1 /\ held' = held /\ ccb' = ccb
        BY <1>2 DEF TimerEnds, socket
      <3>1. CASE t = "reconnect"
        <4>1. /\ One(tstat["reconnect"] # "null") = 1 /\ One(tstat'["reconnect"] # "null") = 0
              /\ tstat'["timeout"] = tstat["timeout"]
          BY <1>2, <3>1 DEF TimerEnds, IInv, TypeOK, Timers, One
        <4> QED BY <2>0, <3>a, <3>b, <4>1 DEF IInv, Balanced
      <3>2. CASE t = "timeout"
        <4>1. /\ One(tstat["timeout"] # "null") = 1 /\ One(tstat'["timeout"] # "null") = 0
              /\ tstat'["reconnect"] = tstat["reconnect"]
          BY <1>2, <3>2 DEF TimerEnds, IInv, TypeOK, Timers, One
        <4> QED BY <2>0, <3>a, <3>b, <4>1 DEF IInv, Balanced
      <3> QED BY <3>1, <3>2 DEF Timers
    <2>4. TypeOK'
      <3>1. refs' \in Nat
        BY <2>0, <2>3, OneType, OwnedFinite DEF Balanced
      <3> QED BY <1>2, <2>0, <3>1 DEF TimerEnds, socket, client, IInv, TypeOK, JobNames,
                 Told
    <2> QED BY <2>1, <2>2, <2>3, <2>4 DEF IInv
  <1>3. CASE Connected
    <2>0. main' \in Seq(Told)
      BY <1>3, AppendProperties DEF Connected, IInv, TypeOK, Told
    <2>1. Fresh' /\ OneOpen' /\ Linked' /\ Balanced'
      BY <1>3, <2>0 DEF Connected, timers, owner, IInv, Fresh, OneOpen, Linked, Balanced
    <2>2. EventsInOrder'
      <3>1. CASE ccb
        <4>1. main' = Append(main, "up") /\ status' = "connected" /\ status # "connected"
          BY <1>3, <3>1 DEF Connected, IInv, Linked
        <4>2. <<Story[Len(Story)], "up">> \in Follows
          BY <4>1, StoryType DEF Heard, Told, Follows
        <4> QED BY <1>3, <4>1, <4>2, Tells DEF Connected, Told
      <3>2. CASE ~ccb
        BY <1>3, <3>2 DEF Connected, IInv, EventsInOrder, Story
      <3> QED BY <3>1, <3>2
    <2>3. TypeOK'
      BY <1>3, <2>0 DEF Connected, timers, owner, IInv, TypeOK, JobNames, Told
    <2> QED BY <2>1, <2>2, <2>3 DEF IInv
  <1>4. CASE ConnectTimeout
    <2>1. Fresh' /\ OneOpen' /\ Linked' /\ Balanced'
      BY <1>4 DEF ConnectTimeout, CloseLink, timers, owner, IInv, Fresh, OneOpen, Linked,
         Balanced
    <2>2. EventsInOrder'
      BY <1>4, TellsDown DEF ConnectTimeout
    <2>3. TypeOK'
      BY <1>4, CloseLinkTypes DEF ConnectTimeout, CloseLink, timers, owner, IInv, TypeOK,
         JobNames, Told
    <2> QED BY <2>1, <2>2, <2>3 DEF IInv
  <1>5. CASE RecvHead
    <2>1. Fresh' /\ OneOpen' /\ Linked' /\ Balanced' /\ EventsInOrder'
      BY <1>5 DEF RecvHead, client, timers, owner, IInv, Fresh, OneOpen, Linked, Balanced,
         EventsInOrder, Story
    <2>2. TypeOK'
      BY <1>5 DEF RecvHead, client, timers, owner, IInv, TypeOK, JobNames, Told
    <2> QED BY <2>1, <2>2 DEF IInv
  <1>6. CASE RecvBody
    <2>0. main' \in Seq(Told)
      BY <1>6, AppendProperties DEF RecvBody, IInv, TypeOK, Told
    <2>1. Fresh' /\ OneOpen' /\ Linked' /\ Balanced'
      BY <1>6, <2>0 DEF RecvBody, client, timers, owner, IInv, Fresh, OneOpen, Linked,
         Balanced
    <2>2. EventsInOrder'
      <3>1. main' = Append(main, "msg") /\ status' = status /\ status = "connected"
        BY <1>6 DEF RecvBody, IInv, Linked, client
      <3>2. <<Story[Len(Story)], "msg">> \in Follows
        BY <3>1, StoryType DEF Follows
      <3> QED BY <1>6, <3>1, <3>2, Tells DEF RecvBody, Told
    <2>3. TypeOK'
      BY <1>6, <2>0 DEF RecvBody, client, timers, owner, IInv, TypeOK, JobNames, Told
    <2> QED BY <2>1, <2>2, <2>3 DEF IInv
  <1>7. CASE RecvCloses
    <2>1. Fresh' /\ OneOpen' /\ Linked' /\ Balanced'
      BY <1>7 DEF RecvCloses, CloseLink, timers, owner, IInv, Fresh, OneOpen, Linked,
         Balanced
    <2>2. EventsInOrder'
      BY <1>7, TellsDown DEF RecvCloses
    <2>3. TypeOK'
      BY <1>7, CloseLinkTypes DEF RecvCloses, CloseLink, timers, owner, IInv, TypeOK,
         JobNames, Told
    <2> QED BY <2>1, <2>2, <2>3 DEF IInv
  <1> QED BY <1>1, <1>2, <1>3, <1>4, <1>5, <1>6, <1>7

LEMMA StepIInv == IInv /\ [Next]_vars => IInv'
  <1> SUFFICES ASSUME IInv, [Next]_vars PROVE IInv'
    OBVIOUS
  <1>1. CASE Next
    BY <1>1, UserKeepsIInv, JobsKeepIInv, EventsKeepIInv DEF Next, RunJob, Event
  <1>2. CASE UNCHANGED vars
    BY <1>2 DEF vars, socket, client, timers, owner, IInv, TypeOK, Fresh, OneOpen, Linked,
                Balanced, EventsInOrder, Story
  <1> QED BY <1>1, <1>2

-----------------------------------------------------------------------------
(* The theorems *)

\* The inductive invariant holds in every behaviour of the client.
THEOREM Inductive == Spec => []IInv
  BY InitIInv, StepIInv, PTL DEF Spec

\* Everything has its type, and the count of the client (Retain and Release in
\* socketclient.h and qyfhnet.h) is at every moment one for CNetIO, one for the
\* socket, one for each timer and one for every connect or close that is
\* waiting, however many messages wait for the main thread.
THEOREM RefsAreBalanced == Spec => []Inv
  <1>1. IInv => Inv
    <2> SUFFICES ASSUME IInv PROVE Inv
      OBVIOUS
    <2>1. TypeOK /\ Balanced
      BY DEF IInv
    <2>2. Cardinality({t \in Timers : tstat[t] # "null"})
              = One(tstat["reconnect"] # "null") + One(tstat["timeout"] # "null")
      BY <2>1, TimerRefs DEF TypeOK
    <2>3. jobs \in Seq(JobNames)
      BY <2>1 DEF TypeOK, JobNames
    <2>4. /\ Owned(jobs) \in Nat
          /\ One(held) \in Nat /\ One(ccb) \in Nat
          /\ One(tstat["reconnect"] # "null") \in Nat /\ One(tstat["timeout"] # "null") \in Nat
      BY <2>3, OwnedFinite, OneType
    <2>5. Owned(jobs) = Cardinality({i \in DOMAIN jobs : jobs[i] \in {"connect", "close"}})
      BY DEF Owned
    <2>6. RefsBalanced
      BY <2>1, <2>2, <2>4, <2>5 DEF Balanced, RefsBalanced
    <2> QED BY <2>1, <2>6 DEF Inv
  <1> QED BY <1>1, Inductive, PTL

\* The main thread hears of every connection in order, over any number of
\* reconnects, the one the last expiry of the reconnect timer starts included:
\* up, its messages, down, with no event of one connection inside another
\* (On_Connect, On_Recv and On_Close in socketclient.h).
THEOREM EventsComeInOrder == Spec => []EventsInOrder
  <1>1. IInv => EventsInOrder
    BY DEF IInv
  <1> QED BY <1>1, Inductive, PTL
=============================================================================
