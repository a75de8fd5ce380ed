-------------------------- MODULE NetServer_proof --------------------------
(***************************************************************************)
(* Proofs about NetServer for any connections, any number of messages and  *)
(* any order of the three threads.                                         *)
(*                                                                         *)
(* The inductive invariant IInv says, beside the count itself (Balanced),  *)
(* what the steps that hand the server from one thread to another rely on: *)
(* main is told of an accepted connection once, while the creation         *)
(* reference is still with the listener's thread, and postin_beconnected,  *)
(* which retains the server for its timer, runs once, before there is one; *)
(* and a body is awaited only while the peer has messages to send.         *)
(* JInv, on top of it, gives every connection its story (the events main   *)
(* has handled and those that wait), in order, and ties the last of them   *)
(* to where the connection is: postin_beconnected runs before              *)
(* on_inter_accept_accept, which opens the socket at most once, after main *)
(* has been told, and never when real_fini was seen first (TurnsAway);     *)
(* what is received and closed is an open link.                            *)
(*                                                                         *)
(* A step is about one connection: Framed shows that the others keep what  *)
(* IInv says of them, and Kept what is left to show of that connection.    *)
(***************************************************************************)
EXTENDS NetServer, SequenceTheorems, FiniteSetTheorems, TLAPS

JobSet == [op : {"beconnected", "accept", "close", "sfini", "twait", "tfini"}, on : Conns]
MainSet == [op : {"accept", "up", "msg", "down"}, on : Conns]

Has(q, j) == \E i \in DOMAIN q : q[i] = j
Once(q, j) == \A i, k \in DOMAIN q : q[i] = j /\ q[k] = j => i = k

\* The references to the server of c that jobs hold.
Own(c) == {Job("beconnected", c), Job("close", c)}
Mine(q, c) == {i \in DOMAIN q : q[i] \in Own(c)}
Owned(q, c) == Cardinality(Mine(q, c))

\* How far a connection is.
StartedAt(c) ==
    /\ accepting[c] = "no" => /\ filed[c] = "none" /\ c \notin acb /\ tstat[c] = "null"
                              /\ sstat[c] = "null" /\ recv[c] = "none"
                              /\ \A op : ~Has(jobs, Job(op, c))
                              /\ ~Has(main, Job("accept", c))
    /\ accepting[c] = "tell" => filed[c] = "creator" /\ ~Has(main, Job("accept", c))
    /\ Has(main, Job("accept", c)) => filed[c] = "creator"
    /\ Once(main, Job("accept", c))
    /\ Has(jobs, Job("beconnected", c)) => tstat[c] = "null"
    /\ Once(jobs, Job("beconnected", c))
    /\ binit[c] <=> c \in acb
    /\ recv[c] = "body" => sent[c] < Messages[c]

\* The count, with the jobs counted by Owned.
Holders(c) ==
    One(filed[c] \notin {"none", "dropped"}) + One(c \in acb) + One(tstat[c] # "null")
BalancedAt(c) == refs[c] = Holders(c) + Owned(jobs, c)

Started == \A c \in Conns : StartedAt(c)
Balanced == \A c \in Conns : BalancedAt(c)

IInv ==
    /\ TypeOK
    /\ Started
    /\ Balanced

-----------------------------------------------------------------------------
(* Queues *)

\* Taking a job from the front ...
LEMMA Taken ==
    ASSUME NEW J, NEW q \in Seq(J), q # <<>>
    PROVE  /\ Tail(q) \in Seq(J)
           /\ Head(q) \in J
           /\ Has(q, Head(q))
           /\ \A x : Has(Tail(q), x) => Has(q, x)
           /\ \A x : Once(q, x) => Once(Tail(q), x)
           /\ Once(q, Head(q)) => ~Has(Tail(q), Head(q))
  <1>1. /\ Tail(q) \in Seq(J) /\ Head(q) \in J
        /\ Len(Tail(q)) = Len(q) - 1
        /\ \A i \in 1..Len(Tail(q)) : Tail(q)[i] = q[i + 1]
        /\ Head(q) = q[1]
    BY HeadTailProperties
  <1>2. /\ Len(q) \in Nat \ {0} /\ DOMAIN q = 1..Len(q)
        /\ DOMAIN Tail(q) = 1..(Len(q) - 1)
    BY <1>1, LenProperties, EmptySeq
  <1>3. \A i \in DOMAIN Tail(q) : i \in Nat /\ i + 1 \in DOMAIN q /\ Tail(q)[i] = q[i + 1] /\ i + 1 # 1
    BY <1>1, <1>2
  <1>4. 1 \in DOMAIN q
    BY <1>2
  <1>5. Has(q, Head(q)) /\ \A x : Has(Tail(q), x) => Has(q, x)
    BY <1>1, <1>3, <1>4 DEF Has
  <1>6. ASSUME NEW x, Once(q, x) PROVE Once(Tail(q), x)
    BY <1>2, <1>3, <1>6 DEF Once
  <1>7. Once(q, Head(q)) => ~Has(Tail(q), Head(q))
    BY <1>1, <1>3, <1>4 DEF Once, Has
  <1> QED BY <1>1, <1>5, <1>6, <1>7

\* ... and adding one at the end.
LEMMA Added ==
    ASSUME NEW J, NEW q \in Seq(J), NEW e \in J
    PROVE  /\ Append(q, e) \in Seq(J)
           /\ \A x : Has(Append(q, e), x) => Has(q, x) \/ x = e
           /\ \A x : Once(q, x) /\ (x # e \/ ~Has(q, x)) => Once(Append(q, e), x)
  <1>1. /\ Append(q, e) \in Seq(J)
        /\ Len(q) \in Nat /\ DOMAIN q = 1..Len(q)
        /\ DOMAIN Append(q, e) = 1..(Len(q) + 1)
        /\ \A i \in 1..Len(q) : Append(q, e)[i] = q[i]
        /\ Append(q, e)[Len(q) + 1] = e
    BY AppendProperties, LenProperties
  <1>2. \A i \in DOMAIN Append(q, e) :
           \/ i \in DOMAIN q /\ Append(q, e)[i] = q[i]
           \/ i = Len(q) + 1 /\ Append(q, e)[i] = e
    BY <1>1
  <1>3. \A x : Has(Append(q, e), x) => Has(q, x) \/ x = e
    BY <1>2 DEF Has
  <1>4. ASSUME NEW x, Once(q, x), x # e \/ ~Has(q, x) PROVE Once(Append(q, e), x)
    BY <1>2, <1>4 DEF Once, Has
  <1> QED BY <1>1, <1>3, <1>4

\* Adding one or none.
LEMMA IfAdded ==
    ASSUME NEW J, NEW q \in Seq(J), NEW e \in J, NEW b
    PROVE  q \o If(b, <<e>>) = IF b THEN Append(q, e) ELSE q
  <1>1. Append(q, e) = q \o <<e>> /\ q \o <<>> = q
    BY AppendIsConcat, ConcatEmptySeq
  <1> QED BY <1>1 DEF If

-----------------------------------------------------------------------------
(* References held by jobs *)

LEMMA OneType == One(TRUE) = 1 /\ One(FALSE) = 0 /\ \A b : One(b) \in {0, 1}
  BY DEF One

LEMMA OwnedType ==
    ASSUME NEW q \in Seq(JobSet), NEW c
    PROVE  IsFiniteSet(Mine(q, c)) /\ Owned(q, c) \in Nat
  <1>1. Len(q) \in Nat /\ DOMAIN q = 1..Len(q)
    BY LenProperties
  <1>2. IsFiniteSet(1..Len(q))
    BY <1>1, FS_Interval
  <1>3. IsFiniteSet(Mine(q, c))
    BY <1>1, <1>2, FS_Subset DEF Mine
  <1> QED BY <1>3, FS_CardinalityType DEF Owned

LEMMA OwnedTaken ==
    ASSUME NEW q \in Seq(JobSet), q # <<>>, NEW c
    PROVE  Owned(Tail(q), c) = Owned(q, c) - One(Head(q) \in Own(c))
  <1>1. /\ Tail(q) \in Seq(JobSet)
        /\ Len(Tail(q)) = Len(q) - 1
        /\ \A i \in 1..Len(Tail(q)) : Tail(q)[i] = q[i + 1]
        /\ Head(q) = q[1]
    BY HeadTailProperties
  <1>2. /\ Len(q) \in Nat \ {0} /\ DOMAIN q = 1..Len(q)
        /\ DOMAIN Tail(q) = 1..(Len(q) - 1)
    BY <1>1, LenProperties, EmptySeq
  <1> DEFINE S == Mine(Tail(q), c)
             T == Mine(q, c) \ {1}
             f == [i \in S |-> i + 1]
  <1>3. ExistsBijection(S, T)
    <2>1. \A i \in S : i + 1 \in T
      BY <1>1, <1>2 DEF Mine
    <2>2. \A j \in T : j - 1 \in S /\ (j - 1) + 1 = j
      BY <1>1, <1>2 DEF Mine
    <2>3. \A a, b \in S : f[a] = f[b] => a = b
      BY <1>2 DEF Mine
    <2>4. f \in [S -> T] /\ \A j \in T : \E i \in S : f[i] = j
      BY <2>1, <2>2
    <2>5. f \in Bijection(S, T)
      BY <2>3, <2>4 DEF Bijection, Injection, Surjection, IsInjective
    <2> QED BY <2>5 DEF ExistsBijection
  <1>4. IsFiniteSet(S) /\ IsFiniteSet(Mine(q, c))
    BY <1>1, OwnedType
  <1>5. Cardinality(T) = Cardinality(S)
    <2> HIDE DEF S, T
    <2> QED BY <1>3, <1>4, FS_Bijection
  <1>6. 1 \in Mine(q, c) <=> Head(q) \in Own(c)
    BY <1>1, <1>2 DEF Mine
  <1>7. Cardinality(T) = Cardinality(Mine(q, c)) - One(Head(q) \in Own(c))
    <2>1. CASE Head(q) \in Own(c)
      BY <1>4, <1>6, <2>1, FS_RemoveElement DEF One
    <2>2. CASE Head(q) \notin Own(c)
      <3>1. T = Mine(q, c)
        BY <1>6, <2>2
      <3>2. Cardinality(T) \in Nat /\ Cardinality(T) = Cardinality(Mine(q, c))
        BY <1>4, <3>1, FS_CardinalityType
      <3>3. One(Head(q) \in Own(c)) = 0
        BY <2>2 DEF One
      <3> QED BY <3>2, <3>3
    <2> QED BY <2>1, <2>2
  <1> QED BY <1>5, <1>7 DEF Owned

LEMMA OwnedAdded ==
    ASSUME NEW q \in Seq(JobSet), NEW e \in JobSet, NEW c
    PROVE  Owned(Append(q, e), c) = Owned(q, c) + One(e \in Own(c))
  <1>1. /\ Len(q) \in Nat /\ DOMAIN q = 1..Len(q)
        /\ DOMAIN Append(q, e) = 1..(Len(q) + 1)
        /\ \A i \in 1..Len(q) : Append(q, e)[i] = q[i]
        /\ Append(q, e)[Len(q) + 1] = e
        /\ Append(q, e) \in Seq(JobSet)
    BY AppendProperties, LenProperties
  <1>2. IsFiniteSet(Mine(q, c)) /\ Owned(q, c) \in Nat /\ Owned(q, c) = Cardinality(Mine(q, c))
    BY OwnedType DEF Owned
  <1>3. CASE e \in Own(c)
    <2>1. Mine(Append(q, e), c) = Mine(q, c) \cup {Len(q) + 1} /\ Len(q) + 1 \notin Mine(q, c)
      BY <1>1, <1>3 DEF Mine
    <2>2. Cardinality(Mine(q, c) \cup {Len(q) + 1}) = Cardinality(Mine(q, c)) + 1
      BY <1>2, <2>1, FS_AddElement
    <2>3. One(e \in Own(c)) = 1
      BY <1>3 DEF One
    <2> QED BY <1>2, <2>1, <2>2, <2>3 DEF Owned
  <1>4. CASE e \notin Own(c)
    <2>1. Mine(Append(q, e), c) = Mine(q, c)
      BY <1>1, <1>4 DEF Mine
    <2>2. One(e \in Own(c)) = 0
      BY <1>4 DEF One
    <2> QED BY <1>2, <2>1, <2>2 DEF Owned
  <1> QED BY <1>3, <1>4

-----------------------------------------------------------------------------
(* What a step for one connection may do to the jobs *)

Keeps(q, r, c) ==
    /\ r \in Seq(JobSet)
    /\ \A op, d : Has(r, Job(op, d)) => Has(q, Job(op, d)) \/ d = c
    /\ \A d : Has(r, Job("beconnected", d)) => Has(q, Job("beconnected", d))
    /\ \A d : Once(q, Job("beconnected", d)) => Once(r, Job("beconnected", d))
    /\ \A d : d # c => Owned(r, d) = Owned(q, d)

LEMMA KeepsItself == \A q \in Seq(JobSet) : \A c : Keeps(q, q, c)
  BY DEF Keeps

LEMMA KeepsFurther ==
    ASSUME NEW p, NEW q, NEW r, NEW c, Keeps(p, q, c), Keeps(q, r, c)
    PROVE  Keeps(p, r, c)
  BY DEF Keeps

LEMMA JobEq == \A op, d, oq, c : Job(op, d) = Job(oq, c) <=> op = oq /\ d = c
  <1>1. \A op, d : Job(op, d).op = op /\ Job(op, d).on = d
    BY DEF Job
  <1>2. \A op, d, oq, c : Job(op, d) = Job(oq, c) => op = oq /\ d = c
    BY <1>1
  <1> QED BY <1>2

LEMMA TakenKeeps ==
    ASSUME NEW q \in Seq(JobSet), q # <<>>, NEW op, NEW c, Head(q) = Job(op, c)
    PROVE  /\ Keeps(q, Tail(q), c)
           /\ Owned(Tail(q), c) = Owned(q, c) - One(op \in {"beconnected", "close"})
           /\ Has(q, Job(op, c))
           /\ Once(q, Job(op, c)) => ~Has(Tail(q), Job(op, c))
  <1>1. /\ Tail(q) \in Seq(JobSet)
        /\ Has(q, Head(q))
        /\ \A x : Has(Tail(q), x) => Has(q, x)
        /\ \A x : Once(q, x) => Once(Tail(q), x)
        /\ Once(q, Head(q)) => ~Has(Tail(q), Head(q))
    BY Taken
  <1>2. \A d : Head(q) \in Own(d) <=> op \in {"beconnected", "close"} /\ d = c
    BY JobEq DEF Own
  <1>3. \A d : Owned(Tail(q), d) = Owned(q, d) - One(Head(q) \in Own(d)) /\ Owned(q, d) \in Nat
    BY OwnedTaken, OwnedType
  <1>4. ASSUME NEW d, d # c PROVE Owned(Tail(q), d) = Owned(q, d)
    <2>1. One(Head(q) \in Own(d)) = 0
      BY <1>2, <1>4 DEF One
    <2> QED BY <1>3, <2>1
  <1>5. One(Head(q) \in Own(c)) = One(op \in {"beconnected", "close"})
    BY <1>2 DEF One
  <1> QED BY <1>1, <1>3, <1>4, <1>5 DEF Keeps

LEMMA AddedKeeps ==
    ASSUME NEW q \in Seq(JobSet), NEW c \in Conns,
           NEW op \in {"accept", "close", "sfini", "twait", "tfini"}
    PROVE  /\ Keeps(q, Append(q, Job(op, c)), c)
           /\ Owned(Append(q, Job(op, c)), c) = Owned(q, c) + One(op = "close")
  <1> DEFINE e == Job(op, c)
             r == Append(q, e)
  <1>1. e \in JobSet
    BY DEF JobSet, Job
  <1>2. \A d : e \in Own(d) <=> op = "close" /\ d = c
    BY JobEq DEF Own
  <1>3. \A o, d : Job(o, d) = e <=> o = op /\ d = c
    BY JobEq
  <1> HIDE DEF e
  <1>4. /\ r \in Seq(JobSet)
        /\ \A x : Has(r, x) => Has(q, x) \/ x = e
        /\ \A x : Once(q, x) /\ (x # e \/ ~Has(q, x)) => Once(r, x)
    BY <1>1, Added
  <1>5. \A d : Owned(r, d) = Owned(q, d) + One(e \in Own(d)) /\ Owned(q, d) \in Nat
    BY <1>1, OwnedAdded, OwnedType
  <1>6. ASSUME NEW d, d # c PROVE Owned(r, d) = Owned(q, d)
    <2>1. One(e \in Own(d)) = 0
      BY <1>2, <1>6 DEF One
    <2> QED BY <1>5, <2>1
  <1>7. One(e \in Own(c)) = One(op = "close")
    BY <1>2 DEF One
  <1> HIDE DEF r
  <1>8. \A o, d : Has(r, Job(o, d)) => Has(q, Job(o, d)) \/ d = c
    BY <1>3, <1>4
  <1>9. \A d : Job("beconnected", d) # e
    BY <1>3
  <1>10. \A d : /\ Has(r, Job("beconnected", d)) => Has(q, Job("beconnected", d))
                /\ Once(q, Job("beconnected", d)) => Once(r, Job("beconnected", d))
    BY <1>4, <1>9
  <1>11. Keeps(q, r, c)
    BY <1>4, <1>6, <1>8, <1>10 DEF Keeps
  <1> QED BY <1>5, <1>7, <1>11 DEF r, e

\* Close posts postin_close if the server is busy ...
LEMMA CloseKeeps ==
    ASSUME NEW q \in Seq(JobSet), NEW c \in Conns
    PROVE  /\ Keeps(q, q \o CloseJobs(c), c)
           /\ Owned(q \o CloseJobs(c), c) = Owned(q, c) + One(c \in busing)
  <1>1. Job("close", c) \in JobSet
    BY DEF JobSet, Job
  <1>2. q \o CloseJobs(c) = IF c \in busing THEN Append(q, Job("close", c)) ELSE q
    BY <1>1, IfAdded DEF CloseJobs
  <1>3. Owned(q, c) \in Nat
    BY OwnedType
  <1>4. CASE c \in busing
    <2>1. One(c \in busing) = One("close" = "close")
      BY <1>4 DEF One
    <2> QED BY <1>2, <1>4, <2>1, AddedKeeps
  <1>5. CASE c \notin busing
    <2>1. One(c \in busing) = 0
      BY <1>5 DEF One
    <2> QED BY <1>2, <1>3, <1>5, <2>1, KeepsItself
  <1> QED BY <1>4, <1>5

\* ... and the Finis of the socket and of the timer hold no reference.
LEMMA FiniKeeps ==
    ASSUME NEW q \in Seq(JobSet), NEW c \in Conns,
           NEW op \in {"sfini", "tfini"}, NEW b
    PROVE  /\ Keeps(q, q \o If(b, <<Job(op, c)>>), c)
           /\ Owned(q \o If(b, <<Job(op, c)>>), c) = Owned(q, c)
  <1>1. Job(op, c) \in JobSet
    BY DEF JobSet, Job
  <1>2. q \o If(b, <<Job(op, c)>>) = IF b THEN Append(q, Job(op, c)) ELSE q
    BY <1>1, IfAdded
  <1>3. /\ Keeps(q, Append(q, Job(op, c)), c)
        /\ Owned(Append(q, Job(op, c)), c) = Owned(q, c) + One(op = "close")
    BY AddedKeeps
  <1>4. One(op = "close") = 0 /\ Owned(q, c) \in Nat
    BY OwnedType DEF One
  <1>5. CASE b
    <2>1. q \o If(b, <<Job(op, c)>>) = Append(q, Job(op, c))
      BY <1>2, <1>5
    <2>2. Owned(Append(q, Job(op, c)), c) = Owned(q, c)
      BY <1>3, <1>4
    <2> QED BY <1>3, <2>1, <2>2
  <1>6. CASE ~b
    <2>1. q \o If(b, <<Job(op, c)>>) = q
      BY <1>2, <1>6
    <2> QED BY <2>1, KeepsItself
  <1> QED BY <1>5, <1>6

\* What a step leaves alone when it is about the connection c.
Others(q, r, c) ==
    /\ r \in Seq(JobSet)
    /\ \A d : d # c => /\ \A op : Has(r, Job(op, d)) => Has(q, Job(op, d))
                       /\ Once(q, Job("beconnected", d)) => Once(r, Job("beconnected", d))
                       /\ Owned(r, d) = Owned(q, d)

LEMMA KeepsOthers == \A q, r, c : Keeps(q, r, c) => Others(q, r, c)
  BY DEF Keeps, Others

\* BeConnected posts the first job of a new server.
LEMMA FirstJob ==
    ASSUME NEW q \in Seq(JobSet), NEW c \in Conns
    PROVE  LET r == Append(q, Job("beconnected", c)) IN
             /\ Others(q, r, c)
             /\ ~Has(q, Job("beconnected", c)) => Once(r, Job("beconnected", c))
             /\ Owned(r, c) = Owned(q, c) + 1
  <1> DEFINE e == Job("beconnected", c)
             r == Append(q, e)
  <1>1. e \in JobSet
    BY DEF JobSet, Job
  <1>2. \A d : e \in Own(d) <=> d = c
    BY JobEq DEF Own
  <1>3. \A o, d : Job(o, d) = e <=> o = "beconnected" /\ d = c
    BY JobEq
  <1> HIDE DEF e
  <1>4. /\ r \in Seq(JobSet)
        /\ \A x : Has(r, x) => Has(q, x) \/ x = e
        /\ \A x : Once(q, x) /\ (x # e \/ ~Has(q, x)) => Once(r, x)
    BY <1>1, Added
  <1>5. \A d : Owned(r, d) = Owned(q, d) + One(e \in Own(d)) /\ Owned(q, d) \in Nat
    BY <1>1, OwnedAdded, OwnedType
  <1>6. ASSUME NEW d, d # c PROVE Owned(r, d) = Owned(q, d)
    <2>1. One(e \in Own(d)) = 0
      BY <1>2, <1>6 DEF One
    <2> QED BY <1>5, <2>1
  <1>7. Owned(r, c) = Owned(q, c) + 1
    <2>1. One(e \in Own(c)) = 1
      BY <1>2 DEF One
    <2> QED BY <1>5, <2>1
  <1> HIDE DEF r
  <1>8. \A o, d : Has(r, Job(o, d)) => Has(q, Job(o, d)) \/ d = c
    BY <1>3, <1>4
  <1>9. ASSUME NEW d, d # c, Once(q, Job("beconnected", d))
        PROVE  Once(r, Job("beconnected", d))
    BY <1>3, <1>4, <1>9
  <1>10. Others(q, r, c)
    BY <1>4, <1>6, <1>8, <1>9 DEF Others
  <1>11. ASSUME ~Has(q, Job("beconnected", c)) PROVE Once(r, Job("beconnected", c))
    <2>1. ~Has(q, e) => Once(q, e)
      BY DEF Has, Once
    <2> QED BY <1>4, <1>11, <2>1 DEF e
  <1> QED BY <1>7, <1>10, <1>11 DEF r, e

-----------------------------------------------------------------------------
(* The main thread's mailbox *)

MainKeeps(q, r) ==
    /\ r \in Seq(MainSet)
    /\ \A d : /\ Has(r, Job("accept", d)) => Has(q, Job("accept", d))
              /\ Once(q, Job("accept", d)) => Once(r, Job("accept", d))

LEMMA MainKeepsItself == \A q \in Seq(MainSet) : MainKeeps(q, q)
  BY DEF MainKeeps

LEMMA MainTaken ==
    ASSUME NEW q \in Seq(MainSet), q # <<>>, NEW op, NEW c, Head(q) = Job(op, c)
    PROVE  /\ MainKeeps(q, Tail(q))
           /\ Has(q, Job(op, c))
           /\ Once(q, Job(op, c)) => ~Has(Tail(q), Job(op, c))
  BY Taken DEF MainKeeps

LEMMA MainAdded ==
    ASSUME NEW q \in Seq(MainSet), NEW op \in {"up", "msg", "down"}, NEW c \in Conns
    PROVE  MainKeeps(q, Append(q, Job(op, c)))
  <1> DEFINE e == Job(op, c)
  <1>1. e \in MainSet
    BY DEF MainSet, Job
  <1>2. \A d : Job("accept", d) # e
    BY JobEq
  <1> HIDE DEF e
  <1>3. MainKeeps(q, Append(q, e))
    BY <1>1, <1>2, Added DEF MainKeeps
  <1> QED BY <1>3 DEF e

-----------------------------------------------------------------------------
(* A step that is about the connection c *)

Frame(c) ==
    \A d \in Conns \ {c} :
        /\ accepting'[d] = accepting[d] /\ filed'[d] = filed[d] /\ binit'[d] = binit[d]
        /\ tstat'[d] = tstat[d] /\ refs'[d] = refs[d]
        /\ sstat'[d] = sstat[d] /\ recv'[d] = recv[d] /\ sent'[d] = sent[d]
        /\ d \in acb' <=> d \in acb

\* It is enough to look at c.
LEMMA Framed ==
    ASSUME IInv, NEW c \in Conns, TypeOK', Frame(c), Others(jobs, jobs', c),
           MainKeeps(main, main') \/ main' = Append(main, Job("accept", c)),
           StartedAt(c)', BalancedAt(c)'
    PROVE  IInv'
  <1>1. ASSUME NEW d \in Conns, d # c
        PROVE  /\ Has(main', Job("accept", d)) => Has(main, Job("accept", d))
               /\ Once(main, Job("accept", d)) => Once(main', Job("accept", d))
    <2>1. CASE MainKeeps(main, main')
      BY <2>1 DEF MainKeeps
    <2>2. CASE main' = Append(main, Job("accept", c))
      <3>1. Job("accept", c) \in MainSet /\ main \in Seq(MainSet)
        BY DEF MainSet, Job, IInv, TypeOK
      <3>2. Job("accept", d) # Job("accept", c)
        BY <1>1, JobEq
      <3> QED BY <2>2, <3>1, <3>2, Added
    <2> QED BY <2>1, <2>2
  <1>2. ASSUME NEW d \in Conns, d # c PROVE StartedAt(d)'
    <2>1. StartedAt(d)
      BY DEF IInv, Started
    <2>2. /\ \A op : Has(jobs', Job(op, d)) => Has(jobs, Job(op, d))
          /\ Once(jobs, Job("beconnected", d)) => Once(jobs', Job("beconnected", d))
      BY <1>2 DEF Others
    <2>3. /\ accepting'[d] = accepting[d] /\ filed'[d] = filed[d] /\ binit'[d] = binit[d]
          /\ tstat'[d] = tstat[d] /\ sstat'[d] = sstat[d] /\ recv'[d] = recv[d]
          /\ sent'[d] = sent[d] /\ (d \in acb' <=> d \in acb)
      BY <1>2 DEF Frame
    <2> QED BY <1>1, <1>2, <2>1, <2>2, <2>3 DEF StartedAt
  <1>3. ASSUME NEW d \in Conns, d # c PROVE BalancedAt(d)'
    <2>1. BalancedAt(d)
      BY DEF IInv, Balanced
    <2>2. Owned(jobs', d) = Owned(jobs, d)
      BY <1>3 DEF Others
    <2>3. filed'[d] = filed[d] /\ tstat'[d] = tstat[d] /\ refs'[d] = refs[d]
      BY <1>3 DEF Frame
    <2>4. One(d \in acb') = One(d \in acb)
      BY <1>3 DEF Frame, One
    <2> QED BY <2>1, <2>2, <2>3, <2>4 DEF BalancedAt, Holders
  <1> QED BY <1>2, <1>3 DEF IInv, Started, Balanced

\* What IInv says of the queues and of c.
LEMMA Facts ==
    ASSUME IInv, NEW c \in Conns
    PROVE  /\ jobs \in Seq(JobSet) /\ main \in Seq(MainSet)
           /\ StartedAt(c) /\ BalancedAt(c)
           /\ Owned(jobs, c) \in Nat
           /\ refs \in [Conns -> Nat] /\ refs[c] \in Nat
  <1>1. jobs \in Seq(JobSet) /\ main \in Seq(MainSet) /\ refs \in [Conns -> Nat]
    BY DEF IInv, TypeOK, JobSet, MainSet
  <1>2. Owned(jobs, c) \in Nat
    BY <1>1, OwnedType
  <1> QED BY <1>1, <1>2 DEF IInv, Started, Balanced

LEMMA InitIInv == Init => IInv
  <1> SUFFICES ASSUME Init PROVE IInv
    OBVIOUS
  <1>1. TypeOK
    BY MessagesAssumption DEF Init, TypeOK
  <1>2. \A x : ~Has(<<>>, x) /\ Once(<<>>, x)
    BY DEF Has, Once
  <1>3. Started
    BY <1>2 DEF Init, Started, StartedAt
  <1>4. ASSUME NEW c \in Conns PROVE BalancedAt(c)
    <2>1. Mine(<<>>, c) = {}
      BY DEF Mine
    <2>2. Owned(jobs, c) = 0
      BY <2>1, FS_EmptySet DEF Owned, Init
    <2>3. One(filed[c] \notin {"none", "dropped"}) = 0 /\ One(c \in acb) = 0
          /\ One(tstat[c] # "null") = 0
      BY DEF One, Init
    <2>4. refs[c] = 0
      BY DEF Init
    <2> QED BY <2>2, <2>3, <2>4 DEF BalancedAt, Holders
  <1> QED BY <1>1, <1>3, <1>4 DEF IInv, Balanced

LEMMA HoldersType == \A c : Holders(c) \in Nat
  BY OneType DEF Holders

\* A job of c that runs is taken from the mailbox; c has been accepted.
LEMMA JobRuns ==
    ASSUME IInv, NEW c \in Conns, NEW op, Runs(op, c)
    PROVE  /\ Tail(jobs) \in Seq(JobSet)
           /\ Keeps(jobs, Tail(jobs), c)
           /\ Owned(Tail(jobs), c) = Owned(jobs, c) - One(op \in {"beconnected", "close"})
           /\ Has(jobs, Job(op, c))
           /\ op = "beconnected" => ~Has(Tail(jobs), Job(op, c)) /\ tstat[c] = "null"
           /\ accepting[c] # "no"
  <1>1. jobs \in Seq(JobSet) /\ jobs # <<>> /\ Head(jobs) = Job(op, c)
    BY Facts DEF Runs
  <1>2. /\ Keeps(jobs, Tail(jobs), c)
        /\ Owned(Tail(jobs), c) = Owned(jobs, c) - One(op \in {"beconnected", "close"})
        /\ Has(jobs, Job(op, c))
        /\ Once(jobs, Job(op, c)) => ~Has(Tail(jobs), Job(op, c))
    BY <1>1, TakenKeeps
  <1>3. StartedAt(c)
    BY Facts
  <1>4. accepting[c] # "no" /\ op = "beconnected" => Once(jobs, Job(op, c)) /\ tstat[c] = "null"
    BY <1>2, <1>3 DEF StartedAt
  <1>5. accepting[c] # "no"
    BY <1>2, <1>3 DEF StartedAt
  <1> QED BY <1>2, <1>4, <1>5 DEF Keeps

\* The same for the main thread.
LEMMA MainTakes ==
    ASSUME IInv, NEW c \in Conns, NEW op, MainRuns(op, c)
    PROVE  /\ MainKeeps(main, Tail(main))
           /\ op = "accept" => /\ ~Has(Tail(main), Job("accept", c))
                               /\ filed[c] = "creator"
                               /\ accepting[c] \notin {"no", "tell"}
  <1>1. main \in Seq(MainSet) /\ main # <<>> /\ Head(main) = Job(op, c)
    BY Facts DEF MainRuns
  <1>2. /\ MainKeeps(main, Tail(main))
        /\ Has(main, Job(op, c))
        /\ Once(main, Job(op, c)) => ~Has(Tail(main), Job(op, c))
    BY <1>1, MainTaken
  <1>3. StartedAt(c)
    BY Facts
  <1> QED BY <1>2, <1>3 DEF StartedAt

\* A step of an accepted connection that takes jobs or adds some of its own,
\* and that leaves the listener's thread where it is.
LEMMA Kept ==
    ASSUME IInv, NEW c \in Conns, TypeOK', Frame(c),
           accepting' = accepting, accepting[c] # "no",
           Keeps(jobs, jobs', c), MainKeeps(main, main'),
           \/ filed'[c] = filed[c]
           \/ accepting[c] # "tell" /\ ~Has(main', Job("accept", c)),
           \/ tstat[c] = "null" => tstat'[c] = "null"
           \/ ~Has(jobs', Job("beconnected", c)),
           binit'[c] <=> c \in acb',
           recv'[c] = "body" => \/ recv[c] = "body" /\ sent'[c] = sent[c]
                                \/ sent'[c] < Messages[c],
           refs'[c] = Holders(c)' + Owned(jobs', c)
    PROVE  IInv'
  <1>1. StartedAt(c)
    BY Facts
  <1>2. /\ Has(jobs', Job("beconnected", c)) => Has(jobs, Job("beconnected", c))
        /\ Once(jobs, Job("beconnected", c)) => Once(jobs', Job("beconnected", c))
    BY DEF Keeps
  <1>3. /\ Has(main', Job("accept", c)) => Has(main, Job("accept", c))
        /\ Once(main, Job("accept", c)) => Once(main', Job("accept", c))
    BY DEF MainKeeps
  <1>4. StartedAt(c)'
    BY <1>1, <1>2, <1>3 DEF StartedAt
  <1>5. BalancedAt(c)'
    BY DEF BalancedAt
  <1>6. Others(jobs, jobs', c)
    BY KeepsOthers
  <1> QED BY <1>4, <1>5, <1>6, Framed

LEMMA SocketFiniKeeps ==
    ASSUME NEW q \in Seq(JobSet), NEW c \in Conns
    PROVE  Keeps(q, q \o SocketFini(c), c) /\ Owned(q \o SocketFini(c), c) = Owned(q, c)
  <1>1. "sfini" \in {"sfini", "tfini"}
    OBVIOUS
  <1> QED BY ONLY <1>1, FiniKeeps, q \in Seq(JobSet), c \in Conns, Zenon DEF SocketFini

LEMMA TimerFiniKeeps ==
    ASSUME NEW q \in Seq(JobSet), NEW c \in Conns
    PROVE  Keeps(q, q \o TimerFini(c), c) /\ Owned(q \o TimerFini(c), c) = Owned(q, c)
  <1>1. "tfini" \in {"sfini", "tfini"}
    OBVIOUS
  <1> QED BY ONLY <1>1, FiniKeeps, q \in Seq(JobSet), c \in Conns, Zenon DEF TimerFini

\* A step that no part of IInv notices.
LEMMA Quiet ==
    ASSUME IInv, TypeOK', MainKeeps(main, main'),
           UNCHANGED <<accepting, jobs, filed, acb, binit, tstat, refs, sstat, recv, sent>>
    PROVE  IInv'
  <1>1. ASSUME NEW c \in Conns PROVE StartedAt(c)' /\ BalancedAt(c)'
    <2>1. StartedAt(c) /\ BalancedAt(c)
      BY Facts
    <2> QED BY <2>1 DEF StartedAt, MainKeeps, BalancedAt, Holders
  <1> QED BY <1>1 DEF IInv, Started, Balanced

\* Closing the link tells the main thread and Fini's the timer.
LEMMA CloseLinkKeeps ==
    ASSUME IInv, NEW c \in Conns, NEW fini, CloseLink(c, fini), Keeps(jobs, fini, c)
    PROVE  /\ Keeps(jobs, jobs', c) /\ Owned(jobs', c) = Owned(fini, c)
           /\ MainKeeps(main, main')
  <1>1. main \in Seq(MainSet) /\ fini \in Seq(JobSet)
    BY Facts DEF Keeps
  <1>2. CASE c \in acb
    <2>1. Keeps(fini, jobs', c) /\ Owned(jobs', c) = Owned(fini, c)
      <3>1. jobs' = fini \o TimerFini(c)
        BY <1>2 DEF CloseLink
      <3> QED BY <1>1, <3>1, TimerFiniKeeps
    <2>2. main' = Append(main, Job("down", c))
      BY <1>2 DEF CloseLink
    <2>3. MainKeeps(main, main')
      BY <1>1, <2>2, MainAdded
    <2> QED BY <2>1, <2>3, KeepsFurther
  <1>3. CASE c \notin acb
    BY <1>1, <1>3, MainKeepsItself DEF CloseLink
  <1> QED BY <1>2, <1>3

\* It leaves every other connection alone.
LEMMA CloseLinkFrame ==
    ASSUME IInv, NEW c \in Conns, NEW fini, CloseLink(c, fini)
    PROVE  /\ sstat' \in [Conns -> {"null", "connect", "common"}]
           /\ recv' \in [Conns -> {"none", "head", "body", "empty"}]
           /\ status' \in [Conns -> {"closed", "establishing", "established"}]
           /\ busing' \subseteq Conns /\ known' \subseteq Conns
           /\ recv'[c] = "none"
           /\ \A d \in Conns \ {c} : sstat'[d] = sstat[d] /\ recv'[d] = recv[d]
  <1>1. /\ sstat \in [Conns -> {"null", "connect", "common"}]
        /\ recv \in [Conns -> {"none", "head", "body", "empty"}]
        /\ status \in [Conns -> {"closed", "establishing", "established"}]
        /\ busing \subseteq Conns /\ known \subseteq Conns
    BY DEF IInv, TypeOK
  <1>2. CASE c \in acb
    BY <1>1, <1>2 DEF CloseLink
  <1>3. CASE c \notin acb
    BY <1>1, <1>3 DEF CloseLink
  <1> QED BY <1>2, <1>3

-----------------------------------------------------------------------------
(* The steps of one connection *)

LEMMA MainRefusesStep ==
    ASSUME IInv, NEW c \in Conns, MainRefuses(c)
    PROVE  IInv'
  <1>1. /\ jobs \in Seq(JobSet) /\ main \in Seq(MainSet) /\ refs \in [Conns -> Nat]
        /\ StartedAt(c) /\ refs[c] = Holders(c) + Owned(jobs, c)
        /\ refs[c] \in Nat /\ Holders(c) \in Nat /\ Owned(jobs, c) \in Nat
    BY Facts, HoldersType DEF BalancedAt
  <1>2. accepting[c] # "no" /\ accepting' = accepting
    BY MainTakes DEF MainRefuses
  <1>3. Keeps(jobs, jobs', c) /\ Owned(jobs', c) = Owned(jobs, c) + One(c \in busing)
    BY <1>1, CloseKeeps DEF MainRefuses
  <1>4. MainKeeps(main, main')
    BY MainTakes DEF MainRefuses, MainPopped
  <1>5. refs'[c] = Holders(c)' + Owned(jobs', c)
    <2>1. filed[c] = "creator" /\ filed'[c] = "dropped" /\ tstat'[c] = tstat[c] /\ acb' = acb
      BY MainTakes DEF MainRefuses, IInv, TypeOK, socket, timer
    <2>2. Holders(c)' = Holders(c) - 1
      BY <2>1 DEF Holders, One
    <2>3. refs'[c] = refs[c] - 1 + One(c \in busing)
      BY <1>1 DEF MainRefuses
    <2>4. One(c \in busing) \in {0, 1}
      BY OneType
    <2> QED BY <1>1, <1>3, <2>2, <2>3, <2>4
  <1>6. refs' \in [Conns -> Nat]
    <2>1. Owned(jobs', c) \in Nat /\ Holders(c)' \in Nat
      BY <1>3, OwnedType, OneType DEF Keeps, Holders
    <2>2. refs'[c] \in Nat
      BY <1>5, <2>1
    <2> QED BY <1>1, <2>2 DEF MainRefuses, socket, server, timer, history
  <1>7. TypeOK'
    BY <1>3, <1>4, <1>6 DEF Keeps, MainKeeps, JobSet, MainSet, IInv, TypeOK,
       MainRefuses, Tells, socket, server, timer, history
  <1>8. Frame(c)
    BY DEF Frame, IInv, TypeOK, MainRefuses, Tells, socket, server, timer, history
  <1>9. /\ binit'[c] <=> c \in acb'
        /\ \/ filed'[c] = filed[c]
           \/ accepting[c] # "tell" /\ ~Has(main', Job("accept", c))
        /\ \/ tstat[c] = "null" => tstat'[c] = "null"
           \/ ~Has(jobs', Job("beconnected", c))
        /\ recv'[c] = "body" => \/ recv[c] = "body" /\ sent'[c] = sent[c]
                               \/ sent'[c] < Messages[c]
    BY <1>1, MainTakes DEF StartedAt, MainRefuses, MainPopped, socket, timer
  <1> QED BY <1>2, <1>3, <1>4, <1>5, <1>7, <1>8, <1>9, Kept

LEMMA MainAdmitsStep ==
    ASSUME IInv, NEW c \in Conns, MainAdmits(c)
    PROVE  IInv'
  <1>1. /\ jobs \in Seq(JobSet) /\ main \in Seq(MainSet) /\ refs \in [Conns -> Nat]
        /\ StartedAt(c) /\ refs[c] = Holders(c) + Owned(jobs, c)
        /\ refs[c] \in Nat /\ Holders(c) \in Nat /\ Owned(jobs, c) \in Nat
    BY Facts, HoldersType DEF BalancedAt
  <1>2. accepting[c] # "no" /\ accepting' = accepting
    BY MainTakes DEF MainAdmits
  <1>3. Keeps(jobs, jobs', c) /\ Owned(jobs', c) = Owned(jobs, c)
    BY <1>1, KeepsItself DEF MainAdmits, socket, server, timer, history
  <1>4. MainKeeps(main, main')
    BY MainTakes DEF MainAdmits, MainPopped
  <1>5. refs'[c] = Holders(c)' + Owned(jobs', c)
    <2>1. filed[c] = "creator" /\ filed'[c] \in {"id", "zero", "lost"}
      BY MainTakes DEF MainAdmits, IInv, TypeOK
    <2>2. tstat' = tstat /\ acb' = acb /\ refs' = refs
      BY DEF MainAdmits, socket, timer
    <2>3. Holders(c)' = Holders(c)
      BY <2>1, <2>2 DEF Holders, One
    <2> QED BY <1>1, <1>3, <2>2, <2>3
  <1>6. refs' \in [Conns -> Nat]
    <2>1. Owned(jobs', c) \in Nat /\ Holders(c)' \in Nat
      BY <1>3, OwnedType, OneType DEF Keeps, Holders
    <2>2. refs'[c] \in Nat
      BY <1>5, <2>1
    <2> QED BY <1>1, <2>2 DEF MainAdmits, socket, server, timer, history
  <1>7. TypeOK'
    BY <1>3, <1>4, <1>6 DEF Keeps, MainKeeps, JobSet, MainSet, IInv, TypeOK,
       MainAdmits, Tells, socket, server, timer, history
  <1>8. Frame(c)
    BY DEF Frame, IInv, TypeOK, MainAdmits, Tells, socket, server, timer, history
  <1>9. /\ binit'[c] <=> c \in acb'
        /\ \/ filed'[c] = filed[c]
           \/ accepting[c] # "tell" /\ ~Has(main', Job("accept", c))
        /\ \/ tstat[c] = "null" => tstat'[c] = "null"
           \/ ~Has(jobs', Job("beconnected", c))
        /\ recv'[c] = "body" => \/ recv[c] = "body" /\ sent'[c] = sent[c]
                               \/ sent'[c] < Messages[c]
    BY <1>1, MainTakes DEF StartedAt, MainAdmits, MainPopped, socket, timer
  <1> QED BY <1>2, <1>3, <1>4, <1>5, <1>7, <1>8, <1>9, Kept

LEMMA TimerWaitStep ==
    ASSUME IInv, NEW c \in Conns, TimerWait(c)
    PROVE  IInv'
  <1>1. /\ jobs \in Seq(JobSet) /\ main \in Seq(MainSet) /\ refs \in [Conns -> Nat]
        /\ StartedAt(c) /\ refs[c] = Holders(c) + Owned(jobs, c)
        /\ refs[c] \in Nat /\ Holders(c) \in Nat /\ Owned(jobs, c) \in Nat
    BY Facts, HoldersType DEF BalancedAt
  <1>2. accepting[c] # "no" /\ accepting' = accepting
    BY JobRuns DEF TimerWait
  <1>3. Keeps(jobs, jobs', c) /\ Owned(jobs', c) = Owned(jobs, c)
    <2>1. /\ Keeps(jobs, Tail(jobs), c)
          /\ Owned(Tail(jobs), c) = Owned(jobs, c) - One("twait" \in {"beconnected", "close"})
      BY JobRuns DEF TimerWait
    <2>2. One("twait" \in {"beconnected", "close"}) = 0
      BY DEF One
    <2> QED BY <1>1, <2>1, <2>2 DEF TimerWait
  <1>4. MainKeeps(main, main')
    BY <1>1, MainKeepsItself DEF TimerWait, socket, server, timer, history
  <1>5. refs'[c] = Holders(c)' + Owned(jobs', c)
    <2>1. Holders(c)' = Holders(c)
      BY <1>1 DEF Holders, One, StartedAt, IInv, TypeOK, TimerWait, socket, server, timer,
         history
    <2>2. refs'[c] = refs[c]
      BY <1>1 DEF TimerWait, socket, server, timer, history
    <2> QED BY <1>1, <1>3, <2>1, <2>2
  <1>6. refs' \in [Conns -> Nat]
    <2>1. Owned(jobs', c) \in Nat /\ Holders(c)' \in Nat
      BY <1>3, OwnedType, OneType DEF Keeps, Holders
    <2>2. refs'[c] \in Nat
      BY <1>5, <2>1
    <2> QED BY <1>1, <2>2 DEF TimerWait, socket, server, timer, history
  <1>7. TypeOK'
    <2>1. /\ tstat' \in [Conns -> {"null", "init", "on", "end"}] /\ armed' \subseteq Conns
          /\ UNCHANGED <<accepting, main, socket, server, refs, filed, sent, told, history>>
      <3>1. tstat \in [Conns -> {"null", "init", "on", "end"}] /\ armed \subseteq Conns
        BY DEF IInv, TypeOK
      <3>2. CASE tstat[c] = "init"
        BY <3>1, <3>2 DEF TimerWait
      <3>3. CASE tstat[c] # "init"
        BY <3>1, <3>3 DEF TimerWait, timer
      <3> QED BY <3>2, <3>3
    <2> QED BY <1>3, <1>4, <1>6, <2>1 DEF Keeps, MainKeeps, JobSet, MainSet, IInv, TypeOK,
         socket, server, timer, history
  <1>8. Frame(c)
    BY DEF Frame, IInv, TypeOK, TimerWait, socket, server, timer, history
  <1>9. /\ binit'[c] <=> c \in acb'
        /\ \/ filed'[c] = filed[c]
           \/ accepting[c] # "tell" /\ ~Has(main', Job("accept", c))
        /\ \/ tstat[c] = "null" => tstat'[c] = "null"
           \/ ~Has(jobs', Job("beconnected", c))
        /\ recv'[c] = "body" => \/ recv[c] = "body" /\ sent'[c] = sent[c]
                               \/ sent'[c] < Messages[c]
    BY <1>1, <1>2 DEF StartedAt, IInv, TypeOK, TimerWait, socket, server, timer, history
  <1> QED BY <1>2, <1>3, <1>4, <1>5, <1>7, <1>8, <1>9, Kept

LEMMA RealFiniAgainStep ==
    ASSUME IInv, NEW c \in Conns, RealFiniAgain(c)
    PROVE  IInv'
  <1>1. /\ jobs \in Seq(JobSet) /\ main \in Seq(MainSet) /\ refs \in [Conns -> Nat]
        /\ StartedAt(c) /\ refs[c] = Holders(c) + Owned(jobs, c)
        /\ refs[c] \in Nat /\ Holders(c) \in Nat /\ Owned(jobs, c) \in Nat
    BY Facts, HoldersType DEF BalancedAt
  <1>2. accepting[c] # "no" /\ accepting' = accepting
    BY JobRuns DEF RealFiniAgain
  <1>3. Keeps(jobs, jobs', c) /\ Owned(jobs', c) = Owned(jobs, c)
    <2>1. /\ Keeps(jobs, Tail(jobs), c)
          /\ Owned(Tail(jobs), c) = Owned(jobs, c) - One("sfini" \in {"beconnected", "close"})
      BY JobRuns DEF RealFiniAgain
    <2>2. One("sfini" \in {"beconnected", "close"}) = 0
      BY DEF One
    <2> QED BY <1>1, <2>1, <2>2 DEF RealFiniAgain
  <1>4. MainKeeps(main, main')
    BY <1>1, MainKeepsItself DEF RealFiniAgain, socket, server, timer, history
  <1>5. refs'[c] = Holders(c)' + Owned(jobs', c)
    <2>1. Holders(c)' = Holders(c)
      BY <1>1 DEF Holders, One, StartedAt, IInv, TypeOK, RealFiniAgain, socket, server,
         timer, history
    <2>2. refs'[c] = refs[c]
      BY <1>1 DEF RealFiniAgain, socket, server, timer, history
    <2> QED BY <1>1, <1>3, <2>1, <2>2
  <1>6. refs' \in [Conns -> Nat]
    <2>1. Owned(jobs', c) \in Nat /\ Holders(c)' \in Nat
      BY <1>3, OwnedType, OneType DEF Keeps, Holders
    <2>2. refs'[c] \in Nat
      BY <1>5, <2>1
    <2> QED BY <1>1, <2>2 DEF RealFiniAgain, socket, server, timer, history
  <1>7. TypeOK'
    BY <1>3, <1>4, <1>6 DEF Keeps, MainKeeps, JobSet, MainSet, IInv, TypeOK,
       RealFiniAgain, socket, server, timer, history
  <1>8. Frame(c)
    BY DEF Frame, IInv, TypeOK, RealFiniAgain, socket, server, timer, history
  <1>9. /\ binit'[c] <=> c \in acb'
        /\ \/ filed'[c] = filed[c]
           \/ accepting[c] # "tell" /\ ~Has(main', Job("accept", c))
        /\ \/ tstat[c] = "null" => tstat'[c] = "null"
           \/ ~Has(jobs', Job("beconnected", c))
        /\ recv'[c] = "body" => \/ recv[c] = "body" /\ sent'[c] = sent[c]
                               \/ sent'[c] < Messages[c]
    BY <1>1, <1>2 DEF StartedAt, IInv, TypeOK, RealFiniAgain, socket, server, timer, history
  <1> QED BY <1>2, <1>3, <1>4, <1>5, <1>7, <1>8, <1>9, Kept

LEMMA TimerRealFiniStep ==
    ASSUME IInv, NEW c \in Conns, TimerRealFini(c)
    PROVE  IInv'
  <1>1. /\ jobs \in Seq(JobSet) /\ main \in Seq(MainSet) /\ refs \in [Conns -> Nat]
        /\ StartedAt(c) /\ refs[c] = Holders(c) + Owned(jobs, c)
        /\ refs[c] \in Nat /\ Holders(c) \in Nat /\ Owned(jobs, c) \in Nat
    BY Facts, HoldersType DEF BalancedAt
  <1>2. accepting[c] # "no" /\ accepting' = accepting
    BY JobRuns DEF TimerRealFini
  <1>3. Keeps(jobs, jobs', c) /\ Owned(jobs', c) = Owned(jobs, c)
    <2>1. /\ Keeps(jobs, Tail(jobs), c)
          /\ Owned(Tail(jobs), c) = Owned(jobs, c) - One("tfini" \in {"beconnected", "close"})
      BY JobRuns DEF TimerRealFini
    <2>2. One("tfini" \in {"beconnected", "close"}) = 0
      BY DEF One
    <2> QED BY <1>1, <2>1, <2>2 DEF TimerRealFini
  <1>4. MainKeeps(main, main')
    BY <1>1, MainKeepsItself DEF TimerRealFini, socket, server, timer, history
  <1>5. refs'[c] = Holders(c)' + Owned(jobs', c)
    <2>1. Holders(c)' = Holders(c)
      BY <1>1 DEF Holders, One, StartedAt, IInv, TypeOK, TimerRealFini, socket, server,
         timer, history
    <2>2. refs'[c] = refs[c]
      BY <1>1 DEF TimerRealFini, socket, server, timer, history
    <2> QED BY <1>1, <1>3, <2>1, <2>2
  <1>6. refs' \in [Conns -> Nat]
    <2>1. Owned(jobs', c) \in Nat /\ Holders(c)' \in Nat
      BY <1>3, OwnedType, OneType DEF Keeps, Holders
    <2>2. refs'[c] \in Nat
      BY <1>5, <2>1
    <2> QED BY <1>1, <2>2 DEF TimerRealFini, socket, server, timer, history
  <1>7. TypeOK'
    BY <1>3, <1>4, <1>6 DEF Keeps, MainKeeps, JobSet, MainSet, IInv, TypeOK,
       TimerRealFini, socket, server, timer, history
  <1>8. Frame(c)
    BY DEF Frame, IInv, TypeOK, TimerRealFini, socket, server, timer, history
  <1>9. /\ binit'[c] <=> c \in acb'
        /\ \/ filed'[c] = filed[c]
           \/ accepting[c] # "tell" /\ ~Has(main', Job("accept", c))
        /\ \/ tstat[c] = "null" => tstat'[c] = "null"
           \/ ~Has(jobs', Job("beconnected", c))
        /\ recv'[c] = "body" => \/ recv[c] = "body" /\ sent'[c] = sent[c]
                               \/ sent'[c] < Messages[c]
    BY <1>1, <1>2 DEF StartedAt, IInv, TypeOK, TimerRealFini, socket, server, timer, history
  <1> QED BY <1>2, <1>3, <1>4, <1>5, <1>7, <1>8, <1>9, Kept

LEMMA AcceptAcceptStep ==
    ASSUME IInv, NEW c \in Conns, AcceptAccept(c)
    PROVE  IInv'
  <1>1. /\ jobs \in Seq(JobSet) /\ main \in Seq(MainSet) /\ refs \in [Conns -> Nat]
        /\ StartedAt(c) /\ refs[c] = Holders(c) + Owned(jobs, c)
        /\ refs[c] \in Nat /\ Holders(c) \in Nat /\ Owned(jobs, c) \in Nat
    BY Facts, HoldersType DEF BalancedAt
  <1>2. accepting[c] # "no" /\ accepting' = accepting
    BY JobRuns DEF AcceptAccept
  <1>3. Keeps(jobs, jobs', c) /\ Owned(jobs', c) = Owned(jobs, c)
    <2>1. /\ Keeps(jobs, Tail(jobs), c)
          /\ Owned(Tail(jobs), c) = Owned(jobs, c) - One("accept" \in {"beconnected", "close"})
      BY JobRuns DEF AcceptAccept
    <2>2. One("accept" \in {"beconnected", "close"}) = 0
      BY DEF One
    <2> QED BY <1>1, <2>1, <2>2 DEF AcceptAccept
  <1>4. MainKeeps(main, main')
    BY <1>1, MainKeepsItself DEF AcceptAccept, socket, server, timer, history
  <1>5. refs'[c] = Holders(c)' + Owned(jobs', c)
    <2>1. Holders(c)' = Holders(c)
      BY <1>1 DEF Holders, One, StartedAt, IInv, TypeOK, AcceptAccept, socket, server,
         timer, history
    <2>2. refs'[c] = refs[c]
      BY <1>1 DEF AcceptAccept, socket, server, timer, history
    <2> QED BY <1>1, <1>3, <2>1, <2>2
  <1>6. refs' \in [Conns -> Nat]
    <2>1. Owned(jobs', c) \in Nat /\ Holders(c)' \in Nat
      BY <1>3, OwnedType, OneType DEF Keeps, Holders
    <2>2. refs'[c] \in Nat
      BY <1>5, <2>1
    <2> QED BY <1>1, <2>2 DEF AcceptAccept, socket, server, timer, history
  <1>7. TypeOK'
    BY <1>3, <1>4, <1>6 DEF Keeps, MainKeeps, JobSet, MainSet, IInv, TypeOK,
       AcceptAccept, socket, server, timer, history
  <1>8. Frame(c)
    BY DEF Frame, IInv, TypeOK, AcceptAccept, socket, server, timer, history
  <1>9. /\ binit'[c] <=> c \in acb'
        /\ \/ filed'[c] = filed[c]
           \/ accepting[c] # "tell" /\ ~Has(main', Job("accept", c))
        /\ \/ tstat[c] = "null" => tstat'[c] = "null"
           \/ ~Has(jobs', Job("beconnected", c))
        /\ recv'[c] = "body" => \/ recv[c] = "body" /\ sent'[c] = sent[c]
                               \/ sent'[c] < Messages[c]
    BY <1>1, <1>2 DEF StartedAt, IInv, TypeOK, AcceptAccept, socket, server, timer, history
  <1> QED BY <1>2, <1>3, <1>4, <1>5, <1>7, <1>8, <1>9, Kept

LEMMA MainHearsStep ==
    ASSUME IInv, NEW c \in Conns, MainHears(c)
    PROVE  IInv'
  <1>1. MainKeeps(main, main')
    <2>1. main' = Tail(main) /\ \E op : MainRuns(op, c)
      BY DEF MainHears, MainPopped
    <2> QED BY <2>1, MainTakes
  <1>2. /\ told' = [told EXCEPT ![c] = "up"] \/ told' = [told EXCEPT ![c] = "msg"]
        /\ UNCHANGED <<accepting, jobs, socket, server, timer, refs, filed, sent, history>>
    BY DEF MainHears, Tells
  <1>3. told' \in [Conns -> {"none", "accept", "up", "msg", "down"}]
    BY <1>2 DEF IInv, TypeOK
  <1>4. TypeOK'
    BY <1>1, <1>2, <1>3 DEF MainKeeps, MainSet, IInv, TypeOK, socket, server, timer, history
  <1> QED BY <1>1, <1>2, <1>4, Quiet DEF socket, timer

LEMMA MainEndsFiled ==
    ASSUME IInv, NEW c \in Conns, MainEnds(c), filed[c] = "id"
    PROVE  IInv'
  <1>1. /\ jobs \in Seq(JobSet) /\ main \in Seq(MainSet) /\ refs \in [Conns -> Nat]
        /\ StartedAt(c) /\ refs[c] = Holders(c) + Owned(jobs, c)
        /\ refs[c] \in Nat /\ Holders(c) \in Nat /\ Owned(jobs, c) \in Nat
    BY Facts, HoldersType DEF BalancedAt
  <1>2. accepting[c] # "no" /\ accepting' = accepting
    BY <1>1 DEF StartedAt, MainEnds
  <1>3. Keeps(jobs, jobs', c) /\ Owned(jobs', c) = Owned(jobs, c) + One(c \in busing)
    BY <1>1, CloseKeeps DEF MainEnds
  <1>4. MainKeeps(main, main')
    BY MainTakes DEF MainEnds, MainPopped
  <1>5. refs'[c] = Holders(c)' + Owned(jobs', c)
    <2>1. Holders(c)' = Holders(c) - 1
      BY <1>1 DEF Holders, One, IInv, TypeOK, MainEnds, socket, timer
    <2>2. refs'[c] = refs[c] - 1 + One(c \in busing)
      BY <1>1 DEF MainEnds
    <2>3. One(c \in busing) \in {0, 1}
      BY OneType
    <2> QED BY <1>1, <1>3, <2>1, <2>2, <2>3
  <1>6. refs' \in [Conns -> Nat]
    <2>1. Owned(jobs', c) \in Nat /\ Holders(c)' \in Nat
      BY <1>3, OwnedType, OneType DEF Keeps, Holders
    <2>2. refs'[c] \in Nat
      BY <1>5, <2>1
    <2> QED BY <1>1, <2>2 DEF MainEnds, socket, server, timer, history
  <1>7. TypeOK'
    <2>1. TypeOK
      BY DEF IInv
    <2>2. jobs' \in Seq(JobSet) /\ main' \in Seq(MainSet)
      BY <1>3, <1>4 DEF Keeps, MainKeeps
    <2>3. /\ told' = [told EXCEPT ![c] = "down"]
          /\ filed' = [filed EXCEPT ![c] = "dropped"]
          /\ UNCHANGED <<accepting, socket, server, timer, sent, history>>
      BY DEF MainEnds, Tells
    <2>4. told' \in [Conns -> {"none", "accept", "up", "msg", "down"}]
      BY ONLY <2>1, <2>3 DEF TypeOK
    <2>5. filed' \in [Conns -> {"none", "creator", "id", "zero", "lost", "dropped"}]
      BY ONLY <2>1, <2>3 DEF TypeOK
    <2> QED
      BY ONLY <2>1, <2>2, <2>3, <2>4, <2>5, <1>6
      DEF TypeOK, JobSet, MainSet, socket, server, timer, history
  <1>8. Frame(c)
    BY DEF Frame, IInv, TypeOK, MainEnds, Tells, socket, server, timer, history
  <1>9. /\ binit'[c] <=> c \in acb'
        /\ \/ filed'[c] = filed[c]
           \/ accepting[c] # "tell" /\ ~Has(main', Job("accept", c))
        /\ \/ tstat[c] = "null" => tstat'[c] = "null"
           \/ ~Has(jobs', Job("beconnected", c))
        /\ recv'[c] = "body" => \/ recv[c] = "body" /\ sent'[c] = sent[c]
                               \/ sent'[c] < Messages[c]
    <2>1. MainKeeps(main, main')
      BY <1>4
    <2> QED BY <1>1, <2>1 DEF StartedAt, MainKeeps, MainEnds, socket, timer
  <1> QED BY <1>2, <1>3, <1>4, <1>5, <1>7, <1>8, <1>9, Kept

LEMMA MainEndsStep ==
    ASSUME IInv, NEW c \in Conns, MainEnds(c)
    PROVE  IInv'
  <1>1. CASE filed[c] = "id"
    BY <1>1, MainEndsFiled
  <1>2. CASE filed[c] # "id"
    <2>1. jobs \in Seq(JobSet) /\ main \in Seq(MainSet)
      BY Facts
    <2>2. MainKeeps(main, main')
      BY MainTakes DEF MainEnds, MainPopped
    <2>3. /\ UNCHANGED <<accepting, jobs, filed, acb, binit, tstat, refs, sstat, recv, sent>>
          /\ UNCHANGED <<server, timer>>
      BY <1>2 DEF MainEnds, socket, timer
    <2>4. TypeOK'
      BY <2>2, <2>3 DEF MainKeeps, MainSet, IInv, TypeOK, MainEnds, Tells, server, timer,
         history
    <2> QED BY <2>2, <2>3, <2>4, Quiet
  <1> QED BY <1>1, <1>2

LEMMA UserCloseFiled ==
    ASSUME IInv, NEW c \in Conns, UserClose(c), filed[c] = "id"
    PROVE  IInv'
  <1>1. /\ jobs \in Seq(JobSet) /\ main \in Seq(MainSet) /\ refs \in [Conns -> Nat]
        /\ StartedAt(c) /\ refs[c] = Holders(c) + Owned(jobs, c)
        /\ refs[c] \in Nat /\ Holders(c) \in Nat /\ Owned(jobs, c) \in Nat
    BY Facts, HoldersType DEF BalancedAt
  <1>2. accepting[c] # "no" /\ accepting' = accepting
    BY <1>1 DEF StartedAt, UserClose
  <1>3. Keeps(jobs, jobs', c) /\ Owned(jobs', c) = Owned(jobs, c) + One(c \in busing)
    BY <1>1, CloseKeeps DEF UserClose
  <1>4. MainKeeps(main, main')
    BY <1>1, MainKeepsItself DEF UserClose, socket, server, timer, history
  <1>5. refs'[c] = Holders(c)' + Owned(jobs', c)
    <2>1. Holders(c)' = Holders(c)
      BY <1>1 DEF Holders, One, IInv, TypeOK, UserClose, socket, timer
    <2>2. refs'[c] = refs[c] + One(c \in busing)
      BY <1>1 DEF UserClose
    <2>3. One(c \in busing) \in {0, 1}
      BY OneType
    <2> QED BY <1>1, <1>3, <2>1, <2>2, <2>3
  <1>6. refs' \in [Conns -> Nat]
    <2>1. Owned(jobs', c) \in Nat /\ Holders(c)' \in Nat
      BY <1>3, OwnedType, OneType DEF Keeps, Holders
    <2>2. refs'[c] \in Nat
      BY <1>5, <2>1
    <2> QED BY <1>1, <2>2 DEF UserClose, socket, server, timer, history
  <1>7. TypeOK'
    BY <1>3, <1>4, <1>6 DEF Keeps, MainKeeps, JobSet, MainSet, IInv, TypeOK,
       UserClose, socket, server, timer, history
  <1>8. Frame(c)
    BY DEF Frame, IInv, TypeOK, UserClose, socket, server, timer, history
  <1>9. /\ binit'[c] <=> c \in acb'
        /\ \/ filed'[c] = filed[c]
           \/ accepting[c] # "tell" /\ ~Has(main', Job("accept", c))
        /\ \/ tstat[c] = "null" => tstat'[c] = "null"
           \/ ~Has(jobs', Job("beconnected", c))
        /\ recv'[c] = "body" => \/ recv[c] = "body" /\ sent'[c] = sent[c]
                               \/ sent'[c] < Messages[c]
    BY <1>1 DEF StartedAt, UserClose, socket, timer
  <1> QED BY <1>2, <1>3, <1>4, <1>5, <1>7, <1>8, <1>9, Kept

LEMMA UserCloseStep ==
    ASSUME IInv, NEW c \in Conns, UserClose(c)
    PROVE  IInv'
  <1>1. CASE filed[c] = "id"
    BY <1>1, UserCloseFiled
  <1>2. CASE filed[c] # "id"
    <2>1. jobs \in Seq(JobSet) /\ main \in Seq(MainSet)
      BY Facts
    <2>2. MainKeeps(main, main')
      BY <2>1, MainKeepsItself DEF UserClose
    <2>3. /\ UNCHANGED <<accepting, jobs, filed, acb, binit, tstat, refs, sstat, recv, sent>>
          /\ UNCHANGED <<server, timer>>
      BY <1>2 DEF UserClose, socket, timer
    <2>4. TypeOK'
      BY <2>2, <2>3 DEF MainKeeps, MainSet, IInv, TypeOK, UserClose, server, timer, history
    <2> QED BY <2>2, <2>3, <2>4, Quiet
  <1> QED BY <1>1, <1>2

LEMMA BeConnectedStep ==
    ASSUME IInv, NEW c \in Conns, BeConnected(c)
    PROVE  IInv'
  <1>1. /\ jobs \in Seq(JobSet) /\ main \in Seq(MainSet) /\ refs \in [Conns -> Nat]
        /\ StartedAt(c) /\ refs[c] = Holders(c) + Owned(jobs, c)
        /\ refs[c] \in Nat /\ Holders(c) \in Nat /\ Owned(jobs, c) \in Nat
    BY Facts, HoldersType DEF BalancedAt
  <1>2. accepting[c] # "no" /\ accepting' = accepting
    BY JobRuns DEF BeConnected
  <1>3. Keeps(jobs, jobs', c) /\ Owned(jobs', c) = Owned(jobs, c) - 1
    <2>1. /\ Tail(jobs) \in Seq(JobSet) /\ Keeps(jobs, Tail(jobs), c)
          /\ Owned(Tail(jobs), c) = Owned(jobs, c) - One("beconnected" \in {"beconnected", "close"})
      BY JobRuns DEF BeConnected
    <2>2. /\ Keeps(Tail(jobs), jobs', c)
          /\ Owned(jobs', c) = Owned(Tail(jobs), c) + One("twait" = "close")
      BY <2>1, AddedKeeps DEF BeConnected
    <2>3. One("beconnected" \in {"beconnected", "close"}) = 1 /\ One("twait" = "close") = 0
      BY DEF One
    <2>4. Keeps(jobs, jobs', c)
      BY <2>1, <2>2, KeepsFurther
    <2> QED BY <1>1, <2>1, <2>2, <2>3, <2>4
  <1>4. MainKeeps(main, main')
    BY <1>1, MainKeepsItself DEF BeConnected, socket, server, timer, history
  <1>5. refs'[c] = Holders(c)' + Owned(jobs', c)
    <2>0. tstat[c] = "null"
      BY JobRuns DEF BeConnected
    <2>1. Holders(c)' = Holders(c) + 1
      BY <1>1, <2>0 DEF Holders, One, StartedAt, IInv, TypeOK, BeConnected, socket, server,
         timer, history
    <2>2. refs'[c] = refs[c]
      BY <1>1 DEF BeConnected, socket, server, timer, history
    <2> QED BY <1>1, <1>3, <2>1, <2>2
  <1>6. refs' \in [Conns -> Nat]
    <2>1. Owned(jobs', c) \in Nat /\ Holders(c)' \in Nat
      BY <1>3, OwnedType, OneType DEF Keeps, Holders
    <2>2. refs'[c] \in Nat
      BY <1>5, <2>1
    <2> QED BY <1>1, <2>2 DEF BeConnected, socket, server, timer, history
  <1>7. TypeOK'
    BY <1>3, <1>4, <1>6 DEF Keeps, MainKeeps, JobSet, MainSet, IInv, TypeOK,
       BeConnected, socket, server, timer, history
  <1>8. Frame(c)
    BY DEF Frame, IInv, TypeOK, BeConnected, socket, server, timer, history
  <1>9. /\ binit'[c] <=> c \in acb'
        /\ \/ filed'[c] = filed[c]
           \/ accepting[c] # "tell" /\ ~Has(main', Job("accept", c))
        /\ \/ tstat[c] = "null" => tstat'[c] = "null"
           \/ ~Has(jobs', Job("beconnected", c))
        /\ recv'[c] = "body" => \/ recv[c] = "body" /\ sent'[c] = sent[c]
                               \/ sent'[c] < Messages[c]
    <2>1. ~Has(jobs', Job("beconnected", c))
      <3>1. /\ Tail(jobs) \in Seq(JobSet)
            /\ ~Has(Tail(jobs), Job("beconnected", c))
        BY JobRuns DEF BeConnected
      <3>2. Keeps(Tail(jobs), jobs', c)
        BY <3>1, AddedKeeps DEF BeConnected
      <3> QED BY <3>1, <3>2 DEF Keeps
    <2> QED BY <1>1, <2>1 DEF StartedAt, BeConnected, socket
  <1> QED BY <1>2, <1>3, <1>4, <1>5, <1>7, <1>8, <1>9, Kept

LEMMA PostinCloseStep ==
    ASSUME IInv, NEW c \in Conns, PostinClose(c)
    PROVE  IInv'
  <1>1. /\ jobs \in Seq(JobSet) /\ main \in Seq(MainSet) /\ refs \in [Conns -> Nat]
        /\ StartedAt(c) /\ refs[c] = Holders(c) + Owned(jobs, c)
        /\ refs[c] \in Nat /\ Holders(c) \in Nat /\ Owned(jobs, c) \in Nat
    BY Facts, HoldersType DEF BalancedAt
  <1>2. accepting[c] # "no" /\ accepting' = accepting
    BY JobRuns DEF PostinClose
  <1>3. Keeps(jobs, jobs', c) /\ Owned(jobs', c) = Owned(jobs, c) - 1
    <2>1. /\ Tail(jobs) \in Seq(JobSet) /\ Keeps(jobs, Tail(jobs), c)
          /\ Owned(Tail(jobs), c) = Owned(jobs, c) - One("close" \in {"beconnected", "close"})
      BY JobRuns DEF PostinClose
    <2> DEFINE q == Tail(jobs) \o SocketFini(c)
    <2>2. Keeps(Tail(jobs), q, c) /\ Owned(q, c) = Owned(Tail(jobs), c)
      BY <2>1, SocketFiniKeeps
    <2>3. jobs' = q \o TimerFini(c)
      BY DEF PostinClose
    <2> HIDE DEF q
    <2>4. Keeps(q, jobs', c) /\ Owned(jobs', c) = Owned(q, c)
      BY <2>2, <2>3, TimerFiniKeeps DEF Keeps
    <2>5. Keeps(jobs, q, c)
      BY <2>1, <2>2, KeepsFurther
    <2>6. Keeps(jobs, jobs', c)
      BY <2>4, <2>5, KeepsFurther
    <2>7. One("close" \in {"beconnected", "close"}) = 1
      BY DEF One
    <2> QED BY <1>1, <2>1, <2>2, <2>4, <2>6, <2>7
  <1>4. MainKeeps(main, main')
    BY <1>1, MainKeepsItself DEF PostinClose, socket, server, timer, history
  <1>5. refs'[c] = Holders(c)' + Owned(jobs', c)
    <2>1. Holders(c)' = Holders(c)
      BY <1>1 DEF Holders, One, StartedAt, IInv, TypeOK, PostinClose, socket, server,
         timer, history
    <2>2. refs'[c] = refs[c] - 1
      BY <1>1 DEF PostinClose, socket, server, timer, history
    <2> QED BY <1>1, <1>3, <2>1, <2>2
  <1>6. refs' \in [Conns -> Nat]
    <2>1. Owned(jobs', c) \in Nat /\ Holders(c)' \in Nat
      BY <1>3, OwnedType, OneType DEF Keeps, Holders
    <2>2. refs'[c] \in Nat
      BY <1>5, <2>1
    <2> QED BY <1>1, <2>2 DEF PostinClose, socket, server, timer, history
  <1>7. TypeOK'
    BY <1>3, <1>4, <1>6 DEF Keeps, MainKeeps, JobSet, MainSet, IInv, TypeOK,
       PostinClose, socket, server, timer, history
  <1>8. Frame(c)
    BY DEF Frame, IInv, TypeOK, PostinClose, socket, server, timer, history
  <1>9. /\ binit'[c] <=> c \in acb'
        /\ \/ filed'[c] = filed[c]
           \/ accepting[c] # "tell" /\ ~Has(main', Job("accept", c))
        /\ \/ tstat[c] = "null" => tstat'[c] = "null"
           \/ ~Has(jobs', Job("beconnected", c))
        /\ recv'[c] = "body" => \/ recv[c] = "body" /\ sent'[c] = sent[c]
                               \/ sent'[c] < Messages[c]
    BY <1>1, <1>2 DEF StartedAt, IInv, TypeOK, PostinClose, socket, server, timer, history
  <1> QED BY <1>2, <1>3, <1>4, <1>5, <1>7, <1>8, <1>9, Kept

LEMMA TimerEndsStep ==
    ASSUME IInv, NEW c \in Conns, TimerEnds(c)
    PROVE  IInv'
  <1>1. /\ jobs \in Seq(JobSet) /\ main \in Seq(MainSet) /\ refs \in [Conns -> Nat]
        /\ StartedAt(c) /\ refs[c] = Holders(c) + Owned(jobs, c)
        /\ refs[c] \in Nat /\ Holders(c) \in Nat /\ Owned(jobs, c) \in Nat
    BY Facts, HoldersType DEF BalancedAt
  <1>2. accepting[c] # "no" /\ accepting' = accepting
    BY <1>1 DEF StartedAt, IInv, TypeOK, TimerEnds, socket, server, timer, history
  <1>3. Keeps(jobs, jobs', c) /\ Owned(jobs', c) = Owned(jobs, c)
    BY <1>1, KeepsItself DEF TimerEnds, socket, server, timer, history
  <1>4. MainKeeps(main, main')
    BY <1>1, MainKeepsItself DEF TimerEnds, socket, server, timer, history
  <1>5. refs'[c] = Holders(c)' + Owned(jobs', c)
    <2>1. Holders(c)' = Holders(c) - 1
      BY <1>1 DEF Holders, One, StartedAt, IInv, TypeOK, TimerEnds, socket, server, timer,
         history
    <2>2. refs'[c] = refs[c] - 1
      BY <1>1 DEF TimerEnds, socket, server, timer, history
    <2> QED BY <1>1, <1>3, <2>1, <2>2
  <1>6. refs' \in [Conns -> Nat]
    <2>1. Owned(jobs', c) \in Nat /\ Holders(c)' \in Nat
      BY <1>3, OwnedType, OneType DEF Keeps, Holders
    <2>2. refs'[c] \in Nat
      BY <1>5, <2>1
    <2> QED BY <1>1, <2>2 DEF TimerEnds, socket, server, timer, history
  <1>7. TypeOK'
    BY <1>3, <1>4, <1>6 DEF Keeps, MainKeeps, JobSet, MainSet, IInv, TypeOK,
       TimerEnds, socket, server, timer, history
  <1>8. Frame(c)
    BY DEF Frame, IInv, TypeOK, TimerEnds, socket, server, timer, history
  <1>9. /\ binit'[c] <=> c \in acb'
        /\ \/ filed'[c] = filed[c]
           \/ accepting[c] # "tell" /\ ~Has(main', Job("accept", c))
        /\ \/ tstat[c] = "null" => tstat'[c] = "null"
           \/ ~Has(jobs', Job("beconnected", c))
        /\ recv'[c] = "body" => \/ recv[c] = "body" /\ sent'[c] = sent[c]
                               \/ sent'[c] < Messages[c]
    BY <1>1, <1>2 DEF StartedAt, IInv, TypeOK, TimerEnds, socket, server, timer, history
  <1> QED BY <1>2, <1>3, <1>4, <1>5, <1>7, <1>8, <1>9, Kept

LEMMA RecvHeadStep ==
    ASSUME IInv, NEW c \in Conns, RecvHead(c)
    PROVE  IInv'
  <1>1. /\ jobs \in Seq(JobSet) /\ main \in Seq(MainSet) /\ refs \in [Conns -> Nat]
        /\ StartedAt(c) /\ refs[c] = Holders(c) + Owned(jobs, c)
        /\ refs[c] \in Nat /\ Holders(c) \in Nat /\ Owned(jobs, c) \in Nat
    BY Facts, HoldersType DEF BalancedAt
  <1>2. accepting[c] # "no" /\ accepting' = accepting
    BY <1>1 DEF StartedAt, IInv, TypeOK, RecvHead, socket, server, timer, history
  <1>3. Keeps(jobs, jobs', c) /\ Owned(jobs', c) = Owned(jobs, c)
    BY <1>1, KeepsItself DEF RecvHead, socket, server, timer, history
  <1>4. MainKeeps(main, main')
    BY <1>1, MainKeepsItself DEF RecvHead, socket, server, timer, history
  <1>5. refs'[c] = Holders(c)' + Owned(jobs', c)
    <2>1. Holders(c)' = Holders(c)
      BY <1>1 DEF Holders, One, StartedAt, IInv, TypeOK, RecvHead, socket, server, timer,
         history
    <2>2. refs'[c] = refs[c]
      BY <1>1 DEF RecvHead, socket, server, timer, history
    <2> QED BY <1>1, <1>3, <2>1, <2>2
  <1>6. refs' \in [Conns -> Nat]
    <2>1. Owned(jobs', c) \in Nat /\ Holders(c)' \in Nat
      BY <1>3, OwnedType, OneType DEF Keeps, Holders
    <2>2. refs'[c] \in Nat
      BY <1>5, <2>1
    <2> QED BY <1>1, <2>2 DEF RecvHead, socket, server, timer, history
  <1>7. TypeOK'
    BY <1>3, <1>4, <1>6 DEF Keeps, MainKeeps, JobSet, MainSet, IInv, TypeOK,
       RecvHead, socket, server, timer, history
  <1>8. Frame(c)
    BY DEF Frame, IInv, TypeOK, RecvHead, socket, server, timer, history
  <1>9. /\ binit'[c] <=> c \in acb'
        /\ \/ filed'[c] = filed[c]
           \/ accepting[c] # "tell" /\ ~Has(main', Job("accept", c))
        /\ \/ tstat[c] = "null" => tstat'[c] = "null"
           \/ ~Has(jobs', Job("beconnected", c))
        /\ recv'[c] = "body" => \/ recv[c] = "body" /\ sent'[c] = sent[c]
                               \/ sent'[c] < Messages[c]
    BY <1>1, <1>2 DEF StartedAt, IInv, TypeOK, RecvHead, socket, server, timer, history
  <1> QED BY <1>2, <1>3, <1>4, <1>5, <1>7, <1>8, <1>9, Kept

LEMMA RecvBodyStep ==
    ASSUME IInv, NEW c \in Conns, RecvBody(c)
    PROVE  IInv'
  <1>1. /\ jobs \in Seq(JobSet) /\ main \in Seq(MainSet) /\ refs \in [Conns -> Nat]
        /\ StartedAt(c) /\ refs[c] = Holders(c) + Owned(jobs, c)
        /\ refs[c] \in Nat /\ Holders(c) \in Nat /\ Owned(jobs, c) \in Nat
    BY Facts, HoldersType DEF BalancedAt
  <1>2. accepting[c] # "no" /\ accepting' = accepting
    BY <1>1 DEF StartedAt, IInv, TypeOK, RecvBody, socket, server, timer, history
  <1>3. Keeps(jobs, jobs', c) /\ Owned(jobs', c) = Owned(jobs, c)
    BY <1>1, KeepsItself DEF RecvBody, socket, server, timer, history
  <1>4. MainKeeps(main, main')
    <2>1. main' = Append(main, Job("msg", c))
      BY DEF RecvBody
    <2> QED BY <1>1, <2>1, MainAdded
  <1>5. refs'[c] = Holders(c)' + Owned(jobs', c)
    <2>1. Holders(c)' = Holders(c)
      BY <1>1 DEF Holders, One, StartedAt, IInv, TypeOK, RecvBody, socket, server, timer,
         history
    <2>2. refs'[c] = refs[c]
      BY <1>1 DEF RecvBody, socket, server, timer, history
    <2> QED BY <1>1, <1>3, <2>1, <2>2
  <1>6. refs' \in [Conns -> Nat]
    <2>1. Owned(jobs', c) \in Nat /\ Holders(c)' \in Nat
      BY <1>3, OwnedType, OneType DEF Keeps, Holders
    <2>2. refs'[c] \in Nat
      BY <1>5, <2>1
    <2> QED BY <1>1, <2>2 DEF RecvBody, socket, server, timer, history
  <1>7. TypeOK'
    <2>1. sent' \in [Conns -> Nat] /\ \A d \in Conns : sent'[d] <= Messages[d]
      <3>1. sent \in [Conns -> Nat] /\ \A d \in Conns : sent[d] <= Messages[d]
        BY DEF IInv, TypeOK
      <3>2. sent[c] \in Nat /\ Messages[c] \in Nat /\ sent[c] < Messages[c]
        BY <1>1, <3>1, MessagesAssumption DEF RecvBody, StartedAt
      <3>3. sent[c] + 1 <= Messages[c]
        BY <3>2
      <3> QED BY <3>1, <3>2, <3>3 DEF RecvBody
    <2>2. recv' \in [Conns -> {"none", "head", "body", "empty"}]
      BY DEF RecvBody, IInv, TypeOK
    <2> QED BY <1>3, <1>4, <1>6, <2>1, <2>2 DEF Keeps, MainKeeps, JobSet, MainSet, IInv,
               TypeOK,
         RecvBody, socket, server, timer, history
  <1>8. Frame(c)
    BY DEF Frame, IInv, TypeOK, RecvBody, socket, server, timer, history
  <1>9. /\ binit'[c] <=> c \in acb'
        /\ \/ filed'[c] = filed[c]
           \/ accepting[c] # "tell" /\ ~Has(main', Job("accept", c))
        /\ \/ tstat[c] = "null" => tstat'[c] = "null"
           \/ ~Has(jobs', Job("beconnected", c))
        /\ recv'[c] = "body" => \/ recv[c] = "body" /\ sent'[c] = sent[c]
                               \/ sent'[c] < Messages[c]
    BY <1>1, <1>2 DEF StartedAt, IInv, TypeOK, RecvBody, socket, server, timer, history
  <1> QED BY <1>2, <1>3, <1>4, <1>5, <1>7, <1>8, <1>9, Kept

LEMMA RecvClosesStep ==
    ASSUME IInv, NEW c \in Conns, RecvCloses(c)
    PROVE  IInv'
  <1>1. /\ jobs \in Seq(JobSet) /\ main \in Seq(MainSet) /\ refs \in [Conns -> Nat]
        /\ StartedAt(c) /\ refs[c] = Holders(c) + Owned(jobs, c)
        /\ refs[c] \in Nat /\ Holders(c) \in Nat /\ Owned(jobs, c) \in Nat
    BY Facts, HoldersType DEF BalancedAt
  <1>2. accepting[c] # "no" /\ accepting' = accepting
    BY <1>1 DEF StartedAt, IInv, TypeOK, RecvCloses, socket, server, timer, history
  <1>3. /\ Keeps(jobs, jobs', c) /\ Owned(jobs', c) = Owned(jobs, c)
        /\ MainKeeps(main, main')
    <2>1. /\ Keeps(jobs, jobs \o SocketFini(c), c)
          /\ Owned(jobs \o SocketFini(c), c) = Owned(jobs, c)
      BY <1>1, SocketFiniKeeps
    <2> QED BY <2>1, CloseLinkKeeps DEF RecvCloses
  <1>4. MainKeeps(main, main')
    BY <1>3
  <1>5. refs'[c] = Holders(c)' + Owned(jobs', c)
    <2>1. Holders(c)' = Holders(c)
      BY <1>1 DEF Holders, One, StartedAt, IInv, TypeOK, RecvCloses, socket, server, timer,
         history
    <2>2. refs'[c] = refs[c]
      BY <1>1 DEF RecvCloses, socket, server, timer, history
    <2> QED BY <1>1, <1>3, <2>1, <2>2
  <1>6. refs' \in [Conns -> Nat]
    <2>1. Owned(jobs', c) \in Nat /\ Holders(c)' \in Nat
      BY <1>3, OwnedType, OneType DEF Keeps, Holders
    <2>2. refs'[c] \in Nat
      BY <1>5, <2>1
    <2> QED BY <1>1, <2>2 DEF RecvCloses, socket, server, timer, history
  <1>7. TypeOK'
    <2>1. /\ sstat' \in [Conns -> {"null", "connect", "common"}]
          /\ recv' \in [Conns -> {"none", "head", "body", "empty"}]
          /\ status' \in [Conns -> {"closed", "establishing", "established"}]
          /\ busing' \subseteq Conns /\ known' \subseteq Conns
      BY CloseLinkFrame DEF RecvCloses
    <2> QED BY <1>3, <1>4, <1>6, <2>1 DEF Keeps, MainKeeps, JobSet, MainSet, IInv, TypeOK,
               RecvCloses, timer, history
  <1>8. Frame(c)
    BY CloseLinkFrame DEF Frame, RecvCloses, timer
  <1>9. /\ binit'[c] <=> c \in acb'
        /\ \/ filed'[c] = filed[c]
           \/ accepting[c] # "tell" /\ ~Has(main', Job("accept", c))
        /\ \/ tstat[c] = "null" => tstat'[c] = "null"
           \/ ~Has(jobs', Job("beconnected", c))
        /\ recv'[c] = "body" => \/ recv[c] = "body" /\ sent'[c] = sent[c]
                               \/ sent'[c] < Messages[c]
    BY <1>1, CloseLinkFrame DEF StartedAt, RecvCloses, timer
  <1> QED BY <1>2, <1>3, <1>4, <1>5, <1>7, <1>8, <1>9, Kept

LEMMA ConnectTimeoutStep ==
    ASSUME IInv, NEW c \in Conns, ConnectTimeout(c)
    PROVE  IInv'
  <1>1. /\ jobs \in Seq(JobSet) /\ main \in Seq(MainSet) /\ refs \in [Conns -> Nat]
        /\ StartedAt(c) /\ refs[c] = Holders(c) + Owned(jobs, c)
        /\ refs[c] \in Nat /\ Holders(c) \in Nat /\ Owned(jobs, c) \in Nat
    BY Facts, HoldersType DEF BalancedAt
  <1>2. accepting[c] # "no" /\ accepting' = accepting
    BY <1>1 DEF StartedAt, IInv, TypeOK, ConnectTimeout, socket, server, timer, history
  <1>3. /\ Keeps(jobs, jobs', c) /\ Owned(jobs', c) = Owned(jobs, c)
        /\ MainKeeps(main, main')
    <2>1. /\ Keeps(jobs, jobs \o If(c \in acb, SocketFini(c)), c)
          /\ Owned(jobs \o If(c \in acb, SocketFini(c)), c) = Owned(jobs, c)
      <3>1. CASE c \in acb
        BY <1>1, <3>1, SocketFiniKeeps DEF If
      <3>2. CASE c \notin acb
        BY <1>1, <3>2, KeepsItself, ConcatEmptySeq DEF If
      <3> QED BY <3>1, <3>2
    <2> QED BY <2>1, CloseLinkKeeps DEF ConnectTimeout
  <1>4. MainKeeps(main, main')
    BY <1>3
  <1>5. refs'[c] = Holders(c)' + Owned(jobs', c)
    <2>1. Holders(c)' = Holders(c)
      BY <1>1 DEF Holders, One, StartedAt, IInv, TypeOK, ConnectTimeout, socket, server,
         timer, history
    <2>2. refs'[c] = refs[c]
      BY <1>1 DEF ConnectTimeout, socket, server, timer, history
    <2> QED BY <1>1, <1>3, <2>1, <2>2
  <1>6. refs' \in [Conns -> Nat]
    <2>1. Owned(jobs', c) \in Nat /\ Holders(c)' \in Nat
      BY <1>3, OwnedType, OneType DEF Keeps, Holders
    <2>2. refs'[c] \in Nat
      BY <1>5, <2>1
    <2> QED BY <1>1, <2>2 DEF ConnectTimeout, socket, server, timer, history
  <1>7. TypeOK'
    <2>1. /\ sstat' \in [Conns -> {"null", "connect", "common"}]
          /\ recv' \in [Conns -> {"none", "head", "body", "empty"}]
          /\ status' \in [Conns -> {"closed", "establishing", "established"}]
          /\ busing' \subseteq Conns /\ known' \subseteq Conns
      BY CloseLinkFrame DEF ConnectTimeout
    <2> QED BY <1>3, <1>4, <1>6, <2>1 DEF Keeps, MainKeeps, JobSet, MainSet, IInv, TypeOK,
               ConnectTimeout, timer, history
  <1>8. Frame(c)
    BY CloseLinkFrame DEF Frame, ConnectTimeout, timer
  <1>9. /\ binit'[c] <=> c \in acb'
        /\ \/ filed'[c] = filed[c]
           \/ accepting[c] # "tell" /\ ~Has(main', Job("accept", c))
        /\ \/ tstat[c] = "null" => tstat'[c] = "null"
           \/ ~Has(jobs', Job("beconnected", c))
        /\ recv'[c] = "body" => \/ recv[c] = "body" /\ sent'[c] = sent[c]
                               \/ sent'[c] < Messages[c]
    BY <1>1, CloseLinkFrame DEF StartedAt, ConnectTimeout, timer
  <1> QED BY <1>2, <1>3, <1>4, <1>5, <1>7, <1>8, <1>9, Kept

LEMMA ConnectedStep ==
    ASSUME IInv, NEW c \in Conns, Connected(c)
    PROVE  IInv'
  <1>1. /\ jobs \in Seq(JobSet) /\ main \in Seq(MainSet) /\ refs \in [Conns -> Nat]
        /\ StartedAt(c) /\ refs[c] = Holders(c) + Owned(jobs, c)
        /\ refs[c] \in Nat /\ Holders(c) \in Nat /\ Owned(jobs, c) \in Nat
    BY Facts, HoldersType DEF BalancedAt
  <1>2. accepting[c] # "no" /\ accepting' = accepting
    BY <1>1 DEF StartedAt, IInv, TypeOK, Connected, socket, server, timer, history
  <1>3. Keeps(jobs, jobs', c) /\ Owned(jobs', c) = Owned(jobs, c)
    BY <1>1, KeepsItself DEF Connected, socket, server, timer, history
  <1>4. MainKeeps(main, main')
    <2>1. CASE c \in acb
      <3>1. main' = Append(main, Job("up", c))
        BY <2>1 DEF Connected
      <3> QED BY <1>1, <3>1, MainAdded
    <2>2. CASE c \notin acb
      BY <1>1, <2>2, MainKeepsItself DEF Connected
    <2> QED BY <2>1, <2>2
  <1>5. refs'[c] = Holders(c)' + Owned(jobs', c)
    <2>1. Holders(c)' = Holders(c)
      BY <1>1 DEF Holders, One, StartedAt, IInv, TypeOK, Connected, socket, server, timer,
         history
    <2>2. refs'[c] = refs[c]
      BY <1>1 DEF Connected, socket, server, timer, history
    <2> QED BY <1>1, <1>3, <2>1, <2>2
  <1>6. refs' \in [Conns -> Nat]
    <2>1. Owned(jobs', c) \in Nat /\ Holders(c)' \in Nat
      BY <1>3, OwnedType, OneType DEF Keeps, Holders
    <2>2. refs'[c] \in Nat
      BY <1>5, <2>1
    <2> QED BY <1>1, <2>2 DEF Connected, socket, server, timer, history
  <1>7. TypeOK'
    <2>1. /\ sstat' \in [Conns -> {"null", "connect", "common"}]
          /\ recv' \in [Conns -> {"none", "head", "body", "empty"}]
          /\ status' \in [Conns -> {"closed", "establishing", "established"}]
      <3>1. /\ sstat \in [Conns -> {"null", "connect", "common"}]
            /\ recv \in [Conns -> {"none", "head", "body", "empty"}]
            /\ status \in [Conns -> {"closed", "establishing", "established"}]
        BY DEF IInv, TypeOK
      <3>2. CASE c \in acb
        BY <3>1, <3>2 DEF Connected
      <3>3. CASE c \notin acb
        BY <3>1, <3>3 DEF Connected
      <3> QED BY <3>2, <3>3
    <2>2. UNCHANGED <<accepting, binit, acb, busing, known, timer, refs, filed, sent, told, history>>
      BY DEF Connected
    <2> QED BY <1>3, <1>4, <1>6, <2>1, <2>2 DEF Keeps, MainKeeps, JobSet, MainSet, IInv,
               TypeOK, timer, history
  <1>8. Frame(c)
    <2>1. \A d \in Conns \ {c} : sstat'[d] = sstat[d] /\ recv'[d] = recv[d]
      <3>1. CASE c \in busing
        BY <3>1 DEF Connected, IInv, TypeOK
      <3>2. CASE c \notin busing
        BY <3>2 DEF Connected, IInv, TypeOK
      <3> QED BY <3>1, <3>2
    <2> QED BY <2>1 DEF Frame, Connected, timer
  <1>9. /\ binit'[c] <=> c \in acb'
        /\ \/ filed'[c] = filed[c]
           \/ accepting[c] # "tell" /\ ~Has(main', Job("accept", c))
        /\ \/ tstat[c] = "null" => tstat'[c] = "null"
           \/ ~Has(jobs', Job("beconnected", c))
        /\ recv'[c] = "body" => \/ recv[c] = "body" /\ sent'[c] = sent[c]
                               \/ sent'[c] < Messages[c]
    <2>1. recv'[c] \in {recv[c], "head"}
      BY DEF Connected, IInv, TypeOK
    <2> QED BY <1>1, <2>1 DEF StartedAt, Connected, timer
  <1> QED BY <1>2, <1>3, <1>4, <1>5, <1>7, <1>8, <1>9, Kept

LEMMA RealFiniStep ==
    ASSUME IInv, NEW c \in Conns, RealFini(c)
    PROVE  IInv'
  <1>1. /\ jobs \in Seq(JobSet) /\ main \in Seq(MainSet) /\ refs \in [Conns -> Nat]
        /\ StartedAt(c) /\ refs[c] = Holders(c) + Owned(jobs, c)
        /\ refs[c] \in Nat /\ Holders(c) \in Nat /\ Owned(jobs, c) \in Nat
    BY Facts, HoldersType DEF BalancedAt
  <1>2. accepting[c] # "no" /\ accepting' = accepting
    BY JobRuns DEF RealFini
  <1>3. /\ Keeps(jobs, jobs', c) /\ Owned(jobs', c) = Owned(jobs, c)
        /\ MainKeeps(main, main')
    <2>1. /\ Tail(jobs) \in Seq(JobSet) /\ Keeps(jobs, Tail(jobs), c)
          /\ Owned(Tail(jobs), c) = Owned(jobs, c) - One("sfini" \in {"beconnected", "close"})
      BY JobRuns DEF RealFini
    <2>2. One("sfini" \in {"beconnected", "close"}) = 0
      BY DEF One
    <2>3. CASE sstat[c] = "null"
      <3>1. jobs' = Tail(jobs) /\ main' = main
        BY <2>3 DEF RealFini
      <3> QED BY <1>1, <2>1, <2>2, <3>1, MainKeepsItself
    <2>4. CASE sstat[c] # "null"
      <3>1. CloseLink(c, Tail(jobs))
        BY <2>4 DEF RealFini
      <3> QED BY <1>1, <2>1, <2>2, <3>1, CloseLinkKeeps
    <2> QED BY <2>3, <2>4
  <1>4. MainKeeps(main, main')
    BY <1>3
  <1>5. refs'[c] = Holders(c)' + Owned(jobs', c)
    <2>1. c \in acb /\ c \notin acb' /\ filed' = filed /\ tstat' = tstat
      BY <1>1 DEF RealFini, StartedAt, timer
    <2>2. Holders(c)' = Holders(c) - 1
      BY <2>1 DEF Holders, One
    <2>3. refs'[c] = refs[c] - 1
      BY <1>1 DEF RealFini
    <2> QED BY <1>1, <1>3, <2>2, <2>3
  <1>6. refs' \in [Conns -> Nat]
    <2>1. Owned(jobs', c) \in Nat /\ Holders(c)' \in Nat
      BY <1>3, OwnedType, OneType DEF Keeps, Holders
    <2>2. refs'[c] \in Nat
      BY <1>5, <2>1
    <2> QED BY <1>1, <2>2 DEF RealFini, socket, server, timer, history
  <1>7. TypeOK'
    <2>1. /\ sstat' \in [Conns -> {"null", "connect", "common"}]
          /\ recv' \in [Conns -> {"none", "head", "body", "empty"}]
          /\ status' \in [Conns -> {"closed", "establishing", "established"}]
          /\ busing' \subseteq Conns /\ known' \subseteq Conns
      <3>1. CASE sstat[c] = "null"
        BY <3>1 DEF RealFini, server, IInv, TypeOK
      <3>2. CASE sstat[c] # "null"
        BY <3>2, CloseLinkFrame DEF RealFini
      <3> QED BY <3>1, <3>2
    <2>2. binit' \in [Conns -> BOOLEAN] /\ acb' \subseteq Conns
      BY DEF RealFini, IInv, TypeOK
    <2>3. UNCHANGED <<accepting, timer, filed, sent, told, history>>
      BY DEF RealFini
    <2> QED BY <1>3, <1>4, <1>6, <2>1, <2>2, <2>3 DEF Keeps, MainKeeps, JobSet, MainSet,
               IInv, TypeOK, timer, history
  <1>8. Frame(c)
    <2>1. \A d \in Conns \ {c} : sstat'[d] = sstat[d] /\ recv'[d] = recv[d]
      <3>1. CASE sstat[c] = "null"
        BY <3>1 DEF RealFini
      <3>2. CASE sstat[c] # "null"
        BY <3>2, CloseLinkFrame DEF RealFini
      <3> QED BY <3>1, <3>2
    <2> QED BY <2>1 DEF Frame, RealFini, timer, IInv, TypeOK
  <1>9. /\ binit'[c] <=> c \in acb'
        /\ \/ filed'[c] = filed[c]
           \/ accepting[c] # "tell" /\ ~Has(main', Job("accept", c))
        /\ \/ tstat[c] = "null" => tstat'[c] = "null"
           \/ ~Has(jobs', Job("beconnected", c))
        /\ recv'[c] = "body" => \/ recv[c] = "body" /\ sent'[c] = sent[c]
                               \/ sent'[c] < Messages[c]
    <2>1. recv'[c] \in {recv[c], "none"}
      BY CloseLinkFrame DEF RealFini
    <2> QED BY <1>1, <2>1 DEF StartedAt, RealFini, timer, IInv, TypeOK
  <1> QED BY <1>2, <1>3, <1>4, <1>5, <1>7, <1>8, <1>9, Kept

-----------------------------------------------------------------------------
(* The steps of the listener's thread *)

LEMMA AcceptStep ==
    ASSUME IInv, NEW c \in Conns, Accept(c)
    PROVE  IInv'
  <1>1. /\ jobs \in Seq(JobSet) /\ main \in Seq(MainSet)
        /\ StartedAt(c) /\ refs[c] = Holders(c) + Owned(jobs, c) /\ Owned(jobs, c) \in Nat
    BY Facts DEF BalancedAt
  <1>2. /\ Others(jobs, jobs', c)
        /\ Owned(jobs', c) = Owned(jobs, c) + 1
        /\ Once(jobs', Job("beconnected", c))
    <2>1. ~Has(jobs, Job("beconnected", c))
      BY <1>1 DEF StartedAt, Accept
    <2>2. jobs' = Append(jobs, Job("beconnected", c))
      BY DEF Accept
    <2> QED BY <1>1, <2>1, <2>2, FirstJob
  <1>3. Owned(jobs, c) = 0
    <2>1. \A op : ~Has(jobs, Job(op, c))
      BY <1>1 DEF StartedAt, Accept
    <2>2. Mine(jobs, c) = {}
      BY <2>1 DEF Mine, Own, Has
    <2> QED BY <2>2, FS_EmptySet DEF Owned
  <1>4. TypeOK'
    BY <1>2 DEF Others, JobSet, IInv, TypeOK, Accept, server, timer, history
  <1>5. Frame(c)
    BY DEF Frame, IInv, TypeOK, Accept, timer
  <1>6. MainKeeps(main, main')
    BY <1>1, MainKeepsItself DEF Accept
  <1>7. StartedAt(c)'
    BY <1>1, <1>2 DEF StartedAt, Accept, IInv, TypeOK, timer
  <1>8. BalancedAt(c)'
    <2>1. filed'[c] = "creator" /\ c \in acb' /\ tstat'[c] = "null" /\ refs'[c] = 3
      BY <1>1 DEF StartedAt, Accept, IInv, TypeOK, timer
    <2>2. Holders(c)' = 2
      BY <2>1 DEF Holders, One
    <2> QED BY <1>2, <1>3, <2>1, <2>2 DEF BalancedAt
  <1> QED BY <1>2, <1>4, <1>5, <1>6, <1>7, <1>8, Framed

LEMMA TellMainStep ==
    ASSUME IInv, NEW c \in Conns, TellMain(c)
    PROVE  IInv'
  <1>1. jobs \in Seq(JobSet) /\ main \in Seq(MainSet) /\ StartedAt(c) /\ BalancedAt(c)
    BY Facts
  <1>2. Job("accept", c) \in MainSet
    BY DEF MainSet, Job
  <1>3. main' = Append(main, Job("accept", c))
    BY DEF TellMain
  <1>4. main' \in Seq(MainSet) /\ Once(main', Job("accept", c))
    <2>1. ~Has(main, Job("accept", c))
      BY <1>1 DEF StartedAt, TellMain
    <2> QED BY <1>1, <1>2, <1>3, <2>1, Added DEF StartedAt
  <1>5. TypeOK'
    BY <1>4 DEF MainSet, IInv, TypeOK, TellMain, socket, server, timer, history
  <1>6. Frame(c)
    BY DEF Frame, IInv, TypeOK, TellMain, socket, timer
  <1>7. Others(jobs, jobs', c)
    BY <1>1, KeepsItself, KeepsOthers DEF TellMain
  <1>8. StartedAt(c)'
    BY <1>1, <1>4 DEF StartedAt, TellMain, IInv, TypeOK, socket, timer
  <1>9. BalancedAt(c)'
    BY <1>1 DEF BalancedAt, Holders, TellMain, socket, timer
  <1> QED BY <1>3, <1>5, <1>6, <1>7, <1>8, <1>9, Framed

LEMMA FindsAccepterStep ==
    ASSUME IInv, NEW c \in Conns, FindsAccepter(c)
    PROVE  IInv'
  <1>1. jobs \in Seq(JobSet) /\ main \in Seq(MainSet) /\ StartedAt(c) /\ BalancedAt(c)
    BY Facts
  <1>2. TypeOK'
    BY DEF IInv, TypeOK, FindsAccepter, socket, server, timer, history
  <1>3. Frame(c)
    BY DEF Frame, IInv, TypeOK, FindsAccepter, socket, timer
  <1>4. MainKeeps(main, main')
    BY <1>1, MainKeepsItself DEF FindsAccepter
  <1>5. StartedAt(c)'
    BY <1>1 DEF StartedAt, FindsAccepter, IInv, TypeOK, socket, timer
  <1>6. BalancedAt(c)'
    BY <1>1 DEF BalancedAt, Holders, FindsAccepter, socket, timer
  <1>7. Others(jobs, jobs', c)
    BY <1>1, KeepsItself, KeepsOthers DEF FindsAccepter
  <1> QED BY <1>2, <1>3, <1>4, <1>5, <1>6, <1>7, Framed

LEMMA TurnsAwayStep ==
    ASSUME IInv, NEW c \in Conns, TurnsAway(c)
    PROVE  IInv'
  <1>1. jobs \in Seq(JobSet) /\ main \in Seq(MainSet) /\ StartedAt(c) /\ BalancedAt(c)
    BY Facts
  <1>2. TypeOK'
    BY DEF IInv, TypeOK, TurnsAway, socket, server, timer, history
  <1>3. Frame(c)
    BY DEF Frame, IInv, TypeOK, TurnsAway, socket, timer
  <1>4. MainKeeps(main, main')
    BY <1>1, MainKeepsItself DEF TurnsAway
  <1>5. StartedAt(c)'
    BY <1>1 DEF StartedAt, TurnsAway, IInv, TypeOK, socket, timer
  <1>6. BalancedAt(c)'
    BY <1>1 DEF BalancedAt, Holders, TurnsAway, socket, timer
  <1>7. Others(jobs, jobs', c)
    BY <1>1, KeepsItself, KeepsOthers DEF TurnsAway
  <1> QED BY <1>2, <1>3, <1>4, <1>5, <1>6, <1>7, Framed

LEMMA PassStep ==
    ASSUME IInv, NEW c \in Conns, Pass(c)
    PROVE  IInv'
  <1>1. /\ jobs \in Seq(JobSet) /\ main \in Seq(MainSet) /\ StartedAt(c) /\ BalancedAt(c)
        /\ Owned(jobs, c) \in Nat
    BY Facts
  <1>2. Keeps(jobs, jobs', c) /\ Owned(jobs', c) = Owned(jobs, c)
    <2>1. One("accept" = "close") = 0
      BY DEF One
    <2>2. jobs' = Append(jobs, Job("accept", c))
      BY DEF Pass
    <2> QED BY <1>1, <2>1, <2>2, AddedKeeps
  <1>3. TypeOK'
    BY <1>2 DEF Keeps, JobSet, IInv, TypeOK, Pass, socket, server, timer, history
  <1>4. Frame(c)
    BY DEF Frame, IInv, TypeOK, Pass, socket, timer
  <1>5. MainKeeps(main, main')
    BY <1>1, MainKeepsItself DEF Pass
  <1>6. StartedAt(c)'
    BY <1>1, <1>2 DEF StartedAt, Keeps, Pass, IInv, TypeOK, socket, timer
  <1>7. BalancedAt(c)'
    BY <1>1, <1>2 DEF BalancedAt, Holders, Pass, socket, timer
  <1>8. Others(jobs, jobs', c)
    BY <1>2, KeepsOthers
  <1> QED BY <1>3, <1>4, <1>5, <1>6, <1>7, <1>8, Framed

-----------------------------------------------------------------------------
LEMMA StepIInv == IInv /\ [Next]_vars => IInv'
  <1> SUFFICES ASSUME IInv, [Next]_vars PROVE IInv'
    OBVIOUS
  <1>1. CASE UNCHANGED vars
    <2>1. main \in Seq(MainSet)
      BY DEF IInv, TypeOK, MainSet
    <2>2. TypeOK'
      BY <1>1 DEF vars, socket, server, timer, history, IInv, TypeOK
    <2> QED BY <1>1, <2>1, <2>2, MainKeepsItself, Quiet DEF vars, socket, timer
  <1>2. ASSUME NEW c \in Conns, ListenerStep(c) PROVE IInv'
    BY <1>2, AcceptStep, TellMainStep, FindsAccepterStep, TurnsAwayStep, PassStep
       DEF ListenerStep, ListenerLeaves
  <1>3. ASSUME NEW c \in Conns, MainStep(c) PROVE IInv'
    BY <1>3, MainRefusesStep, MainAdmitsStep, MainHearsStep, MainEndsStep DEF MainStep
  <1>4. ASSUME NEW c \in Conns, ServerJob(c) PROVE IInv'
    BY <1>4, BeConnectedStep, AcceptAcceptStep, PostinCloseStep, RealFiniStep,
       RealFiniAgainStep, TimerWaitStep, TimerRealFiniStep DEF ServerJob
  <1>5. ASSUME NEW c \in Conns, ServerEvent(c) PROVE IInv'
    BY <1>5, TimerEndsStep, ConnectedStep, ConnectTimeoutStep, RecvHeadStep,
       RecvBodyStep, RecvClosesStep DEF ServerEvent
  <1> QED BY <1>1, <1>2, <1>3, <1>4, <1>5, UserCloseStep DEF Next

\* Whatever the order of the three threads and the number of connections and
\* messages, every variable has its type and every server is counted once for
\* its creation reference, its socket, its timer and each of its jobs
\* (socketserver.h, qyfhnet.h): none is destroyed early and none leaks a count.
THEOREM ServersAreBalanced == Spec => []Inv
  <1>1. IInv => Inv
    <2> SUFFICES ASSUME IInv, NEW c \in Conns
                 PROVE  refs[c] = One(filed[c] \notin {"none", "dropped"}) + One(c \in acb)
                          + One(tstat[c] # "null")
                          + Cardinality({i \in DOMAIN jobs :
                                jobs[i] \in {Job("beconnected", c), Job("close", c)}})
      BY DEF IInv, Inv, RefsBalanced
    <2>1. refs[c] = Holders(c) + Owned(jobs, c)
      BY Facts DEF BalancedAt
    <2> QED BY <2>1 DEF Holders, Owned, Mine, Own
  <1> QED BY <1>1, InitIInv, StepIInv, PTL DEF Spec

-----------------------------------------------------------------------------
(* The events of a connection: JInv, on which EventsInOrder and OwnerIsThere *)
(* rest                                                                      *)

PlacesOf(q, c) == {0} \cup {i \in DOMAIN q : q[i].on = c}
EventOf(q, e, i) == IF i = 0 THEN e ELSE q[i].op
Events == {"none", "accept", "up", "msg", "down"}

\* Which event may come before which.
Ahead == {<<"none", "accept">>, <<"none", "up">>, <<"none", "msg">>, <<"none", "down">>,
          <<"accept", "up">>, <<"accept", "msg">>, <<"accept", "down">>,
          <<"up", "msg">>, <<"up", "down">>, <<"msg", "msg">>, <<"msg", "down">>}

\* The story of c, when q waits for main and e is the last event it has handled ...
Ordered(q, e, c) ==
    \A i, k \in PlacesOf(q, c) :
        i < k =>
          /\ <<EventOf(q, e, i), EventOf(q, e, k)>> \in Ahead
          /\ (\A j \in PlacesOf(q, c) : j <= i \/ k <= j)
                 => <<EventOf(q, e, i), EventOf(q, e, k)>> \in Follows

\* ... and how it ends.
Ends(q, e, c, ev) ==
    \E i \in PlacesOf(q, c) : (\A j \in PlacesOf(q, c) : j <= i) /\ EventOf(q, e, i) = ev

\* on_inter_accept_accept has not run yet.
Unopened(c) ==
    accepting[c] \in {"no", "tell", "pass", "post"} \/ Has(jobs, Job("accept", c))

\* In q, a job a is never behind a job b.
InFront(q, a, b) == \A i, k \in DOMAIN q : q[i] = a /\ q[k] = b => i < k

\* Where the connection is when the last event of its story is ev.
CourseAt(c, ev) ==
    /\ accepting[c] \in {"no", "tell"} <=> ev = "none"
    /\ accepting[c] = "no" => status[c] = "closed"
    /\ Unopened(c) => sstat[c] = "null" /\ ev \in {"none", "accept"}
    /\ accepting[c] # "done" => ~Has(jobs, Job("accept", c))
    /\ Once(jobs, Job("accept", c))
    /\ Has(jobs, Job("beconnected", c)) => status[c] = "closed" /\ sstat[c] = "null"
    /\ InFront(jobs, Job("beconnected", c), Job("accept", c))
    /\ recv[c] # "none" => sstat[c] = "common" /\ c \in acb
    /\ sstat[c] = "connect" => ev = "accept"
    /\ ev \in {"up", "msg"} <=> sstat[c] = "common" /\ c \in acb
    /\ status[c] = "established" <=> ev \in {"up", "msg"}

\* Nobody closes a connection that is not open yet, unless main has refused it.
OwnerAt(c) ==
    /\ filed[c] = "none" => accepting[c] = "no"
    /\ filed[c] = "dropped" /\ c \notin refused => told[c] = "down"
    /\ Unopened(c) /\ accepting[c] # "no" =>
           (~binit[c] \/ Has(jobs, Job("close", c)) \/ Has(jobs, Job("sfini", c)) => c \in refused)
    /\ c \in overtaken => c \in refused
    /\ sstat[c] # "null" /\ c \notin overtaken => binit[c]

JAt(c) ==
    /\ Ordered(main, told[c], c)
    /\ \E ev \in Events : Ends(main, told[c], c, ev) /\ CourseAt(c, ev)
    /\ OwnerAt(c)

JInv == \A c \in Conns : JAt(c)

-----------------------------------------------------------------------------
(* Stories *)

\* A story that loses at most its beginning is in order and ends as before.
LEMMA Moved ==
    ASSUME NEW q, NEW r, NEW e, NEW f, NEW c,
           NEW m \in [PlacesOf(r, c) -> PlacesOf(q, c)],
           PlacesOf(q, c) \subseteq Nat, PlacesOf(r, c) \subseteq Nat,
           \A i, k \in PlacesOf(r, c) : i < k => m[i] < m[k],
           \A i \in PlacesOf(r, c) : EventOf(r, f, i) = EventOf(q, e, m[i]),
           \A j \in PlacesOf(q, c) : \/ \E i \in PlacesOf(r, c) : m[i] = j
                                     \/ \A i \in PlacesOf(r, c) : j < m[i]
    PROVE  /\ Ordered(q, e, c) => Ordered(r, f, c)
           /\ \A ev : Ends(q, e, c, ev) => Ends(r, f, c, ev)
  <1> DEFINE P == PlacesOf(q, c)
             R == PlacesOf(r, c)
  <1>1. /\ P \subseteq Nat /\ R \subseteq Nat /\ m \in [R -> P]
        /\ \A i, k \in R : i < k => m[i] < m[k]
        /\ \A j \in P : (\E i \in R : m[i] = j) \/ (\A i \in R : j < m[i])
        /\ 0 \in R
    BY DEF PlacesOf
  <1>2. ASSUME NEW i \in R, NEW k \in R, m[i] <= m[k] PROVE i <= k
    BY <1>1, <1>2
  <1>3. ASSUME Ordered(q, e, c), NEW i \in R, NEW k \in R, i < k
        PROVE  /\ <<EventOf(r, f, i), EventOf(r, f, k)>> \in Ahead
               /\ (\A j \in R : j <= i \/ k <= j)
                      => <<EventOf(r, f, i), EventOf(r, f, k)>> \in Follows
    <2>1. m[i] \in P /\ m[k] \in P /\ m[i] < m[k]
      BY <1>1, <1>3
    <2>2. <<EventOf(q, e, m[i]), EventOf(q, e, m[k])>> \in Ahead
      BY <1>3, <2>1 DEF Ordered
    <2>3. ASSUME \A j \in R : j <= i \/ k <= j, NEW n \in P
          PROVE  n <= m[i] \/ m[k] <= n
      <3>1. CASE \A h \in R : n < m[h]
        BY <1>1, <2>1, <3>1
      <3>2. CASE \E h \in R : m[h] = n
        <4>1. PICK h \in R : m[h] = n
          BY <3>2
        <4>2. h < i \/ h = i \/ k < h \/ h = k
          BY <1>1, <2>3, <1>3
        <4> QED BY <1>1, <1>3, <2>1, <4>1, <4>2
      <3> QED BY <1>1, <3>1, <3>2
    <2>4. ASSUME \A j \in R : j <= i \/ k <= j
          PROVE  <<EventOf(q, e, m[i]), EventOf(q, e, m[k])>> \in Follows
      BY <1>3, <2>1, <2>3, <2>4 DEF Ordered
    <2> QED BY <1>3, <2>2, <2>4
  <1>4. Ordered(q, e, c) => Ordered(r, f, c)
    BY <1>3 DEF Ordered
  <1>5. ASSUME NEW ev, Ends(q, e, c, ev) PROVE Ends(r, f, c, ev)
    <2>1. PICK n \in P : (\A j \in P : j <= n) /\ EventOf(q, e, n) = ev
      BY <1>5 DEF Ends
    <2>2. m[0] \in P /\ m[0] <= n
      BY <1>1, <2>1
    <2>3. PICK i \in R : m[i] = n
      BY <1>1, <2>1, <2>2
    <2>4. \A j \in R : j <= i
      BY <1>1, <1>2, <2>1, <2>3
    <2>5. EventOf(r, f, i) = ev
      BY <2>1, <2>3
    <2> QED BY <2>4, <2>5 DEF Ends
  <1> QED BY <1>4, <1>5

LEMMA PlacesAreNats ==
    ASSUME NEW J, NEW q \in Seq(J), NEW c
    PROVE  PlacesOf(q, c) \subseteq Nat /\ 0 \in PlacesOf(q, c)
  <1>1. DOMAIN q = 1..Len(q) /\ Len(q) \in Nat
    BY LenProperties
  <1> QED BY <1>1 DEF PlacesOf

\* Every event of a story comes before its last one.
LEMMA EndsAhead ==
    ASSUME NEW q \in Seq(MainSet), NEW e, NEW c, NEW ev, Ordered(q, e, c), Ends(q, e, c, ev),
           NEW i \in PlacesOf(q, c)
    PROVE  EventOf(q, e, i) = ev \/ <<EventOf(q, e, i), ev>> \in Ahead
  <1>1. PICK n \in PlacesOf(q, c) : (\A j \in PlacesOf(q, c) : j <= n) /\ EventOf(q, e, n) = ev
    BY DEF Ends
  <1>2. i \in Nat /\ n \in Nat /\ i <= n
    BY <1>1, PlacesAreNats
  <1>3. CASE i < n
    BY <1>1, <1>3 DEF Ordered
  <1>4. CASE i = n
    BY <1>1, <1>4
  <1> QED BY <1>2, <1>3, <1>4

\* A thread tells main of c: the story goes on ...
LEMMA StoryGrows ==
    ASSUME NEW q \in Seq(MainSet), NEW c \in Conns, NEW op \in {"accept", "up", "msg", "down"},
           NEW e, NEW ev, Ordered(q, e, c), Ends(q, e, c, ev), <<ev, op>> \in Follows
    PROVE  Ordered(Append(q, Job(op, c)), e, c) /\ Ends(Append(q, Job(op, c)), e, c, op)
  <1> DEFINE j == Job(op, c)
             r == Append(q, j)
             n == Len(q)
             P == PlacesOf(q, c)
             R == PlacesOf(r, c)
  <1>1. j \in MainSet /\ j.op = op /\ j.on = c
    BY DEF MainSet, Job
  <1> HIDE DEF j
  <1>2. /\ n \in Nat /\ DOMAIN q = 1..n /\ DOMAIN r = 1..(n + 1)
        /\ \A i \in 1..n : r[i] = q[i]
        /\ r[n + 1] = j
    BY <1>1, AppendProperties, LenProperties
  <1> HIDE DEF r, n
  <1>3. /\ P \subseteq 0..n
        /\ R = P \cup {n + 1}
        /\ \A i \in P : EventOf(r, e, i) = EventOf(q, e, i)
        /\ EventOf(r, e, n + 1) = op
    BY <1>1, <1>2 DEF PlacesOf, EventOf
  <1>4. PICK l \in P : (\A i \in P : i <= l) /\ EventOf(q, e, l) = ev
    BY DEF Ends
  <1>5. \A i \in P : i \in Nat /\ i <= n /\ i < n + 1
    BY <1>2, <1>3
  <1> HIDE DEF P, R
  <1>6. Ends(r, e, c, op)
    <2>1. n + 1 \in R /\ \A i \in R : i <= n + 1
      BY <1>2, <1>3, <1>5
    <2> QED BY <1>3, <2>1 DEF Ends, R
  <1>7. ASSUME NEW i \in P
        PROVE  /\ <<EventOf(q, e, i), op>> \in Ahead
               /\ (\A h \in R : h <= i \/ n + 1 <= h) => <<EventOf(q, e, i), op>> \in Follows
    <2>1. i \in Nat /\ l \in Nat /\ i <= l /\ l < n + 1
      BY <1>4, <1>5
    <2>2. CASE i = l
      BY <1>4, <2>2 DEF Follows, Ahead
    <2>3. CASE i < l
      <3>1. <<EventOf(q, e, i), ev>> \in Ahead
        BY <1>4, <2>3 DEF Ordered, P
      <3>2. ~(\A h \in R : h <= i \/ n + 1 <= h)
        BY <1>2, <1>3, <1>4, <2>1, <2>3
      <3>3. <<EventOf(q, e, i), op>> \in Ahead
        BY <3>1 DEF Ahead, Follows
      <3> QED BY <3>2, <3>3
    <2> QED BY <2>1, <2>2, <2>3
  <1>8. ASSUME NEW i \in R, NEW k \in R, i < k
        PROVE  /\ <<EventOf(r, e, i), EventOf(r, e, k)>> \in Ahead
               /\ (\A h \in R : h <= i \/ k <= h)
                      => <<EventOf(r, e, i), EventOf(r, e, k)>> \in Follows
    <2>1. i \in P
      BY <1>2, <1>3, <1>5, <1>8
    <2>2. CASE k = n + 1
      BY <1>3, <1>7, <2>1, <2>2
    <2>3. CASE k \in P
      <3>1. (\A h \in R : h <= i \/ k <= h) => (\A h \in P : h <= i \/ k <= h)
        BY <1>3
      <3>2. /\ <<EventOf(q, e, i), EventOf(q, e, k)>> \in Ahead
            /\ (\A h \in P : h <= i \/ k <= h)
                   => <<EventOf(q, e, i), EventOf(q, e, k)>> \in Follows
        BY <1>8, <2>1, <2>3 DEF Ordered, P
      <3> QED BY <1>3, <2>1, <2>3, <3>1, <3>2
    <2> QED BY <1>3, <2>2, <2>3
  <1>9. Ordered(r, e, c)
    BY <1>8 DEF Ordered, R
  <1> QED BY <1>6, <1>9 DEF r, j

\* ... and the others do not hear of it.
LEMMA StoryGrowsElsewhere ==
    ASSUME NEW q \in Seq(MainSet), NEW c \in Conns, NEW op \in {"accept", "up", "msg", "down"},
           NEW e, NEW d, d # c
    PROVE  /\ Ordered(q, e, d) => Ordered(Append(q, Job(op, c)), e, d)
           /\ \A ev : Ends(q, e, d, ev) => Ends(Append(q, Job(op, c)), e, d, ev)
  <1> DEFINE j == Job(op, c)
             r == Append(q, j)
             m == [i \in PlacesOf(r, d) |-> i]
  <1>1. j \in MainSet /\ j.op = op /\ j.on = c
    BY DEF MainSet, Job
  <1> HIDE DEF j
  <1>2. /\ Len(q) \in Nat /\ DOMAIN q = 1..Len(q) /\ DOMAIN r = 1..(Len(q) + 1)
        /\ \A i \in 1..Len(q) : r[i] = q[i]
        /\ r[Len(q) + 1] = j /\ r \in Seq(MainSet)
    BY <1>1, AppendProperties, LenProperties
  <1> HIDE DEF r
  <1>3. PlacesOf(r, d) = PlacesOf(q, d)
    BY <1>1, <1>2 DEF PlacesOf
  <1>4. \A i \in PlacesOf(r, d) : EventOf(r, e, i) = EventOf(q, e, i)
    BY <1>2, <1>3 DEF PlacesOf, EventOf
  <1>5. PlacesOf(q, d) \subseteq Nat /\ PlacesOf(r, d) \subseteq Nat
    BY <1>2, PlacesAreNats
  <1>6. /\ m \in [PlacesOf(r, d) -> PlacesOf(q, d)]
        /\ \A i \in PlacesOf(r, d) : m[i] = i
    BY <1>3
  <1> HIDE DEF m
  <1>7. /\ Ordered(q, e, d) => Ordered(r, e, d)
        /\ \A ev : Ends(q, e, d, ev) => Ends(r, e, d, ev)
    <2>1. \A i, k \in PlacesOf(r, d) : i < k => m[i] < m[k]
      BY <1>6
    <2>2. \A i \in PlacesOf(r, d) : EventOf(r, e, i) = EventOf(q, e, m[i])
      BY <1>4, <1>6
    <2>3. \A i \in PlacesOf(q, d) : \E k \in PlacesOf(r, d) : m[k] = i
      BY <1>3, <1>6
    <2> QED BY ONLY <1>5, <1>6, <2>1, <2>2, <2>3, Moved
  <1> QED BY <1>7 DEF r, j

\* Main hears of c: the story moves on by one event ...
LEMMA StoryTaken ==
    ASSUME NEW q \in Seq(MainSet), q # <<>>, NEW c, NEW op, Head(q) = Job(op, c),
           NEW e, Ordered(q, e, c)
    PROVE  /\ Ordered(Tail(q), op, c)
           /\ \A ev : Ends(q, e, c, ev) => Ends(Tail(q), op, c, ev)
           /\ <<e, op>> \in Follows
  <1> DEFINE t == Tail(q)
             m == [i \in PlacesOf(t, c) |-> i + 1]
  <1>1. Job(op, c).op = op /\ Job(op, c).on = c
    BY DEF Job
  <1>2. /\ Len(q) \in Nat \ {0} /\ DOMAIN q = 1..Len(q)
        /\ t \in Seq(MainSet) /\ DOMAIN t = 1..(Len(q) - 1)
        /\ \A i \in 1..(Len(q) - 1) : t[i] = q[i + 1]
        /\ q[1] = Job(op, c)
    BY HeadTailProperties, LenProperties, EmptySeq
  <1> HIDE DEF t
  <1>3. 1 \in PlacesOf(q, c) /\ EventOf(q, e, 1) = op /\ 0 \in PlacesOf(q, c) /\ EventOf(q, e, 0) = e
    BY <1>1, <1>2 DEF PlacesOf, EventOf
  <1>4. PlacesOf(q, c) \subseteq Nat /\ PlacesOf(t, c) \subseteq Nat
    BY <1>2, PlacesAreNats
  <1>5. /\ \A i \in PlacesOf(t, c) : i + 1 \in PlacesOf(q, c) /\ EventOf(t, op, i) = EventOf(q, e, i + 1)
        /\ \A i \in PlacesOf(q, c) : i = 0 \/ (i - 1 \in PlacesOf(t, c) /\ (i - 1) + 1 = i)
    BY <1>1, <1>2 DEF PlacesOf, EventOf
  <1>6. /\ m \in [PlacesOf(t, c) -> PlacesOf(q, c)]
        /\ \A i \in PlacesOf(t, c) : m[i] = i + 1
    BY <1>5
  <1> HIDE DEF m
  <1>7. \A i, k \in PlacesOf(t, c) : i < k => m[i] < m[k]
    BY <1>4, <1>6
  <1>8. \A i \in PlacesOf(t, c) : EventOf(t, op, i) = EventOf(q, e, m[i])
    BY <1>5, <1>6
  <1>9. \A j \in PlacesOf(q, c) : \/ \E i \in PlacesOf(t, c) : m[i] = j
                                  \/ \A i \in PlacesOf(t, c) : j < m[i]
    BY <1>4, <1>5, <1>6
  <1>10. /\ Ordered(q, e, c) => Ordered(t, op, c)
         /\ \A ev : Ends(q, e, c, ev) => Ends(t, op, c, ev)
    BY ONLY <1>4, <1>6, <1>7, <1>8, <1>9, Moved
  <1>11. <<e, op>> \in Follows
    <2>1. \A j \in PlacesOf(q, c) : j <= 0 \/ 1 <= j
      BY <1>4
    <2>2. <<EventOf(q, e, 0), EventOf(q, e, 1)>> \in Follows
      BY ONLY <1>3, <2>1, 0 < 1, Ordered(q, e, c) DEF Ordered
    <2> QED BY <1>3, <2>2
  <1> QED BY <1>10, <1>11 DEF t

\* ... and those of the others stand where they were.
LEMMA StoryTakenElsewhere ==
    ASSUME NEW q \in Seq(MainSet), q # <<>>, NEW c, NEW op, Head(q) = Job(op, c),
           NEW e, NEW d, d # c
    PROVE  /\ Ordered(q, e, d) => Ordered(Tail(q), e, d)
           /\ \A ev : Ends(q, e, d, ev) => Ends(Tail(q), e, d, ev)
  <1> DEFINE t == Tail(q)
             m == [i \in PlacesOf(t, d) |-> IF i = 0 THEN 0 ELSE i + 1]
  <1>1. Job(op, c).op = op /\ Job(op, c).on = c
    BY DEF Job
  <1>2. /\ Len(q) \in Nat \ {0} /\ DOMAIN q = 1..Len(q)
        /\ t \in Seq(MainSet) /\ DOMAIN t = 1..(Len(q) - 1)
        /\ \A i \in 1..(Len(q) - 1) : t[i] = q[i + 1]
        /\ q[1] = Job(op, c)
    BY HeadTailProperties, LenProperties, EmptySeq
  <1> HIDE DEF t
  <1>3. PlacesOf(q, d) \subseteq Nat /\ PlacesOf(t, d) \subseteq Nat
    BY <1>2, PlacesAreNats
  <1>4. 0 \in PlacesOf(q, d) /\ 0 \in PlacesOf(t, d) /\ EventOf(t, e, 0) = EventOf(q, e, 0)
    BY DEF PlacesOf, EventOf
  <1>5. /\ \A i \in PlacesOf(t, d) \ {0} :
              i + 1 \in PlacesOf(q, d) /\ EventOf(t, e, i) = EventOf(q, e, i + 1)
        /\ \A i \in PlacesOf(q, d) \ {0} :
              i - 1 \in PlacesOf(t, d) /\ (i - 1) + 1 = i /\ i - 1 # 0
    <2>1. 1 \notin PlacesOf(q, d)
      BY <1>1, <1>2 DEF PlacesOf
    <2> QED BY <1>2, <2>1 DEF PlacesOf, EventOf
  <1>6. /\ m \in [PlacesOf(t, d) -> PlacesOf(q, d)]
        /\ m[0] = 0
        /\ \A i \in PlacesOf(t, d) \ {0} : m[i] = i + 1
    BY <1>4, <1>5
  <1> HIDE DEF m
  <1>7. \A i, k \in PlacesOf(t, d) : i < k => m[i] < m[k]
    BY <1>3, <1>6
  <1>8. \A i \in PlacesOf(t, d) : EventOf(t, e, i) = EventOf(q, e, m[i])
    BY <1>4, <1>5, <1>6
  <1>9. \A j \in PlacesOf(q, d) : \/ \E i \in PlacesOf(t, d) : m[i] = j
                                  \/ \A i \in PlacesOf(t, d) : j < m[i]
    BY <1>3, <1>4, <1>5, <1>6
  <1>10. /\ Ordered(q, e, d) => Ordered(t, e, d)
         /\ \A ev : Ends(q, e, d, ev) => Ends(t, e, d, ev)
    BY ONLY <1>3, <1>6, <1>7, <1>8, <1>9, Moved
  <1> QED BY <1>10 DEF t

-----------------------------------------------------------------------------
(* What a step does to the jobs of its connection c, and to the others *)

InLine(q, r, d) ==
    /\ Once(q, Job("accept", d)) => Once(r, Job("accept", d))
    /\ InFront(q, Job("beconnected", d), Job("accept", d))
           => InFront(r, Job("beconnected", d), Job("accept", d))

Apart(q, r, c) ==
    \A d : d # c => InLine(q, r, d) /\ \A op : Has(r, Job(op, d)) => Has(q, Job(op, d))

\* It adds no jobs of c but those in N.
Grows(q, r, c, N) ==
    /\ r \in Seq(JobSet)
    /\ Apart(q, r, c) /\ InLine(q, r, c)
    /\ \A op : Has(r, Job(op, c)) => Has(q, Job(op, c)) \/ op \in N

LEMMA GrowsNot == \A q \in Seq(JobSet) : \A c : Grows(q, q, c, {})
  BY DEF Grows, Apart, InLine

LEMMA GrowsFurther ==
    ASSUME NEW p, NEW q, NEW r, NEW c, NEW M, NEW N, Grows(p, q, c, M), Grows(q, r, c, N)
    PROVE  Grows(p, r, c, M \cup N)
  BY DEF Grows, Apart, InLine

LEMMA TakenGrows ==
    ASSUME NEW q \in Seq(JobSet), q # <<>>, NEW c
    PROVE  Grows(q, Tail(q), c, {})
  <1>1. /\ Tail(q) \in Seq(JobSet)
        /\ Len(q) \in Nat \ {0} /\ DOMAIN q = 1..Len(q)
        /\ DOMAIN Tail(q) = 1..(Len(q) - 1)
        /\ \A i \in 1..(Len(q) - 1) : Tail(q)[i] = q[i + 1]
    BY HeadTailProperties, LenProperties, EmptySeq
  <1>2. \A i \in DOMAIN Tail(q) : i \in Int /\ i + 1 \in DOMAIN q /\ Tail(q)[i] = q[i + 1]
    BY <1>1
  <1>3. /\ \A x : Has(Tail(q), x) => Has(q, x)
        /\ \A x : Once(q, x) => Once(Tail(q), x)
    BY Taken
  <1>4. ASSUME NEW a, NEW b, InFront(q, a, b) PROVE InFront(Tail(q), a, b)
    <2> SUFFICES ASSUME NEW i \in DOMAIN Tail(q), NEW k \in DOMAIN Tail(q),
                        Tail(q)[i] = a, Tail(q)[k] = b
                 PROVE  i < k
      BY DEF InFront
    <2>1. i + 1 < k + 1
      BY <1>2, <1>4 DEF InFront
    <2> QED BY <1>2, <2>1
  <1> QED BY <1>1, <1>3, <1>4 DEF Grows, Apart, InLine

\* Adding at the end puts nothing in front of what was there.
LEMMA AddedInFront ==
    ASSUME NEW q \in Seq(JobSet), NEW e \in JobSet, NEW a, NEW b, InFront(q, a, b),
           e # a \/ ~Has(q, b), a # b
    PROVE  InFront(Append(q, e), a, b)
  <1> DEFINE r == Append(q, e)
  <1>1. /\ Len(q) \in Nat /\ DOMAIN q = 1..Len(q) /\ DOMAIN r = 1..(Len(q) + 1)
        /\ \A i \in 1..Len(q) : r[i] = q[i]
        /\ r[Len(q) + 1] = e
    BY AppendProperties, LenProperties
  <1> HIDE DEF r
  <1>2. ASSUME NEW i \in DOMAIN r, NEW k \in DOMAIN r, r[i] = a, r[k] = b PROVE i < k
    <2>1. CASE i = Len(q) + 1
      <3>1. k \in DOMAIN q /\ e = a
        BY <1>1, <1>2, <2>1
      <3> QED BY <1>1, <1>2, <3>1 DEF Has
    <2>2. CASE i \in DOMAIN q /\ k \in DOMAIN q
      BY <1>1, <1>2, <2>2 DEF InFront
    <2>3. CASE i \in DOMAIN q /\ k = Len(q) + 1
      BY <1>1, <2>3
    <2> QED BY <1>1, <2>1, <2>2, <2>3
  <1>3. InFront(r, a, b)
    BY <1>2 DEF InFront
  <1> QED BY <1>3 DEF r

LEMMA AddedApart ==
    ASSUME NEW q \in Seq(JobSet), NEW c \in Conns,
           NEW op \in {"beconnected", "accept", "close", "sfini", "twait", "tfini"}
    PROVE  /\ Append(q, Job(op, c)) \in Seq(JobSet)
           /\ Apart(q, Append(q, Job(op, c)), c)
           /\ \A o : Has(Append(q, Job(op, c)), Job(o, c)) => Has(q, Job(o, c)) \/ o = op
  <1> DEFINE e == Job(op, c)
             r == Append(q, e)
  <1>1. e \in JobSet
    BY DEF JobSet, Job
  <1>2. \A o, d : Job(o, d) = e <=> o = op /\ d = c
    BY JobEq
  <1> HIDE DEF e
  <1>3. /\ r \in Seq(JobSet)
        /\ \A x : Has(r, x) => Has(q, x) \/ x = e
        /\ \A x : Once(q, x) /\ (x # e \/ ~Has(q, x)) => Once(r, x)
    BY <1>1, Added
  <1>4. ASSUME NEW d, d # c PROVE InLine(q, r, d)
    <2>1. e # Job("beconnected", d) /\ e # Job("accept", d)
          /\ Job("beconnected", d) # Job("accept", d)
      BY <1>2, <1>4, JobEq
    <2>2. InFront(q, Job("beconnected", d), Job("accept", d))
              => InFront(r, Job("beconnected", d), Job("accept", d))
      BY ONLY <1>1, <2>1, AddedInFront, q \in Seq(JobSet) DEF r
    <2> QED BY <1>3, <2>1, <2>2 DEF InLine
  <1> HIDE DEF r
  <1>5. Apart(q, r, c)
    BY <1>2, <1>3, <1>4 DEF Apart
  <1> QED BY <1>2, <1>3, <1>5 DEF r, e

LEMMA AddedGrows ==
    ASSUME NEW q \in Seq(JobSet), NEW c \in Conns, NEW op \in {"close", "sfini", "twait", "tfini"}
    PROVE  Grows(q, Append(q, Job(op, c)), c, {op})
  <1> DEFINE e == Job(op, c)
             r == Append(q, e)
  <1>1. /\ r \in Seq(JobSet) /\ Apart(q, r, c)
        /\ \A o : Has(r, Job(o, c)) => Has(q, Job(o, c)) \/ o \in {op}
    BY AddedApart
  <1>2. e \in JobSet /\ e # Job("beconnected", c) /\ e # Job("accept", c)
        /\ Job("beconnected", c) # Job("accept", c)
    <2>1. e \in JobSet
      BY DEF JobSet, Job
    <2> QED BY <2>1, JobEq
  <1> HIDE DEF e
  <1>3. InLine(q, r, c)
    <2>1. InFront(q, Job("beconnected", c), Job("accept", c))
              => InFront(r, Job("beconnected", c), Job("accept", c))
      BY ONLY <1>2, AddedInFront, q \in Seq(JobSet) DEF r
    <2> QED BY <1>2, <2>1, Added DEF InLine
  <1> HIDE DEF r
  <1>4. Grows(q, r, c, {op})
    BY <1>1, <1>3 DEF Grows
  <1> QED BY <1>4 DEF r, e

LEMMA IfGrows ==
    ASSUME NEW q \in Seq(JobSet), NEW c \in Conns,
           NEW op \in {"close", "sfini", "twait", "tfini"}, NEW b
    PROVE  Grows(q, q \o If(b, <<Job(op, c)>>), c, {op})
  <1>1. Job(op, c) \in JobSet
    BY DEF JobSet, Job
  <1>2. q \o If(b, <<Job(op, c)>>) = IF b THEN Append(q, Job(op, c)) ELSE q
    BY <1>1, IfAdded
  <1>3. Grows(q, q, c, {op})
    BY GrowsNot DEF Grows
  <1>4. CASE b
    <2>1. q \o If(b, <<Job(op, c)>>) = Append(q, Job(op, c))
      BY <1>2, <1>4
    <2> QED BY <2>1, AddedGrows
  <1>5. CASE ~b
    <2>1. q \o If(b, <<Job(op, c)>>) = q
      BY <1>2, <1>5
    <2> QED BY <1>3, <2>1
  <1> QED BY <1>4, <1>5

LEMMA ClosesGrow ==
    ASSUME NEW q \in Seq(JobSet), NEW c \in Conns
    PROVE  /\ Grows(q, q \o CloseJobs(c), c, {"close"})
           /\ Grows(q, q \o SocketFini(c), c, {"sfini"})
           /\ Grows(q, q \o TimerFini(c), c, {"tfini"})
  <1>1. "close" \in {"close", "sfini", "twait", "tfini"}
        /\ "sfini" \in {"close", "sfini", "twait", "tfini"}
        /\ "tfini" \in {"close", "sfini", "twait", "tfini"}
    OBVIOUS
  <1>2. Grows(q, q \o CloseJobs(c), c, {"close"})
    BY ONLY <1>1, IfGrows, q \in Seq(JobSet), c \in Conns, Zenon DEF CloseJobs
  <1>3. Grows(q, q \o SocketFini(c), c, {"sfini"})
    BY ONLY <1>1, IfGrows, q \in Seq(JobSet), c \in Conns, Zenon DEF SocketFini
  <1>4. Grows(q, q \o TimerFini(c), c, {"tfini"})
    BY ONLY <1>1, IfGrows, q \in Seq(JobSet), c \in Conns, Zenon DEF TimerFini
  <1> QED BY <1>2, <1>3, <1>4

-----------------------------------------------------------------------------
(* A step about c leaves JAt of the others *)

\* The steps of main's mailbox.
Telling(c, op) == main' = Append(main, Job(op, c)) /\ told' = told
Hearing(c, op) == MainRuns(op, c) /\ main' = Tail(main) /\ told' = [told EXCEPT ![c] = op]
Silent == main' = main /\ told' = told

SameAt(d) ==
    /\ accepting'[d] = accepting[d] /\ sstat'[d] = sstat[d] /\ binit'[d] = binit[d]
    /\ recv'[d] = recv[d] /\ status'[d] = status[d] /\ filed'[d] = filed[d]
    /\ d \in acb' <=> d \in acb
    /\ d \in refused' <=> d \in refused
    /\ d \in overtaken' <=> d \in overtaken

SameStory(d) ==
    /\ Ordered(main, told[d], d) => Ordered(main', told'[d], d)
    /\ \A ev : Ends(main, told[d], d, ev) => Ends(main', told'[d], d, ev)

LEMMA StoriesElsewhere ==
    ASSUME IInv, NEW c \in Conns, NEW op \in {"accept", "up", "msg", "down"},
           Silent \/ Telling(c, op) \/ Hearing(c, op), NEW d \in Conns, d # c
    PROVE  SameStory(d) /\ told'[d] = told[d]
  <1>1. main \in Seq(MainSet) /\ told \in [Conns -> {"none", "accept", "up", "msg", "down"}]
    BY DEF IInv, TypeOK, MainSet
  <1>2. CASE Silent
    BY <1>2 DEF Silent, SameStory
  <1>3. CASE Telling(c, op)
    <2>1. told'[d] = told[d] /\ main' = Append(main, Job(op, c))
      BY <1>3 DEF Telling
    <2> QED BY <1>1, <2>1, StoryGrowsElsewhere DEF SameStory
  <1>4. CASE Hearing(c, op)
    <2>1. /\ told'[d] = told[d] /\ main' = Tail(main)
          /\ main # <<>> /\ Head(main) = Job(op, c)
      BY <1>1, <1>4 DEF Hearing, MainRuns
    <2>2. main \in Seq(MainSet) /\ d # c
      BY <1>1
    <2>3. /\ Ordered(main, told[d], d) => Ordered(Tail(main), told[d], d)
          /\ \A ev : Ends(main, told[d], d, ev) => Ends(Tail(main), told[d], d, ev)
      BY ONLY <2>1, <2>2, StoryTakenElsewhere
    <2> QED BY ONLY <2>1, <2>3 DEF SameStory
  <1> QED BY <1>2, <1>3, <1>4

\* What is left to show is JAt of c.
LEMMA Elsewhere ==
    ASSUME IInv, JInv, NEW c \in Conns, NEW op \in {"accept", "up", "msg", "down"},
           Silent \/ Telling(c, op) \/ Hearing(c, op),
           \A d \in Conns \ {c} : SameAt(d),
           Apart(jobs, jobs', c),
           JAt(c)'
    PROVE  JInv'
  <1> SUFFICES ASSUME NEW d \in Conns, d # c PROVE JAt(d)'
    BY DEF JInv
  <1>1. JAt(d) /\ SameAt(d)
    BY DEF JInv
  <1>2. SameStory(d) /\ told'[d] = told[d]
    BY StoriesElsewhere
  <1>3. PICK ev \in Events : Ends(main, told[d], d, ev) /\ CourseAt(d, ev)
    BY <1>1 DEF JAt
  <1>4. InLine(jobs, jobs', d) /\ \A o : Has(jobs', Job(o, d)) => Has(jobs, Job(o, d))
    BY DEF Apart
  <1>5. Unopened(d)' => Unopened(d)
    BY <1>1, <1>4 DEF Unopened, SameAt
  <1>6. CourseAt(d, ev)'
    BY <1>1, <1>3, <1>4, <1>5 DEF CourseAt, SameAt, InLine
  <1>7. OwnerAt(d)'
    BY <1>1, <1>2, <1>4, <1>5 DEF JAt, OwnerAt, SameAt
  <1>8. Ordered(main', told'[d], d) /\ Ends(main', told'[d], d, ev)
    BY <1>1, <1>2, <1>3 DEF JAt, SameStory
  <1> QED BY <1>6, <1>7, <1>8 DEF JAt

-----------------------------------------------------------------------------
(* Steps that only take or add jobs *)

\* The same for a step that changes nothing but the jobs of c.
LEMMA OnlyJobs ==
    ASSUME IInv, JInv, NEW c \in Conns, Silent, \A d \in Conns : SameAt(d),
           NEW N, Grows(jobs, jobs', c, N), "accept" \notin N, "beconnected" \notin N,
           ("close" \in N \/ "sfini" \in N) /\ Unopened(c) => c \in refused
    PROVE  JInv'
  <1>1. JAt(c) /\ SameAt(c)
    BY DEF JInv
  <1>2. PICK ev \in Events : Ends(main, told[c], c, ev) /\ CourseAt(c, ev)
    BY <1>1 DEF JAt
  <1>3. /\ InLine(jobs, jobs', c) /\ Apart(jobs, jobs', c)
        /\ \A o : Has(jobs', Job(o, c)) => Has(jobs, Job(o, c)) \/ o \in N
    BY DEF Grows
  <1>4. Unopened(c)' => Unopened(c)
    BY <1>1, <1>3 DEF Unopened, SameAt
  <1>5. CourseAt(c, ev)'
    BY <1>1, <1>2, <1>3, <1>4 DEF CourseAt, SameAt, InLine
  <1>6. OwnerAt(c)'
    BY <1>1, <1>3, <1>4 DEF JAt, OwnerAt, SameAt, Silent
  <1>7. Ordered(main', told'[c], c) /\ Ends(main', told'[c], c, ev)
    BY <1>1, <1>2 DEF JAt, Silent
  <1>8. JAt(c)'
    BY <1>5, <1>6, <1>7 DEF JAt
  <1>9. "up" \in {"accept", "up", "msg", "down"}
    OBVIOUS
  <1>10. \A d \in Conns \ {c} : SameAt(d)
    OBVIOUS
  <1> QED BY ONLY <1>3, <1>8, <1>9, <1>10, Elsewhere, IInv, JInv, c \in Conns, Silent

\* A user who has heard that the connection is up closes an open one.
LEMMA HeardIsOpen ==
    ASSUME IInv, JInv, NEW c \in Conns, told[c] \in {"up", "msg", "down"}
    PROVE  ~Unopened(c)
  <1>1. JAt(c) /\ main \in Seq(MainSet)
    BY DEF JInv, IInv, TypeOK, MainSet
  <1>2. PICK ev \in Events : Ends(main, told[c], c, ev) /\ CourseAt(c, ev)
    BY <1>1 DEF JAt
  <1>3. 0 \in PlacesOf(main, c) /\ EventOf(main, told[c], 0) = told[c]
    BY DEF PlacesOf, EventOf
  <1>4. told[c] = ev \/ <<told[c], ev>> \in Ahead
    BY <1>1, <1>2, <1>3, EndsAhead DEF JAt
  <1>5. ev \notin {"none", "accept"}
    BY <1>4 DEF Ahead
  <1> QED BY <1>2, <1>5 DEF CourseAt

LEMMA UserCloseJ ==
    ASSUME IInv, JInv, NEW c \in Conns, UserClose(c)
    PROVE  JInv'
  <1>1. jobs \in Seq(JobSet)
    BY Facts
  <1>2. Silent /\ \A d \in Conns : SameAt(d)
    BY DEF UserClose, Silent, SameAt, socket, server
  <1>3. told[c] \in {"up", "msg", "down"}
    BY DEF UserClose
  <1>4. ~Unopened(c)
    BY <1>3, HeardIsOpen
  <1>5. Grows(jobs, jobs', c, {"close"})
    <2>1. CASE filed[c] = "id"
      BY <1>1, <2>1, ClosesGrow DEF UserClose
    <2>2. CASE filed[c] # "id"
      <3>1. jobs' = jobs
        BY <2>2 DEF UserClose
      <3> QED BY <1>1, <3>1, GrowsNot DEF Grows
    <2> QED BY <2>1, <2>2
  <1>6. "accept" \notin {"close"} /\ "beconnected" \notin {"close"}
    OBVIOUS
  <1> QED BY ONLY <1>2, <1>4, <1>5, <1>6, OnlyJobs, IInv, JInv, c \in Conns

\* What a job of c that runs does first.
LEMMA JobTaken ==
    ASSUME IInv, NEW c \in Conns, NEW op, Runs(op, c)
    PROVE  /\ Tail(jobs) \in Seq(JobSet)
           /\ Grows(jobs, Tail(jobs), c, {})
           /\ Has(jobs, Job(op, c))
           /\ Once(jobs, Job(op, c)) => ~Has(Tail(jobs), Job(op, c))
           /\ \A x : InFront(jobs, x, Job(op, c)) /\ x # Job(op, c) => ~Has(Tail(jobs), x)
  <1>1. jobs \in Seq(JobSet) /\ jobs # <<>> /\ Head(jobs) = Job(op, c)
    BY Facts DEF Runs
  <1>2. /\ Tail(jobs) \in Seq(JobSet)
        /\ Has(jobs, Job(op, c))
        /\ Once(jobs, Job(op, c)) => ~Has(Tail(jobs), Job(op, c))
    BY <1>1, Taken
  <1>3. Grows(jobs, Tail(jobs), c, {})
    BY <1>1, TakenGrows
  <1>4. ASSUME NEW x, InFront(jobs, x, Job(op, c)), Has(Tail(jobs), x) PROVE FALSE
    <2>1. /\ Len(jobs) \in Nat \ {0} /\ DOMAIN jobs = 1..Len(jobs)
          /\ DOMAIN Tail(jobs) = 1..(Len(jobs) - 1)
          /\ \A i \in 1..(Len(jobs) - 1) : Tail(jobs)[i] = jobs[i + 1]
          /\ jobs[1] = Job(op, c)
      BY <1>1, HeadTailProperties, LenProperties, EmptySeq
    <2>2. PICK i \in 1..(Len(jobs) - 1) : jobs[i + 1] = x
      BY <1>4, <2>1 DEF Has
    <2>3. i + 1 < 1
      BY <1>4, <2>1, <2>2 DEF InFront
    <2> QED BY <2>1, <2>2, <2>3
  <1> QED BY <1>2, <1>3, <1>4

LEMMA TimerStepsJ ==
    ASSUME IInv, JInv, NEW c \in Conns,
           TimerWait(c) \/ TimerRealFini(c) \/ RealFiniAgain(c) \/ TimerEnds(c)
    PROVE  JInv'
  <1>1. jobs \in Seq(JobSet)
    BY Facts
  <1>2. Silent /\ \A d \in Conns : SameAt(d)
    BY DEF TimerWait, TimerRealFini, RealFiniAgain, TimerEnds, Silent, SameAt, socket, server,
       history
  <1>3. Grows(jobs, jobs', c, {})
    <2>1. CASE TimerWait(c)
      BY <2>1, JobTaken DEF TimerWait
    <2>2. CASE TimerRealFini(c)
      BY <2>2, JobTaken DEF TimerRealFini
    <2>3. CASE RealFiniAgain(c)
      BY <2>3, JobTaken DEF RealFiniAgain
    <2>4. CASE TimerEnds(c)
      BY <1>1, <2>4, GrowsNot DEF TimerEnds
    <2> QED BY <2>1, <2>2, <2>3, <2>4
  <1> QED BY <1>2, <1>3, OnlyJobs

LEMMA PostinCloseJ ==
    ASSUME IInv, JInv, NEW c \in Conns, PostinClose(c)
    PROVE  JInv'
  <1>1. Silent /\ \A d \in Conns : SameAt(d)
    BY DEF PostinClose, Silent, SameAt, socket, history
  <1>2. /\ Tail(jobs) \in Seq(JobSet) /\ Grows(jobs, Tail(jobs), c, {})
        /\ Has(jobs, Job("close", c))
    BY JobTaken DEF PostinClose
  <1> DEFINE p == Tail(jobs) \o SocketFini(c)
             N == {} \cup {"sfini"} \cup {"tfini"}
  <1>3. Grows(Tail(jobs), p, c, {"sfini"})
    BY <1>2, ClosesGrow
  <1>4. p \in Seq(JobSet) /\ jobs' = p \o TimerFini(c)
    BY <1>3 DEF Grows, PostinClose
  <1> HIDE DEF p
  <1>5. Grows(p, jobs', c, {"tfini"})
    BY <1>4, ClosesGrow
  <1>6. Grows(jobs, jobs', c, N)
    BY <1>2, <1>3, <1>5, GrowsFurther
  <1>7. Unopened(c) => c \in refused
    <2>1. JAt(c)
      BY DEF JInv
    <2>2. Unopened(c) => accepting[c] # "no"
      BY <1>2, Facts DEF StartedAt
    <2> QED BY <1>2, <2>1, <2>2 DEF JAt, OwnerAt
  <1>8. "accept" \notin N /\ "beconnected" \notin N
    OBVIOUS
  <1> QED BY ONLY <1>1, <1>6, <1>7, <1>8, OnlyJobs, IInv, JInv, c \in Conns

-----------------------------------------------------------------------------
(* Steps of the main thread *)

LEMMA Heard ==
    ASSUME IInv, JInv, NEW c \in Conns, NEW op \in {"accept", "up", "msg", "down"}, Hearing(c, op)
    PROVE  /\ told'[c] = op /\ <<told[c], op>> \in Follows
           /\ Ordered(main', told'[c], c)
           /\ \A ev : Ends(main, told[c], c, ev) => Ends(main', told'[c], c, ev)
  <1>1. main \in Seq(MainSet) /\ told \in [Conns -> {"none", "accept", "up", "msg", "down"}]
    BY DEF IInv, TypeOK, MainSet
  <1>2. /\ main # <<>> /\ Head(main) = Job(op, c) /\ main' = Tail(main) /\ told'[c] = op
    BY <1>1 DEF Hearing, MainRuns
  <1>3. Ordered(main, told[c], c)
    BY DEF JInv, JAt
  <1>4. /\ Ordered(Tail(main), op, c)
        /\ \A ev : Ends(main, told[c], c, ev) => Ends(Tail(main), op, c, ev)
        /\ <<told[c], op>> \in Follows
    BY ONLY <1>1, <1>2, <1>3, StoryTaken
  <1> QED BY ONLY <1>2, <1>4

\* Hearing of c tells where its owner is, and nothing else.
LEMMA OnlyHears ==
    ASSUME IInv, JInv, NEW c \in Conns, NEW op \in {"accept", "up", "msg", "down"},
           Hearing(c, op), NEW N, Grows(jobs, jobs', c, N), "accept" \notin N,
           "beconnected" \notin N,
           \A d \in Conns \ {c} : SameAt(d),
           UNCHANGED <<accepting, sstat, binit, recv, status, acb>>,
           OwnerAt(c)'
    PROVE  JInv'
  <1>1. JAt(c)
    BY DEF JInv
  <1>2. PICK ev \in Events : Ends(main, told[c], c, ev) /\ CourseAt(c, ev)
    BY <1>1 DEF JAt
  <1>3. /\ InLine(jobs, jobs', c) /\ Apart(jobs, jobs', c)
        /\ \A o : Has(jobs', Job(o, c)) => Has(jobs, Job(o, c)) \/ o \in N
    BY DEF Grows
  <1>4. Unopened(c)' => Unopened(c)
    BY <1>3 DEF Unopened
  <1>5. CourseAt(c, ev)'
    BY <1>2, <1>3, <1>4 DEF CourseAt, InLine
  <1>6. Ordered(main', told'[c], c) /\ Ends(main', told'[c], c, ev)
    BY <1>2, Heard
  <1>7. JAt(c)'
    BY <1>5, <1>6 DEF JAt
  <1> QED BY ONLY <1>3, <1>7, Elsewhere, IInv, JInv, c \in Conns, Hearing(c, op),
             op \in {"accept", "up", "msg", "down"}, \A d \in Conns \ {c} : SameAt(d)

\* What OwnerAt says stays true of a connection that gains no owner.
LEMMA OwnerStays ==
    ASSUME IInv, JInv, NEW c \in Conns, NEW N, Grows(jobs, jobs', c, N), "accept" \notin N,
           UNCHANGED <<accepting, sstat, binit, overtaken>>,
           c \in refused => c \in refused',
           filed'[c] = "none" => filed[c] = "none",
           filed'[c] = "dropped" => c \in refused' \/ told'[c] = "down",
           ("close" \in N \/ "sfini" \in N) => c \in refused' \/ ~Unopened(c)
    PROVE  OwnerAt(c)'
  <1>1. OwnerAt(c)
    BY DEF JInv, JAt
  <1>2. \A o : Has(jobs', Job(o, c)) => Has(jobs, Job(o, c)) \/ o \in N
    BY DEF Grows
  <1>3. Unopened(c)' => Unopened(c)
    BY <1>2 DEF Unopened
  <1> QED BY <1>1, <1>2, <1>3 DEF OwnerAt

LEMMA MainRefusesJ ==
    ASSUME IInv, JInv, NEW c \in Conns, MainRefuses(c)
    PROVE  JInv'
  <1>1. Hearing(c, "accept")
    BY DEF MainRefuses, Hearing, MainPopped, Tells
  <1>2. Grows(jobs, jobs', c, {"close"})
    BY Facts, ClosesGrow DEF MainRefuses
  <1>3. \A d \in Conns \ {c} : SameAt(d)
    BY DEF MainRefuses, SameAt, socket, server, IInv, TypeOK
  <1>4. UNCHANGED <<accepting, sstat, binit, recv, status, acb, overtaken>>
    BY DEF MainRefuses, socket, server
  <1>5. c \in refused' /\ filed'[c] # "none"
    BY DEF MainRefuses, IInv, TypeOK
  <1>6. OwnerAt(c)'
    BY <1>2, <1>4, <1>5, OwnerStays
  <1>7. /\ "accept" \notin {"close"} /\ "beconnected" \notin {"close"}
        /\ "accept" \in {"accept", "up", "msg", "down"}
    OBVIOUS
  <1> QED BY ONLY <1>1, <1>2, <1>3, <1>4, <1>6, <1>7, OnlyHears, IInv, JInv, c \in Conns

LEMMA MainAdmitsJ ==
    ASSUME IInv, JInv, NEW c \in Conns, MainAdmits(c)
    PROVE  JInv'
  <1>1. Hearing(c, "accept")
    BY DEF MainAdmits, Hearing, MainPopped, Tells
  <1>2. Grows(jobs, jobs', c, {})
    BY Facts, GrowsNot DEF MainAdmits
  <1>3. \A d \in Conns \ {c} : SameAt(d)
    BY DEF MainAdmits, SameAt, socket, server, history, IInv, TypeOK
  <1>4. UNCHANGED <<accepting, sstat, binit, recv, status, acb, refused, overtaken>>
    BY DEF MainAdmits, socket, server, history
  <1>5. filed'[c] \in {"id", "zero", "lost"}
    BY DEF MainAdmits, IInv, TypeOK
  <1>6. OwnerAt(c)'
    BY <1>2, <1>4, <1>5, OwnerStays
  <1>7. "accept" \in {"accept", "up", "msg", "down"}
    OBVIOUS
  <1> QED BY <1>1, <1>2, <1>3, <1>4, <1>6, <1>7, OnlyHears

LEMMA MainHearsJ ==
    ASSUME IInv, JInv, NEW c \in Conns, MainHears(c)
    PROVE  JInv'
  <1>1. PICK op \in {"up", "msg"} : Hearing(c, op)
    BY DEF MainHears, Hearing, MainPopped, Tells
  <1>2. Grows(jobs, jobs', c, {})
    BY Facts, GrowsNot DEF MainHears
  <1>3. \A d \in Conns \ {c} : SameAt(d)
    BY DEF MainHears, SameAt, socket, server, history
  <1>4. UNCHANGED <<accepting, sstat, binit, recv, status, acb, refused, overtaken, filed>>
    BY DEF MainHears, socket, server, history
  <1>5. told[c] # "down"
    BY <1>1, Heard DEF Follows
  <1>6. OwnerAt(c) => (filed[c] = "dropped" => c \in refused)
    BY <1>5 DEF OwnerAt
  <1>7. OwnerAt(c)'
    BY <1>2, <1>4, <1>6, OwnerStays DEF JInv, JAt
  <1> QED BY <1>1, <1>2, <1>3, <1>4, <1>7, OnlyHears

LEMMA MainEndsJ ==
    ASSUME IInv, JInv, NEW c \in Conns, MainEnds(c)
    PROVE  JInv'
  <1>1. Hearing(c, "down")
    BY DEF MainEnds, Hearing, MainPopped, Tells
  <1>2. "down" \in {"accept", "up", "msg", "down"} /\ "accept" \notin {"close"}
        /\ "beconnected" \notin {"close"}
    OBVIOUS
  <1>3. told'[c] = "down"
    BY <1>1, <1>2, Heard
  <1>4. ~Unopened(c)
    <2>1. PICK ev \in Events : Ends(main, told[c], c, ev) /\ CourseAt(c, ev)
      BY DEF JInv, JAt
    <2>2. Ends(main', "down", c, ev) /\ Ordered(main', "down", c)
      BY <1>1, <1>2, <1>3, <2>1, Heard
    <2>3. main' \in Seq(MainSet)
      BY <1>1, HeadTailProperties DEF Hearing, MainRuns, IInv, TypeOK, MainSet
    <2>4. 0 \in PlacesOf(main', c) /\ EventOf(main', "down", 0) = "down"
      BY DEF PlacesOf, EventOf
    <2>5. "down" = ev \/ <<"down", ev>> \in Ahead
      BY ONLY <2>2, <2>3, <2>4, EndsAhead
    <2> QED BY <2>1, <2>5 DEF CourseAt, Ahead
  <1>5. Grows(jobs, jobs', c, {"close"})
    <2>1. CASE filed[c] = "id"
      BY <2>1, Facts, ClosesGrow DEF MainEnds
    <2>2. CASE filed[c] # "id"
      <3>1. jobs' = jobs
        BY <2>2 DEF MainEnds
      <3> QED BY <3>1, Facts, GrowsNot DEF Grows
    <2> QED BY <2>1, <2>2
  <1>6. \A d \in Conns \ {c} : SameAt(d)
    BY DEF MainEnds, SameAt, socket, server, history, IInv, TypeOK
  <1>7. UNCHANGED <<accepting, sstat, binit, recv, status, acb, refused, overtaken>>
    BY DEF MainEnds, socket, server, history
  <1>8. filed'[c] = "none" => filed[c] = "none"
    BY DEF MainEnds, IInv, TypeOK
  <1>9. OwnerAt(c)'
    BY <1>2, <1>3, <1>4, <1>5, <1>7, <1>8, OwnerStays
  <1> QED BY ONLY <1>1, <1>2, <1>5, <1>6, <1>7, <1>9, OnlyHears, IInv, JInv, c \in Conns

-----------------------------------------------------------------------------
(* Closing the link *)

LEMMA LinkCloses ==
    ASSUME IInv, JInv, NEW c \in Conns, NEW fini, CloseLink(c, fini), sstat[c] # "null",
           NEW N, Grows(jobs, fini, c, N), "accept" \notin N, "beconnected" \notin N,
           \A d \in Conns \ {c} : SameAt(d),
           UNCHANGED <<accepting, filed, refused, overtaken, told>>,
           c \in acb' => c \in acb
    PROVE  JInv'
  <1>1. JAt(c) /\ main \in Seq(MainSet) /\ fini \in Seq(JobSet)
    BY DEF JInv, IInv, TypeOK, MainSet, Grows
  <1>2. PICK ev \in Events : Ends(main, told[c], c, ev) /\ CourseAt(c, ev)
    BY <1>1 DEF JAt
  <1>3. ~Unopened(c) /\ ~Has(jobs, Job("beconnected", c))
    BY <1>2 DEF CourseAt
  <1>4. /\ sstat'[c] = "null" /\ recv'[c] = "none"
        /\ sstat[c] \in {"connect", "common"}
        /\ c \in acb => status'[c] = "closed" /\ main' = Append(main, Job("down", c))
                        /\ jobs' = fini \o TimerFini(c)
        /\ c \notin acb => jobs' = fini /\ status' = status /\ main' = main
    BY DEF CloseLink, IInv, TypeOK
  <1>5. PICK M : Grows(jobs, jobs', c, M) /\ "accept" \notin M /\ "beconnected" \notin M
    <2>1. CASE c \notin acb
      BY <1>4, <2>1
    <2>2. CASE c \in acb
      <3>1. Grows(fini, jobs', c, {"tfini"})
        BY <1>1, <1>4, <2>2, ClosesGrow
      <3>2. Grows(jobs, jobs', c, N \cup {"tfini"})
        BY <3>1, GrowsFurther
      <3>3. "accept" \notin N \cup {"tfini"} /\ "beconnected" \notin N \cup {"tfini"}
        OBVIOUS
      <3> QED BY ONLY <3>2, <3>3
    <2> QED BY <2>1, <2>2
  <1>6. /\ InLine(jobs, jobs', c) /\ Apart(jobs, jobs', c)
        /\ Has(jobs', Job("accept", c)) => Has(jobs, Job("accept", c))
        /\ Has(jobs', Job("beconnected", c)) => Has(jobs, Job("beconnected", c))
    BY <1>5 DEF Grows
  <1>7. ~Unopened(c)'
    BY <1>3, <1>6 DEF Unopened
  <1>8. OwnerAt(c)'
    BY <1>1, <1>4, <1>7 DEF JAt, OwnerAt
  <1>9. CASE c \in acb
    <2>1. ev \in {"accept", "up", "msg"}
      BY <1>2, <1>4, <1>9 DEF CourseAt
    <2>2. <<ev, "down">> \in Follows
      BY <2>1 DEF Follows
    <2>3. Ordered(main', told'[c], c) /\ Ends(main', told'[c], c, "down")
      <3>1. Ordered(main, told[c], c) /\ "down" \in {"accept", "up", "msg", "down"}
        BY <1>1 DEF JAt
      <3>2. Ordered(Append(main, Job("down", c)), told[c], c)
            /\ Ends(Append(main, Job("down", c)), told[c], c, "down")
        BY ONLY <1>1, <1>2, <2>2, <3>1, c \in Conns, StoryGrows
      <3> QED BY <1>4, <1>9, <3>2
    <2>4. CourseAt(c, "down")'
      BY <1>2, <1>3, <1>4, <1>6, <1>7, <1>9, <2>1 DEF CourseAt, InLine
    <2>5. JAt(c)'
      BY <1>8, <2>3, <2>4 DEF JAt, Events
    <2>6. Telling(c, "down") /\ "down" \in {"accept", "up", "msg", "down"}
      BY <1>4, <1>9 DEF Telling
    <2> QED BY ONLY <1>6, <2>5, <2>6, Elsewhere, IInv, JInv, c \in Conns,
               \A d \in Conns \ {c} : SameAt(d)
  <1>10. CASE c \notin acb
    <2>1. Ordered(main', told'[c], c) /\ Ends(main', told'[c], c, ev)
      BY <1>1, <1>2, <1>4, <1>10 DEF JAt
    <2>2. CourseAt(c, ev)'
      BY <1>2, <1>3, <1>4, <1>6, <1>7, <1>10 DEF CourseAt, InLine
    <2>3. JAt(c)'
      BY <1>8, <2>1, <2>2 DEF JAt
    <2>4. Silent /\ "down" \in {"accept", "up", "msg", "down"}
      BY <1>4, <1>10 DEF Silent
    <2> QED BY ONLY <1>6, <2>3, <2>4, Elsewhere, IInv, JInv, c \in Conns,
               \A d \in Conns \ {c} : SameAt(d)
  <1> QED BY <1>9, <1>10

\* CloseLink is about c.
LEMMA LinkElsewhere ==
    ASSUME IInv, NEW c \in Conns, NEW fini, CloseLink(c, fini)
    PROVE  \A d \in Conns \ {c} :
               sstat'[d] = sstat[d] /\ recv'[d] = recv[d] /\ status'[d] = status[d]
  <1>1. /\ sstat' = [sstat EXCEPT ![c] = "null"] /\ recv' = [recv EXCEPT ![c] = "none"]
        /\ status' = [status EXCEPT ![c] = "closed"] \/ status' = status
    BY DEF CloseLink
  <1>2. /\ sstat \in [Conns -> {"null", "connect", "common"}]
        /\ recv \in [Conns -> {"none", "head", "body", "empty"}]
        /\ status \in [Conns -> {"closed", "establishing", "established"}]
    BY DEF IInv, TypeOK
  <1> QED BY ONLY <1>1, <1>2

LEMMA RealFiniJ ==
    ASSUME IInv, JInv, NEW c \in Conns, RealFini(c)
    PROVE  JInv'
  <1>1. /\ Tail(jobs) \in Seq(JobSet) /\ Grows(jobs, Tail(jobs), c, {})
        /\ Has(jobs, Job("sfini", c))
    BY JobTaken DEF RealFini
  <1>2. /\ UNCHANGED <<accepting, filed, refused, overtaken, told>>
        /\ c \in acb' => c \in acb
        /\ \A d \in Conns \ {c} : (d \in acb' <=> d \in acb) /\ binit'[d] = binit[d]
        /\ binit'[c] = FALSE /\ c \notin acb'
    BY DEF RealFini, history, IInv, TypeOK
  <1>3. CASE sstat[c] # "null"
    <2>1. CloseLink(c, Tail(jobs))
      BY <1>3 DEF RealFini
    <2>2. \A d \in Conns \ {c} : SameAt(d)
      BY <1>2, <2>1, LinkElsewhere DEF SameAt
    <2> QED BY <1>1, <1>2, <1>3, <2>1, <2>2, LinkCloses
  <1>4. CASE sstat[c] = "null"
    <2>1. jobs' = Tail(jobs) /\ UNCHANGED <<sstat, recv, status, main>>
      BY <1>4 DEF RealFini, server
    <2>2. /\ InLine(jobs, jobs', c) /\ Apart(jobs, jobs', c)
          /\ \A o : Has(jobs', Job(o, c)) => Has(jobs, Job(o, c))
      BY <1>1, <2>1 DEF Grows
    <2>3. JAt(c)
      BY DEF JInv
    <2>4. PICK ev \in Events : Ends(main, told[c], c, ev) /\ CourseAt(c, ev)
      BY <2>3 DEF JAt
    <2>5. Unopened(c)' => Unopened(c)
      BY <1>2, <2>2 DEF Unopened
    <2>6. CourseAt(c, ev)'
      BY <1>2, <1>4, <2>1, <2>2, <2>4, <2>5 DEF CourseAt, InLine
    <2>7. accepting[c] # "no"
      BY <1>1, Facts DEF StartedAt
    <2>8. OwnerAt(c)'
      BY <1>1, <1>2, <1>4, <2>1, <2>2, <2>3, <2>5, <2>7 DEF JAt, OwnerAt
    <2>9. JAt(c)'
      BY <1>2, <2>1, <2>3, <2>4, <2>6, <2>8 DEF JAt
    <2>10. \A d \in Conns \ {c} : SameAt(d)
      BY <1>2, <2>1 DEF SameAt
    <2>11. Silent /\ "up" \in {"accept", "up", "msg", "down"}
      BY <1>2, <2>1 DEF Silent
    <2> QED BY ONLY <2>2, <2>9, <2>10, <2>11, Elsewhere, IInv, JInv, c \in Conns
  <1> QED BY <1>3, <1>4

LEMMA ConnectTimeoutJ ==
    ASSUME IInv, JInv, NEW c \in Conns, ConnectTimeout(c)
    PROVE  JInv'
  <1> DEFINE fini == jobs \o If(c \in acb, SocketFini(c))
  <1>1. sstat[c] = "connect" /\ CloseLink(c, fini)
        /\ UNCHANGED <<accepting, binit, acb, filed, refused, overtaken, told>>
    BY DEF ConnectTimeout, history
  <1>2. jobs \in Seq(JobSet)
    BY Facts
  <1>3. Grows(jobs, fini, c, {"sfini"})
    <2>1. CASE c \in acb
      <3>1. fini = jobs \o SocketFini(c)
        BY <2>1 DEF If
      <3> QED BY <1>2, <3>1, ClosesGrow
    <2>2. CASE c \notin acb
      <3>1. fini = jobs
        BY <1>2, <2>2, ConcatEmptySeq DEF If
      <3> QED BY <1>2, <3>1, GrowsNot DEF Grows
    <2> QED BY <2>1, <2>2
  <1> HIDE DEF fini
  <1>4. \A d \in Conns \ {c} : SameAt(d)
    BY <1>1, LinkElsewhere DEF SameAt
  <1>5. "accept" \notin {"sfini"} /\ "beconnected" \notin {"sfini"} /\ sstat[c] # "null"
    BY <1>1
  <1> QED BY ONLY <1>1, <1>3, <1>4, <1>5, LinkCloses, IInv, JInv, c \in Conns

LEMMA RecvClosesJ ==
    ASSUME IInv, JInv, NEW c \in Conns, RecvCloses(c)
    PROVE  JInv'
  <1> DEFINE fini == jobs \o SocketFini(c)
  <1>1. recv[c] # "none" /\ CloseLink(c, fini)
        /\ UNCHANGED <<accepting, binit, acb, filed, refused, overtaken, told>>
    BY DEF RecvCloses, history
  <1>2. Grows(jobs, fini, c, {"sfini"})
    BY Facts, ClosesGrow
  <1> HIDE DEF fini
  <1>3. \A d \in Conns \ {c} : SameAt(d)
    BY <1>1, LinkElsewhere DEF SameAt
  <1>4. sstat[c] = "common"
    BY <1>1 DEF JInv, JAt, CourseAt
  <1>5. "accept" \notin {"sfini"} /\ "beconnected" \notin {"sfini"} /\ sstat[c] # "null"
    BY <1>4
  <1> QED BY ONLY <1>1, <1>2, <1>3, <1>5, LinkCloses, IInv, JInv, c \in Conns

-----------------------------------------------------------------------------
(* Steps of the listener's thread, and the opening of the connection *)

LEMMA AcceptJ ==
    ASSUME IInv, JInv, NEW c \in Conns, Accept(c)
    PROVE  JInv'
  <1>1. JAt(c) /\ StartedAt(c) /\ jobs \in Seq(JobSet)
    BY Facts DEF JInv
  <1>2. PICK ev \in Events : Ends(main, told[c], c, ev) /\ CourseAt(c, ev)
    BY <1>1 DEF JAt
  <1>3. /\ accepting[c] = "no" /\ accepting'[c] = "tell" /\ filed'[c] = "creator"
        /\ binit'[c] = TRUE /\ c \in acb'
        /\ jobs' = Append(jobs, Job("beconnected", c))
        /\ UNCHANGED <<main, sstat, recv, status, told, refused, overtaken>>
    BY DEF Accept, server, history, IInv, TypeOK
  <1>4. \A op : ~Has(jobs, Job(op, c))
    BY <1>1, <1>3 DEF StartedAt
  <1>5. /\ Apart(jobs, jobs', c)
        /\ \A o : Has(jobs', Job(o, c)) => o = "beconnected"
    BY <1>1, <1>3, <1>4, AddedApart
  <1>6. /\ ~Has(jobs', Job("accept", c)) /\ ~Has(jobs', Job("close", c))
        /\ ~Has(jobs', Job("sfini", c))
    BY <1>5
  <1>7. Once(jobs', Job("accept", c)) /\ InFront(jobs', Job("beconnected", c), Job("accept", c))
    BY <1>6 DEF Has, Once, InFront
  <1>8. sstat[c] = "null" /\ status[c] = "closed"
    BY <1>1, <1>2, <1>3 DEF CourseAt, StartedAt
  <1>9. CourseAt(c, ev)'
    BY <1>2, <1>3, <1>6, <1>7, <1>8 DEF CourseAt, Unopened
  <1>10. OwnerAt(c)'
    BY <1>1, <1>3, <1>6, <1>8 DEF JAt, OwnerAt
  <1>11. JAt(c)'
    BY <1>1, <1>2, <1>3, <1>9, <1>10 DEF JAt
  <1>12. \A d \in Conns \ {c} : SameAt(d)
    BY DEF SameAt, Accept, server, history, IInv, TypeOK
  <1>13. Silent /\ "up" \in {"accept", "up", "msg", "down"}
    BY <1>3 DEF Silent
  <1> QED BY ONLY <1>5, <1>11, <1>12, <1>13, Elsewhere, IInv, JInv, c \in Conns

LEMMA TellMainJ ==
    ASSUME IInv, JInv, NEW c \in Conns, TellMain(c)
    PROVE  JInv'
  <1>1. JAt(c) /\ jobs \in Seq(JobSet) /\ main \in Seq(MainSet)
    BY Facts DEF JInv
  <1>2. PICK ev \in Events : Ends(main, told[c], c, ev) /\ CourseAt(c, ev)
    BY <1>1 DEF JAt
  <1>3. /\ accepting[c] = "tell" /\ accepting'[c] = "pass"
        /\ main' = Append(main, Job("accept", c))
        /\ UNCHANGED <<jobs, sstat, binit, recv, acb, status, told, filed, refused, overtaken>>
    BY DEF TellMain, socket, server, history, IInv, TypeOK
  <1>4. ev = "none"
    BY <1>2, <1>3 DEF CourseAt
  <1>5. Ordered(main', told'[c], c) /\ Ends(main', told'[c], c, "accept")
    <2>1. Ordered(main, told[c], c) /\ <<ev, "accept">> \in Follows
          /\ "accept" \in {"accept", "up", "msg", "down"}
      BY <1>1, <1>4 DEF JAt, Follows
    <2>2. Ordered(Append(main, Job("accept", c)), told[c], c)
          /\ Ends(Append(main, Job("accept", c)), told[c], c, "accept")
      BY ONLY <1>1, <1>2, <2>1, StoryGrows, c \in Conns
    <2> QED BY <1>3, <2>2
  <1>6. CourseAt(c, "accept")'
    BY <1>2, <1>3, <1>4 DEF CourseAt, Unopened
  <1>7. OwnerAt(c)'
    BY <1>1, <1>3 DEF JAt, OwnerAt, Unopened
  <1>8. JAt(c)'
    BY <1>5, <1>6, <1>7 DEF JAt, Events
  <1>9. \A d \in Conns \ {c} : SameAt(d)
    BY DEF SameAt, TellMain, socket, server, history, IInv, TypeOK
  <1>10. Telling(c, "accept") /\ "accept" \in {"accept", "up", "msg", "down"}
    BY <1>3 DEF Telling
  <1>11. Apart(jobs, jobs', c)
    BY <1>1, <1>3, GrowsNot DEF Grows
  <1> QED BY ONLY <1>8, <1>9, <1>10, <1>11, Elsewhere, IInv, JInv, c \in Conns

LEMMA FindsAccepterJ ==
    ASSUME IInv, JInv, NEW c \in Conns, FindsAccepter(c)
    PROVE  JInv'
  <1>1. JAt(c) /\ jobs \in Seq(JobSet)
    BY Facts DEF JInv
  <1>2. PICK ev \in Events : Ends(main, told[c], c, ev) /\ CourseAt(c, ev)
    BY <1>1 DEF JAt
  <1>3. /\ accepting[c] = "pass" /\ accepting'[c] = "post"
        /\ UNCHANGED <<jobs, main, sstat, binit, recv, acb, status, told, filed,
                       refused, overtaken>>
    BY DEF FindsAccepter, socket, server, history, IInv, TypeOK
  <1>4. CourseAt(c, ev)'
    BY <1>2, <1>3 DEF CourseAt, Unopened
  <1>5. OwnerAt(c)'
    BY <1>1, <1>3 DEF JAt, OwnerAt, Unopened
  <1>6. JAt(c)'
    BY <1>1, <1>2, <1>3, <1>4, <1>5 DEF JAt
  <1>7. \A d \in Conns \ {c} : SameAt(d)
    BY DEF SameAt, FindsAccepter, socket, server, history, IInv, TypeOK
  <1>8. Silent /\ "up" \in {"accept", "up", "msg", "down"}
    BY <1>3 DEF Silent
  <1>9. Apart(jobs, jobs', c)
    BY <1>1, <1>3, GrowsNot DEF Grows
  <1> QED BY ONLY <1>6, <1>7, <1>8, <1>9, Elsewhere, IInv, JInv, c \in Conns

LEMMA TurnsAwayJ ==
    ASSUME IInv, JInv, NEW c \in Conns, TurnsAway(c)
    PROVE  JInv'
  <1>1. JAt(c) /\ jobs \in Seq(JobSet)
    BY Facts DEF JInv
  <1>2. PICK ev \in Events : Ends(main, told[c], c, ev) /\ CourseAt(c, ev)
    BY <1>1 DEF JAt
  <1>3. /\ accepting[c] = "pass" /\ accepting'[c] = "done"
        /\ UNCHANGED <<jobs, main, sstat, binit, recv, acb, status, told, filed,
                       refused, overtaken>>
    BY DEF TurnsAway, socket, server, history, IInv, TypeOK
  <1>4. CourseAt(c, ev)'
    BY <1>2, <1>3 DEF CourseAt, Unopened
  <1>5. OwnerAt(c)'
    BY <1>1, <1>3 DEF JAt, OwnerAt, Unopened
  <1>6. JAt(c)'
    BY <1>1, <1>2, <1>3, <1>4, <1>5 DEF JAt
  <1>7. \A d \in Conns \ {c} : SameAt(d)
    BY DEF SameAt, TurnsAway, socket, server, history, IInv, TypeOK
  <1>8. Silent /\ "up" \in {"accept", "up", "msg", "down"}
    BY <1>3 DEF Silent
  <1>9. Apart(jobs, jobs', c)
    BY <1>1, <1>3, GrowsNot DEF Grows
  <1> QED BY ONLY <1>6, <1>7, <1>8, <1>9, Elsewhere, IInv, JInv, c \in Conns

LEMMA PassJ ==
    ASSUME IInv, JInv, NEW c \in Conns, Pass(c)
    PROVE  JInv'
  <1>1. JAt(c) /\ jobs \in Seq(JobSet)
    BY Facts DEF JInv
  <1>2. PICK ev \in Events : Ends(main, told[c], c, ev) /\ CourseAt(c, ev)
    BY <1>1 DEF JAt
  <1>3. /\ accepting[c] = "post" /\ accepting'[c] = "done"
        /\ jobs' = Append(jobs, Job("accept", c))
        /\ UNCHANGED <<main, sstat, binit, recv, acb, status, told, filed, refused, overtaken>>
    BY DEF Pass, socket, server, history, IInv, TypeOK
  <1>4. ev = "accept" /\ sstat[c] = "null" /\ ~Has(jobs, Job("accept", c)) /\ Unopened(c)
    BY <1>2, <1>3 DEF CourseAt, Unopened
  <1>5. /\ Apart(jobs, jobs', c)
        /\ \A o : Has(jobs', Job(o, c)) => Has(jobs, Job(o, c)) \/ o = "accept"
    BY <1>1, <1>3, AddedApart
  <1>6. Once(jobs', Job("accept", c)) /\ InFront(jobs', Job("beconnected", c), Job("accept", c))
    <2>1. Job("accept", c) \in JobSet /\ Job("accept", c) # Job("beconnected", c)
      <3>1. Job("accept", c) \in JobSet
        BY DEF JobSet, Job
      <3> QED BY <3>1, JobEq
    <2>2. Once(jobs, Job("accept", c)) /\ InFront(jobs, Job("beconnected", c), Job("accept", c))
      BY <1>2 DEF CourseAt
    <2>3. InFront(jobs', Job("beconnected", c), Job("accept", c))
      BY ONLY <1>1, <1>3, <2>1, <2>2, AddedInFront
    <2>4. Once(jobs', Job("accept", c))
      BY ONLY <1>1, <1>3, <1>4, <2>1, <2>2, Added
    <2> QED BY <2>3, <2>4
  <1>7. CourseAt(c, ev)'
    BY <1>2, <1>3, <1>4, <1>5, <1>6 DEF CourseAt, Unopened
  <1>8. OwnerAt(c)'
    BY <1>1, <1>3, <1>4, <1>5 DEF JAt, OwnerAt
  <1>9. JAt(c)'
    BY <1>1, <1>2, <1>3, <1>7, <1>8 DEF JAt
  <1>10. \A d \in Conns \ {c} : SameAt(d)
    BY DEF SameAt, Pass, socket, server, history, IInv, TypeOK
  <1>11. Silent /\ "up" \in {"accept", "up", "msg", "down"}
    BY <1>3 DEF Silent
  <1> QED BY ONLY <1>5, <1>9, <1>10, <1>11, Elsewhere, IInv, JInv, c \in Conns

LEMMA BeConnectedJ ==
    ASSUME IInv, JInv, NEW c \in Conns, BeConnected(c)
    PROVE  JInv'
  <1>1. JAt(c) /\ StartedAt(c)
    BY Facts DEF JInv
  <1>2. PICK ev \in Events : Ends(main, told[c], c, ev) /\ CourseAt(c, ev)
    BY <1>1 DEF JAt
  <1>3. /\ Tail(jobs) \in Seq(JobSet) /\ Grows(jobs, Tail(jobs), c, {})
        /\ Has(jobs, Job("beconnected", c)) /\ ~Has(Tail(jobs), Job("beconnected", c))
    BY <1>1, JobTaken DEF BeConnected, StartedAt
  <1>4. /\ status'[c] = "establishing"
        /\ jobs' = Append(Tail(jobs), Job("twait", c))
        /\ UNCHANGED <<accepting, main, sstat, binit, recv, acb, told, filed, refused, overtaken>>
    BY DEF BeConnected, socket, history, IInv, TypeOK
  <1>5. Grows(Tail(jobs), jobs', c, {"twait"})
    BY <1>3, <1>4, AddedGrows
  <1>6. Grows(jobs, jobs', c, {} \cup {"twait"})
    BY ONLY <1>3, <1>5, GrowsFurther
  <1>7. /\ InLine(jobs, jobs', c) /\ Apart(jobs, jobs', c)
        /\ \A o : Has(jobs', Job(o, c)) => Has(jobs, Job(o, c)) \/ o = "twait"
        /\ ~Has(jobs', Job("beconnected", c))
    BY <1>3, <1>5, <1>6 DEF Grows
  <1>8. accepting[c] # "no" /\ status[c] = "closed" /\ (Unopened(c)' => Unopened(c))
    BY <1>1, <1>2, <1>3, <1>4, <1>7 DEF CourseAt, StartedAt, Unopened
  <1>9. CourseAt(c, ev)'
    BY <1>2, <1>4, <1>7, <1>8 DEF CourseAt, InLine
  <1>10. OwnerAt(c)'
    BY <1>1, <1>4, <1>7, <1>8 DEF JAt, OwnerAt
  <1>11. JAt(c)'
    BY <1>1, <1>2, <1>4, <1>9, <1>10 DEF JAt
  <1>12. \A d \in Conns \ {c} : SameAt(d)
    BY DEF SameAt, BeConnected, socket, history, IInv, TypeOK
  <1>13. Silent /\ "up" \in {"accept", "up", "msg", "down"}
    BY <1>4 DEF Silent
  <1> QED BY ONLY <1>7, <1>11, <1>12, <1>13, Elsewhere, IInv, JInv, c \in Conns

LEMMA AcceptAcceptJ ==
    ASSUME IInv, JInv, NEW c \in Conns, AcceptAccept(c)
    PROVE  JInv'
  <1>1. JAt(c) /\ StartedAt(c)
    BY Facts DEF JInv
  <1>2. PICK ev \in Events : Ends(main, told[c], c, ev) /\ CourseAt(c, ev)
    BY <1>1 DEF JAt
  <1>3. /\ jobs' = Tail(jobs) /\ sstat'[c] = "connect"
        /\ overtaken' = IF binit[c] THEN overtaken ELSE overtaken \cup {c}
        /\ UNCHANGED <<accepting, main, binit, recv, acb, status, told, filed, refused>>
    BY DEF AcceptAccept, server, IInv, TypeOK
  <1>4. /\ Grows(jobs, jobs', c, {}) /\ Has(jobs, Job("accept", c))
        /\ Once(jobs, Job("accept", c)) => ~Has(jobs', Job("accept", c))
        /\ \A x : InFront(jobs, x, Job("accept", c)) /\ x # Job("accept", c) => ~Has(jobs', x)
    BY <1>3, JobTaken DEF AcceptAccept
  <1>5. /\ InLine(jobs, jobs', c) /\ Apart(jobs, jobs', c)
        /\ ~Has(jobs', Job("accept", c)) /\ ~Has(jobs', Job("beconnected", c))
    <2>1. Job("beconnected", c) # Job("accept", c)
      BY JobEq
    <2> QED BY <1>2, <1>4, <2>1 DEF CourseAt, Grows
  <1>6. /\ accepting[c] = "done" /\ ev = "accept" /\ Unopened(c) /\ ~Unopened(c)'
        /\ sstat[c] = "null"
    <2>1. accepting[c] = "done"
      BY <1>2, <1>4 DEF CourseAt, IInv, TypeOK
    <2> QED BY <1>2, <1>3, <1>4, <1>5, <2>1 DEF CourseAt, Unopened
  <1>7. CourseAt(c, ev)'
    BY <1>2, <1>3, <1>5, <1>6 DEF CourseAt, InLine
  <1>8. OwnerAt(c)'
    BY <1>1, <1>3, <1>6 DEF JAt, OwnerAt
  <1>9. JAt(c)'
    BY <1>1, <1>2, <1>3, <1>7, <1>8 DEF JAt
  <1>10. \A d \in Conns \ {c} : SameAt(d)
    BY DEF SameAt, AcceptAccept, server, IInv, TypeOK
  <1>11. Silent /\ "up" \in {"accept", "up", "msg", "down"}
    BY <1>3 DEF Silent
  <1> QED BY ONLY <1>5, <1>9, <1>10, <1>11, Elsewhere, IInv, JInv, c \in Conns

-----------------------------------------------------------------------------
(* Events of an open connection *)

LEMMA ConnectedJ ==
    ASSUME IInv, JInv, NEW c \in Conns, Connected(c)
    PROVE  JInv'
  <1>1. JAt(c) /\ jobs \in Seq(JobSet) /\ main \in Seq(MainSet)
    BY Facts DEF JInv
  <1>2. PICK ev \in Events : Ends(main, told[c], c, ev) /\ CourseAt(c, ev)
    BY <1>1 DEF JAt
  <1>3. /\ sstat[c] = "connect" /\ sstat'[c] = "common"
        /\ UNCHANGED <<accepting, jobs, binit, acb, told, filed, refused, overtaken>>
    BY DEF Connected, history, IInv, TypeOK
  <1>4. ev = "accept" /\ ~Unopened(c) /\ recv[c] = "none" /\ ~Has(jobs, Job("beconnected", c))
    BY <1>2, <1>3 DEF CourseAt
  <1>5. OwnerAt(c)'
    BY <1>1, <1>3, <1>4 DEF JAt, OwnerAt, Unopened
  <1>6. \A d \in Conns \ {c} : SameAt(d)
    BY DEF SameAt, Connected, history, IInv, TypeOK
  <1>7. Apart(jobs, jobs', c)
    BY <1>1, <1>3, GrowsNot DEF Grows
  <1>8. CASE c \in acb
    <2>1. status'[c] = "established" /\ main' = Append(main, Job("up", c))
      BY <1>8 DEF Connected, IInv, TypeOK
    <2>2. Ordered(main', told'[c], c) /\ Ends(main', told'[c], c, "up")
      <3>1. Ordered(main, told[c], c) /\ <<ev, "up">> \in Follows
            /\ "up" \in {"accept", "up", "msg", "down"}
        BY <1>1, <1>4 DEF JAt, Follows
      <3>2. Ordered(Append(main, Job("up", c)), told[c], c)
            /\ Ends(Append(main, Job("up", c)), told[c], c, "up")
        BY ONLY <1>1, <1>2, <3>1, StoryGrows, c \in Conns
      <3> QED BY <1>3, <2>1, <3>2
    <2>3. CourseAt(c, "up")'
      BY <1>2, <1>3, <1>4, <1>8, <2>1 DEF CourseAt, Unopened
    <2>4. JAt(c)'
      BY <1>5, <2>2, <2>3 DEF JAt, Events
    <2>5. Telling(c, "up") /\ "up" \in {"accept", "up", "msg", "down"}
      BY <1>3, <2>1 DEF Telling
    <2> QED BY ONLY <1>6, <1>7, <2>4, <2>5, Elsewhere, IInv, JInv, c \in Conns
  <1>9. CASE c \notin acb
    <2>1. UNCHANGED <<status, main, recv>>
      BY <1>9 DEF Connected
    <2>2. CourseAt(c, ev)'
      BY <1>2, <1>3, <1>4, <1>9, <2>1 DEF CourseAt, Unopened
    <2>3. JAt(c)'
      BY <1>1, <1>2, <1>3, <1>5, <2>1, <2>2 DEF JAt
    <2>4. Silent /\ "up" \in {"accept", "up", "msg", "down"}
      BY <1>3, <2>1 DEF Silent
    <2> QED BY ONLY <1>6, <1>7, <2>3, <2>4, Elsewhere, IInv, JInv, c \in Conns
  <1> QED BY <1>8, <1>9

LEMMA RecvHeadJ ==
    ASSUME IInv, JInv, NEW c \in Conns, RecvHead(c)
    PROVE  JInv'
  <1>1. JAt(c) /\ jobs \in Seq(JobSet)
    BY Facts DEF JInv
  <1>2. PICK ev \in Events : Ends(main, told[c], c, ev) /\ CourseAt(c, ev)
    BY <1>1 DEF JAt
  <1>3. /\ recv[c] # "none"
        /\ UNCHANGED <<accepting, jobs, main, sstat, binit, acb, status, told, filed, refused,
                      overtaken>>
    BY DEF RecvHead, server, history
  <1>4. CourseAt(c, ev)'
    BY <1>2, <1>3 DEF CourseAt, Unopened
  <1>5. OwnerAt(c)'
    BY <1>1, <1>3 DEF JAt, OwnerAt, Unopened
  <1>6. JAt(c)'
    BY <1>1, <1>2, <1>3, <1>4, <1>5 DEF JAt
  <1>7. \A d \in Conns \ {c} : SameAt(d)
    BY DEF SameAt, RecvHead, server, history, IInv, TypeOK
  <1>8. Silent /\ "up" \in {"accept", "up", "msg", "down"} /\ Apart(jobs, jobs', c)
    BY <1>1, <1>3, GrowsNot DEF Silent, Grows
  <1> QED BY ONLY <1>6, <1>7, <1>8, Elsewhere, IInv, JInv, c \in Conns

LEMMA RecvBodyJ ==
    ASSUME IInv, JInv, NEW c \in Conns, RecvBody(c)
    PROVE  JInv'
  <1>1. JAt(c) /\ jobs \in Seq(JobSet) /\ main \in Seq(MainSet)
    BY Facts DEF JInv
  <1>2. PICK ev \in Events : Ends(main, told[c], c, ev) /\ CourseAt(c, ev)
    BY <1>1 DEF JAt
  <1>3. /\ recv[c] # "none" /\ main' = Append(main, Job("msg", c))
        /\ UNCHANGED <<accepting, jobs, sstat, binit, acb, status, told, filed, refused, overtaken>>
    BY DEF RecvBody, server, history
  <1>4. ev \in {"up", "msg"} /\ ~Unopened(c)
    BY <1>2, <1>3 DEF CourseAt
  <1>5. Ordered(main', told'[c], c) /\ Ends(main', told'[c], c, "msg")
    <2>1. Ordered(main, told[c], c) /\ <<ev, "msg">> \in Follows
          /\ "msg" \in {"accept", "up", "msg", "down"}
      BY <1>1, <1>4 DEF JAt, Follows
    <2>2. Ordered(Append(main, Job("msg", c)), told[c], c)
          /\ Ends(Append(main, Job("msg", c)), told[c], c, "msg")
      BY ONLY <1>1, <1>2, <2>1, StoryGrows, c \in Conns
    <2> QED BY <1>3, <2>2
  <1>6. CourseAt(c, "msg")'
    BY <1>2, <1>3, <1>4 DEF CourseAt, Unopened
  <1>7. OwnerAt(c)'
    BY <1>1, <1>3 DEF JAt, OwnerAt, Unopened
  <1>8. JAt(c)'
    BY <1>5, <1>6, <1>7 DEF JAt, Events
  <1>9. \A d \in Conns \ {c} : SameAt(d)
    BY DEF SameAt, RecvBody, server, history, IInv, TypeOK
  <1>10. Apart(jobs, jobs', c) /\ Telling(c, "msg") /\ "msg" \in {"accept", "up", "msg", "down"}
    BY <1>1, <1>3, GrowsNot DEF Grows, Telling
  <1> QED BY ONLY <1>8, <1>9, <1>10, Elsewhere, IInv, JInv, c \in Conns

-----------------------------------------------------------------------------
LEMMA InitJInv == Init => JInv
  <1> SUFFICES ASSUME Init, NEW c \in Conns PROVE JAt(c)
    BY DEF JInv
  <1>1. \A x : ~Has(<<>>, x) /\ Once(<<>>, x)
    BY DEF Has, Once
  <1>2. InFront(<<>>, Job("beconnected", c), Job("accept", c))
    BY DEF InFront
  <1>3. PlacesOf(<<>>, c) = {0}
    BY DEF PlacesOf
  <1>4. Ordered(main, told[c], c)
    BY <1>3 DEF Ordered, Init
  <1>5. Ends(main, told[c], c, "none")
    <2>1. main = <<>> /\ told[c] = "none" /\ EventOf(<<>>, "none", 0) = "none"
      BY DEF Init, EventOf
    <2> QED BY ONLY <1>3, <2>1 DEF Ends
  <1>6. CourseAt(c, "none")
    BY <1>1, <1>2 DEF CourseAt, Init
  <1>7. OwnerAt(c)
    BY DEF OwnerAt, Init
  <1> QED BY <1>4, <1>5, <1>6, <1>7 DEF JAt, Events

LEMMA StepJInv == IInv /\ JInv /\ [Next]_vars => JInv'
  <1> SUFFICES ASSUME IInv, JInv, [Next]_vars PROVE JInv'
    OBVIOUS
  <1>1. CASE UNCHANGED vars
    BY <1>1 DEF vars, socket, server, history, JInv, JAt, Ordered, Ends, CourseAt, OwnerAt,
       Unopened
  <1>2. ASSUME NEW c \in Conns, ListenerStep(c) PROVE JInv'
    BY <1>2, AcceptJ, TellMainJ, FindsAccepterJ, TurnsAwayJ, PassJ DEF ListenerStep, ListenerLeaves
  <1>3. ASSUME NEW c \in Conns, MainStep(c) PROVE JInv'
    BY <1>3, MainRefusesJ, MainAdmitsJ, MainHearsJ, MainEndsJ DEF MainStep
  <1>4. ASSUME NEW c \in Conns, ServerJob(c) PROVE JInv'
    BY <1>4, BeConnectedJ, AcceptAcceptJ, PostinCloseJ, RealFiniJ, TimerStepsJ DEF ServerJob
  <1>5. ASSUME NEW c \in Conns, ServerEvent(c) PROVE JInv'
    BY <1>5, TimerStepsJ, ConnectedJ, ConnectTimeoutJ, RecvHeadJ, RecvBodyJ, RecvClosesJ
       DEF ServerEvent
  <1> QED BY <1>1, <1>2, <1>3, <1>4, <1>5, UserCloseJ DEF Next

\* The main thread hears of every accepted connection in order, whatever the
\* order of the three threads: accepted, up, its messages, down once, and then
\* nothing; and the last it will hear is what the server's thread knows
\* (socketserver.h: mainio_server_on_status, mainio_server_on_message).
THEOREM MainHearsInOrder == Spec => []EventsInOrder
  <1>1. JInv => EventsInOrder
    <2> SUFFICES ASSUME JInv, NEW c \in Conns
                 PROVE  /\ \A i, k \in Places(c) :
                             IsNext(c, i, k) => <<EventAt(c, i), EventAt(c, k)>> \in Follows
                        /\ \E i \in Places(c) :
                             /\ IsLast(c, i)
                             /\ status[c] = "established" <=> EventAt(c, i) \in {"up", "msg"}
      BY DEF EventsInOrder
    <2>1. /\ Places(c) = PlacesOf(main, c)
          /\ \A i : EventAt(c, i) = EventOf(main, told[c], i)
      BY DEF Places, PlacesOf, EventAt, EventOf
    <2>2. PICK ev \in Events : Ends(main, told[c], c, ev) /\ CourseAt(c, ev)
      BY DEF JInv, JAt
    <2>3. PICK i \in Places(c) : IsLast(c, i) /\ EventAt(c, i) = ev
      BY <2>1, <2>2 DEF Ends, IsLast
    <2>4. status[c] = "established" <=> EventAt(c, i) \in {"up", "msg"}
      BY <2>2, <2>3 DEF CourseAt
    <2>5. Ordered(main, told[c], c)
      BY DEF JInv, JAt
    <2>6. ASSUME NEW h \in Places(c), NEW k \in Places(c), IsNext(c, h, k)
          PROVE  <<EventAt(c, h), EventAt(c, k)>> \in Follows
      BY <2>1, <2>5, <2>6 DEF Ordered, IsNext
    <2> QED BY <2>3, <2>4, <2>6
  <1> QED BY <1>1, InitIInv, StepIInv, InitJInv, StepJInv, PTL DEF Spec

\* Whoever can still reach a server, its messages or its socket, finds it
\* alive: no message outlives the server through which its buffer is destroyed,
\* and a registered socket has its server.  Only refused connections are
\* excepted (socketserver.h:294-305, qyfhnet.h).
THEOREM ServersOutlive == Spec => []OwnerIsThere
  <1>1. IInv /\ JInv => OwnerIsThere
    <2> SUFFICES ASSUME IInv, JInv PROVE OwnerIsThere
      OBVIOUS
    <2>1. ASSUME NEW c \in Conns
          PROVE  /\ c \in acb => refs[c] > 0
                 /\ filed[c] \notin {"none", "dropped"} => refs[c] > 0
      <3>1. refs[c] = Holders(c) + Owned(jobs, c) /\ Owned(jobs, c) \in Nat
        BY Facts DEF BalancedAt
      <3> DEFINE f == One(filed[c] \notin {"none", "dropped"})
                 a == One(c \in acb)
                 t == One(tstat[c] # "null")
      <3>2. f \in {0, 1} /\ a \in {0, 1} /\ t \in {0, 1} /\ Holders(c) = f + a + t
        BY OneType DEF Holders
      <3>3. (c \in acb => a = 1) /\ (filed[c] \notin {"none", "dropped"} => f = 1)
        BY DEF One
      <3> HIDE DEF f, a, t
      <3>4. a = 1 \/ f = 1 => refs[c] > 0
        BY ONLY <3>1, <3>2
      <3> QED BY <3>3, <3>4
    <2>2. OwnerOutlivesMessages
      <3> SUFFICES ASSUME NEW c \in Conns \ refused,
                          recv[c] # "none" \/ \E i \in DOMAIN main : main[i] = Job("msg", c)
                   PROVE  refs[c] > 0
        BY DEF OwnerOutlivesMessages
      <3>1. PICK ev \in Events : Ends(main, told[c], c, ev) /\ CourseAt(c, ev)
        BY DEF JInv, JAt
      <3>2. CASE recv[c] # "none"
        BY <2>1, <3>1, <3>2 DEF CourseAt
      <3>3. CASE \E i \in DOMAIN main : main[i] = Job("msg", c)
        <4>1. PICK i \in DOMAIN main : main[i] = Job("msg", c)
          BY <3>3
        <4>2. main \in Seq(MainSet) /\ i \in Nat \ {0} /\ Job("msg", c).op = "msg"
              /\ Job("msg", c).on = c
          BY <4>1, LenProperties DEF IInv, TypeOK, MainSet, Job
        <4>3. /\ i \in PlacesOf(main, c) /\ EventOf(main, told[c], i) = "msg"
              /\ 0 \in PlacesOf(main, c) /\ EventOf(main, told[c], 0) = told[c]
          BY <4>1, <4>2 DEF PlacesOf, EventOf
        <4>4. Ordered(main, told[c], c) /\ OwnerAt(c)
          BY DEF JInv, JAt
        <4>5. "msg" = ev \/ <<"msg", ev>> \in Ahead
          BY <3>1, <4>2, <4>3, <4>4, EndsAhead
        <4>6. filed[c] # "none"
          BY <3>1, <4>4, <4>5 DEF Ahead, CourseAt, OwnerAt
        <4>7. <<told[c], "msg">> \in Ahead
          <5>1. 0 < i
            BY <4>2
          <5> QED BY ONLY <4>3, <4>4, <5>1 DEF Ordered
        <4>8. filed[c] # "dropped"
          BY <4>4, <4>7 DEF Ahead, OwnerAt
        <4> QED BY <2>1, <4>6, <4>8
      <3> QED BY <3>2, <3>3
    <2>3. ServedHasOwner
      <3>1. overtaken \subseteq refused
        BY DEF JInv, JAt, OwnerAt, IInv, TypeOK
      <3>2. ASSUME NEW c \in Conns \ overtaken, sstat[c] # "null"
            PROVE  binit[c] /\ c \in acb /\ refs[c] > 0
        <4>1. binit[c]
          BY <3>2 DEF JInv, JAt, OwnerAt
        <4>2. c \in acb
          BY <4>1, Facts DEF StartedAt
        <4> QED BY <2>1, <4>1, <4>2
      <3> QED BY <3>1, <3>2 DEF ServedHasOwner
    <2> QED BY <2>2, <2>3 DEF OwnerIsThere
  <1> QED BY <1>1, InitIInv, StepIInv, InitJInv, StepJInv, PTL DEF Spec

=============================================================================
