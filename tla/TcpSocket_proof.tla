-------------------------- MODULE TcpSocket_proof --------------------------
(***************************************************************************)
(* Proofs about TcpSocket for any set of sockets, any number of calls and  *)
(* buffers, and any behaviour of the network.                              *)
(*                                                                         *)
(* The inductive invariant IInv says, beside the counts, what the handlers *)
(* rely on without checking it: on_inter_accept_accept comes once and finds *)
(* the socket in null, a socket without a callback has nothing queued, and *)
(* one in null is registered nowhere.  Of a socket one real_listen or      *)
(* real_connect of which ran over another's, only this and that nothing is *)
(* counted too little is left.                                             *)
(*                                                                         *)
(* A handler is about one socket: Framed shows that the others keep what   *)
(* IInv says of them.                                                      *)
(***************************************************************************)
EXTENDS TcpSocket, SequenceTheorems, FiniteSetTheorems, TLAPS

JobSet == [op : {"open", "fini", "accept"}, on : Sockets]

Has(q, j) == \E i \in DOMAIN q : q[i] = j
Once(q, j) == \A i, k \in DOMAIN q : q[i] = j /\ q[k] = j => i = k

\* How many jobs of q are in the set K.
Where(q, K) == {i \in DOMAIN q : q[i] \in K}
Count(q, K) == Cardinality(Where(q, K))

\* The jobs of s; each holds a reference.
On(s) == {j \in JobSet : j.on = s}
\* The job with the descriptor of an accepter.
Passing(s) == {Job("accept", s)}
\* The jobs that open s.
Opening(s) == {Job("open", s), Job("accept", s)}

\* Events, registration and buffers are what m_status says.
WatchedAt(s) ==
    /\ status[s] = "null" => /\ s \notin fd \cup rarm \cup warm \cup registry
                             /\ sendq[s] = <<>> /\ recvq[s] = <<>>
    /\ status[s] # "common" /\ s \notin Listeners => s \notin rarm
    /\ status[s] # "common" /\ s \notin overlaid => sendq[s] = <<>> /\ recvq[s] = <<>>
    /\ status[s] = "common" /\ s \notin Listeners \cup overlaid =>
            (sendq[s] # <<>> => s \in warm) /\ (recvq[s] # <<>> <=> s \in rarm)

\* Before Init, between Init and real_fini, and after it.
LifeAt(s) ==
    /\ binit[s] <=> s \in cb
    /\ ~binit[s] => /\ status[s] = "null" \/ s \in revived
                    /\ type[s] = "null"
                    /\ sendq[s] = <<>> /\ recvq[s] = <<>>
    /\ s \in Accepters => type[s] \in {"null", "accepter"}
    /\ s \notin bound => /\ ~binit[s] /\ s \notin revived
                         /\ s \in Accepters => s \notin held
    /\ s \notin revived \cup overlaid => (told[s] = "open" <=> status[s] = "common")

\* An accepted connection is passed on once, and the socket is closed until then.
JobsAt(s) ==
    /\ s \notin bound => \A op : ~Has(jobs, Job(op, s))
    /\ Has(jobs, Job("accept", s)) => s \in Accepters /\ status[s] = "null"
    /\ Once(jobs, Job("accept", s))
    /\ Has(jobs, Job("open", s)) => s \notin Accepters

\* References and descriptors are counted.
Holders(s) == One(s \in held) + One(s \in registry)

CountedAt(s) ==
    /\ refs[s] >= Holders(s) + Count(jobs, On(s))
    /\ fds[s] >= One(s \in fd) + Count(jobs, Passing(s))
    /\ s \notin overlaid => /\ refs[s] = Holders(s) + Count(jobs, On(s))
                            /\ fds[s] = One(s \in fd) + Count(jobs, Passing(s))

\* What was asked is answered, waiting in the mailbox, or connecting.
Balanced(s) == Asked(s) = answered[s] + Count(jobs, Opening(s)) + One(status[s] = "connect")
AnsweredAt(s) == (binit[s] \/ s \notin bound) /\ s \notin overlaid => Balanced(s)

SocketAt(s) == WatchedAt(s) /\ LifeAt(s) /\ JobsAt(s) /\ CountedAt(s) /\ AnsweredAt(s)

IInv == TypeOK /\ \A s \in Sockets : SocketAt(s)

-----------------------------------------------------------------------------
(* Queues *)

LEMMA OneType == One(TRUE) = 1 /\ One(FALSE) = 0 /\ \A b : One(b) \in {0, 1}
  BY DEF One

LEMMA JobEq == \A op, d, oq, c : Job(op, d) = Job(oq, c) <=> op = oq /\ d = c
  <1>1. \A op, d : Job(op, d).op = op /\ Job(op, d).on = d
    BY DEF Job
  <1>2. \A op, d, oq, c : Job(op, d) = Job(oq, c) => op = oq /\ d = c
    BY <1>1
  <1> QED BY <1>2

LEMMA CountType ==
    ASSUME NEW J, NEW q \in Seq(J), NEW K
    PROVE  IsFiniteSet(Where(q, K)) /\ Count(q, K) \in Nat
  <1>1. Len(q) \in Nat /\ DOMAIN q = 1..Len(q)
    BY LenProperties
  <1>2. IsFiniteSet(1..Len(q))
    BY <1>1, FS_Interval
  <1>3. IsFiniteSet(Where(q, K))
    BY <1>1, <1>2, FS_Subset DEF Where
  <1> QED BY <1>3, FS_CardinalityType DEF Count

\* A job is taken from the front ...
LEMMA CountTaken ==
    ASSUME NEW J, NEW q \in Seq(J), q # <<>>, NEW K
    PROVE  Count(Tail(q), K) = Count(q, K) - One(Head(q) \in K)
  <1>1. /\ Tail(q) \in Seq(J)
        /\ Len(Tail(q)) = Len(q) - 1
        /\ \A i \in 1..Len(Tail(q)) : Tail(q)[i] = q[i + 1]
        /\ Head(q) = q[1]
    BY HeadTailProperties
  <1>2. /\ Len(q) \in Nat \ {0} /\ DOMAIN q = 1..Len(q)
        /\ DOMAIN Tail(q) = 1..(Len(q) - 1)
    BY <1>1, LenProperties, EmptySeq
  <1> DEFINE S == Where(Tail(q), K)
             T == Where(q, K) \ {1}
             f == [i \in S |-> i + 1]
  <1>3. ExistsBijection(S, T)
    <2>1. \A i \in S : i + 1 \in T
      BY <1>1, <1>2 DEF Where
    <2>2. \A j \in T : j - 1 \in S /\ (j - 1) + 1 = j
      BY <1>1, <1>2 DEF Where
    <2>3. \A a, b \in S : f[a] = f[b] => a = b
      BY <1>2 DEF Where
    <2>4. f \in [S -> T] /\ \A j \in T : \E i \in S : f[i] = j
      BY <2>1, <2>2
    <2>5. f \in Bijection(S, T)
      BY <2>3, <2>4 DEF Bijection, Injection, Surjection, IsInjective
    <2> QED BY <2>5 DEF ExistsBijection
  <1>4. IsFiniteSet(S) /\ IsFiniteSet(Where(q, K))
    BY <1>1, CountType
  <1>5. Cardinality(T) = Cardinality(S)
    <2> HIDE DEF S, T
    <2> QED BY <1>3, <1>4, FS_Bijection
  <1>6. 1 \in Where(q, K) <=> Head(q) \in K
    BY <1>1, <1>2 DEF Where
  <1>7. Cardinality(T) = Cardinality(Where(q, K)) - One(Head(q) \in K)
    <2>1. CASE Head(q) \in K
      BY <1>4, <1>6, <2>1, FS_RemoveElement DEF One
    <2>2. CASE Head(q) \notin K
      <3>1. T = Where(q, K)
        BY <1>6, <2>2
      <3>2. Cardinality(T) \in Nat /\ Cardinality(T) = Cardinality(Where(q, K))
        BY <1>4, <3>1, FS_CardinalityType
      <3>3. One(Head(q) \in K) = 0
        BY <2>2 DEF One
      <3> QED BY <3>2, <3>3
    <2> QED BY <2>1, <2>2
  <1> QED BY <1>5, <1>7 DEF Count

\* ... and added at the end.
LEMMA CountAdded ==
    ASSUME NEW J, NEW q \in Seq(J), NEW e \in J, NEW K
    PROVE  Count(Append(q, e), K) = Count(q, K) + One(e \in K)
  <1>1. /\ Len(q) \in Nat /\ DOMAIN q = 1..Len(q)
        /\ DOMAIN Append(q, e) = 1..(Len(q) + 1)
        /\ \A i \in 1..Len(q) : Append(q, e)[i] = q[i]
        /\ Append(q, e)[Len(q) + 1] = e
    BY AppendProperties, LenProperties
  <1>2. IsFiniteSet(Where(q, K)) /\ Count(q, K) \in Nat /\ Count(q, K) = Cardinality(Where(q, K))
    BY CountType DEF Count
  <1>3. CASE e \in K
    <2>1. Where(Append(q, e), K) = Where(q, K) \cup {Len(q) + 1} /\ Len(q) + 1 \notin Where(q, K)
      BY <1>1, <1>3 DEF Where
    <2>2. Cardinality(Where(q, K) \cup {Len(q) + 1}) = Cardinality(Where(q, K)) + 1
      BY <1>2, <2>1, FS_AddElement
    <2>3. One(e \in K) = 1
      BY <1>3 DEF One
    <2> QED BY <1>2, <2>1, <2>2, <2>3 DEF Count
  <1>4. CASE e \notin K
    <2>1. Where(Append(q, e), K) = Where(q, K)
      BY <1>1, <1>4 DEF Where
    <2>2. One(e \in K) = 0
      BY <1>4 DEF One
    <2> QED BY <1>2, <2>1, <2>2 DEF Count
  <1> QED BY <1>3, <1>4

LEMMA HasTaken ==
    ASSUME NEW J, NEW q \in Seq(J), q # <<>>
    PROVE  /\ Tail(q) \in Seq(J)
           /\ Has(q, Head(q))
           /\ \A x : Has(Tail(q), x) => Has(q, x)
           /\ \A x : Once(q, x) => Once(Tail(q), x)
           /\ Once(q, Head(q)) => ~Has(Tail(q), Head(q))
  <1>1. /\ Tail(q) \in Seq(J)
        /\ Len(Tail(q)) = Len(q) - 1
        /\ \A i \in 1..Len(Tail(q)) : Tail(q)[i] = q[i + 1]
        /\ Head(q) = q[1]
    BY HeadTailProperties
  <1>2. /\ Len(q) \in Nat \ {0} /\ DOMAIN q = 1..Len(q)
        /\ DOMAIN Tail(q) = 1..(Len(q) - 1)
    BY <1>1, LenProperties, EmptySeq
  <1>3. \A i \in DOMAIN Tail(q) : i \in Nat /\ i + 1 \in DOMAIN q /\ Tail(q)[i] = q[i + 1] /\ i + 1 # 1
    BY <1>1, <1>2
  <1>4. 1 \in DOMAIN q
    BY <1>2
  <1>5. Has(q, Head(q)) /\ \A x : Has(Tail(q), x) => Has(q, x)
    BY <1>1, <1>3, <1>4 DEF Has
  <1>6. ASSUME NEW x, Once(q, x) PROVE Once(Tail(q), x)
    BY <1>2, <1>3, <1>6 DEF Once
  <1>7. Once(q, Head(q)) => ~Has(Tail(q), Head(q))
    BY <1>1, <1>3, <1>4 DEF Once, Has
  <1> QED BY <1>1, <1>5, <1>6, <1>7

LEMMA HasAdded ==
    ASSUME NEW J, NEW q \in Seq(J), NEW e \in J
    PROVE  /\ Append(q, e) \in Seq(J)
           /\ \A x : Has(Append(q, e), x) => Has(q, x) \/ x = e
           /\ \A x : Once(q, x) /\ (x # e \/ ~Has(q, x)) => Once(Append(q, e), x)
  <1>1. /\ Append(q, e) \in Seq(J)
        /\ Len(q) \in Nat /\ DOMAIN q = 1..Len(q)
        /\ DOMAIN Append(q, e) = 1..(Len(q) + 1)
        /\ \A i \in 1..Len(q) : Append(q, e)[i] = q[i]
        /\ Append(q, e)[Len(q) + 1] = e
    BY AppendProperties, LenProperties
  <1>2. \A i \in DOMAIN Append(q, e) :
           \/ i \in DOMAIN q /\ Append(q, e)[i] = q[i]
           \/ i = Len(q) + 1 /\ Append(q, e)[i] = e
    BY <1>1
  <1>3. \A x : Has(Append(q, e), x) => Has(q, x) \/ x = e
    BY <1>2 DEF Has
  <1>4. ASSUME NEW x, Once(q, x), x # e \/ ~Has(q, x) PROVE Once(Append(q, e), x)
    BY <1>2, <1>4 DEF Once, Has
  <1> QED BY <1>1, <1>3, <1>4

-----------------------------------------------------------------------------
(* Steps that take or add a job of one socket *)

\* What the other sockets see of it: nothing.
Others(q, r, s) ==
    /\ r \in Seq(JobSet)
    /\ \A d : d # s => /\ \A op : Has(r, Job(op, d)) => Has(q, Job(op, d))
                       /\ \A op : Once(q, Job(op, d)) => Once(r, Job(op, d))
                       /\ Count(r, On(d)) = Count(q, On(d))
                       /\ Count(r, Passing(d)) = Count(q, Passing(d))
                       /\ Count(r, Opening(d)) = Count(q, Opening(d))

LEMMA OthersItself == \A q \in Seq(JobSet) : \A s : Others(q, q, s)
  BY DEF Others

LEMMA OthersFurther ==
    ASSUME NEW p, NEW q, NEW r, NEW s, Others(p, q, s), Others(q, r, s)
    PROVE  Others(p, r, s)
  BY DEF Others

\* Which jobs count for whom.
LEMMA JobCounts ==
    ASSUME NEW s \in Sockets, NEW op \in {"open", "fini", "accept"}
    PROVE  /\ Job(op, s) \in JobSet
           /\ \A d : Job(op, s) \in On(d) <=> d = s
           /\ \A d : Job(op, s) \in Passing(d) <=> op = "accept" /\ d = s
           /\ \A d : Job(op, s) \in Opening(d) <=> op # "fini" /\ d = s
  <1>1. Job(op, s) \in JobSet /\ Job(op, s).on = s
    BY DEF JobSet, Job
  <1> QED BY <1>1, JobEq DEF On, Passing, Opening

LEMMA JobTaken ==
    ASSUME NEW q \in Seq(JobSet), q # <<>>, NEW s \in Sockets,
           NEW op \in {"open", "fini", "accept"}, Head(q) = Job(op, s)
    PROVE  /\ Others(q, Tail(q), s)
           /\ Count(Tail(q), On(s)) = Count(q, On(s)) - 1
           /\ Count(Tail(q), Passing(s)) = Count(q, Passing(s)) - One(op = "accept")
           /\ Count(Tail(q), Opening(s)) = Count(q, Opening(s)) - One(op # "fini")
           /\ Has(q, Job(op, s))
           /\ \A x : Has(Tail(q), x) => Has(q, x)
           /\ \A x : Once(q, x) => Once(Tail(q), x)
           /\ Once(q, Job(op, s)) => ~Has(Tail(q), Job(op, s))
  <1>1. /\ Tail(q) \in Seq(JobSet)
        /\ Has(q, Job(op, s))
        /\ \A x : Has(Tail(q), x) => Has(q, x)
        /\ \A x : Once(q, x) => Once(Tail(q), x)
        /\ Once(q, Job(op, s)) => ~Has(Tail(q), Job(op, s))
    BY HasTaken
  <1>2. \A K : Count(Tail(q), K) = Count(q, K) - One(Job(op, s) \in K) /\ Count(q, K) \in Nat
    BY CountTaken, CountType
  <1>3. /\ \A d : One(Job(op, s) \in On(d)) = One(d = s)
        /\ \A d : One(Job(op, s) \in Passing(d)) = One(op = "accept" /\ d = s)
        /\ \A d : One(Job(op, s) \in Opening(d)) = One(op # "fini" /\ d = s)
    BY JobCounts DEF One
  <1>4. \A d : /\ Count(Tail(q), On(d)) = Count(q, On(d)) - One(d = s)
               /\ Count(Tail(q), Passing(d)) = Count(q, Passing(d)) - One(op = "accept" /\ d = s)
               /\ Count(Tail(q), Opening(d)) = Count(q, Opening(d)) - One(op # "fini" /\ d = s)
               /\ Count(q, On(d)) \in Nat /\ Count(q, Passing(d)) \in Nat
               /\ Count(q, Opening(d)) \in Nat
    BY <1>2, <1>3
  <1>5. ASSUME NEW d, d # s
        PROVE  /\ Count(Tail(q), On(d)) = Count(q, On(d))
               /\ Count(Tail(q), Passing(d)) = Count(q, Passing(d))
               /\ Count(Tail(q), Opening(d)) = Count(q, Opening(d))
    BY <1>4, <1>5 DEF One
  <1>6. Others(q, Tail(q), s)
    BY <1>1, <1>5 DEF Others
  <1>7. /\ One(s = s) = 1 /\ One(op = "accept" /\ s = s) = One(op = "accept")
        /\ One(op # "fini" /\ s = s) = One(op # "fini")
    BY DEF One
  <1> QED BY <1>1, <1>4, <1>6, <1>7

LEMMA JobAdded ==
    ASSUME NEW q \in Seq(JobSet), NEW s \in Sockets, NEW op \in {"open", "fini", "accept"}
    PROVE  /\ Others(q, Append(q, Job(op, s)), s)
           /\ Count(Append(q, Job(op, s)), On(s)) = Count(q, On(s)) + 1
           /\ Count(Append(q, Job(op, s)), Passing(s)) = Count(q, Passing(s)) + One(op = "accept")
           /\ Count(Append(q, Job(op, s)), Opening(s)) = Count(q, Opening(s)) + One(op # "fini")
           /\ \A x : Has(Append(q, Job(op, s)), x) => Has(q, x) \/ x = Job(op, s)
           /\ \A x : Once(q, x) /\ (x # Job(op, s) \/ ~Has(q, x)) => Once(Append(q, Job(op, s)), x)
  <1> DEFINE e == Job(op, s)
             r == Append(q, e)
  <1>1. /\ e \in JobSet
        /\ \A d : One(e \in On(d)) = One(d = s)
        /\ \A d : One(e \in Passing(d)) = One(op = "accept" /\ d = s)
        /\ \A d : One(e \in Opening(d)) = One(op # "fini" /\ d = s)
        /\ \A o, d : Job(o, d) = e => d = s
    BY JobCounts, JobEq DEF One
  <1> HIDE DEF e
  <1>2. /\ r \in Seq(JobSet)
        /\ \A x : Has(r, x) => Has(q, x) \/ x = e
        /\ \A x : Once(q, x) /\ (x # e \/ ~Has(q, x)) => Once(r, x)
    BY <1>1, HasAdded
  <1>3. \A K : Count(r, K) = Count(q, K) + One(e \in K) /\ Count(q, K) \in Nat
    BY <1>1, CountAdded, CountType
  <1> HIDE DEF r
  <1>4. \A d : /\ Count(r, On(d)) = Count(q, On(d)) + One(d = s)
               /\ Count(r, Passing(d)) = Count(q, Passing(d)) + One(op = "accept" /\ d = s)
               /\ Count(r, Opening(d)) = Count(q, Opening(d)) + One(op # "fini" /\ d = s)
               /\ Count(q, On(d)) \in Nat /\ Count(q, Passing(d)) \in Nat
               /\ Count(q, Opening(d)) \in Nat
    BY <1>1, <1>3
  <1>5. ASSUME NEW d, d # s
        PROVE  /\ Count(r, On(d)) = Count(q, On(d))
               /\ Count(r, Passing(d)) = Count(q, Passing(d))
               /\ Count(r, Opening(d)) = Count(q, Opening(d))
    BY <1>4, <1>5 DEF One
  <1>6. ASSUME NEW d, d # s
        PROVE  /\ \A o : Has(r, Job(o, d)) => Has(q, Job(o, d))
               /\ \A o : Once(q, Job(o, d)) => Once(r, Job(o, d))
    BY <1>1, <1>2, <1>6
  <1>7. Others(q, r, s)
    BY <1>2, <1>5, <1>6 DEF Others
  <1>8. /\ One(s = s) = 1 /\ One(op = "accept" /\ s = s) = One(op = "accept")
        /\ One(op # "fini" /\ s = s) = One(op # "fini")
    BY DEF One
  <1> QED BY <1>2, <1>4, <1>7, <1>8 DEF r, e

-----------------------------------------------------------------------------
(* A step that is about the socket s *)

Frame(s) ==
    \A d \in Sockets \ {s} :
        /\ type'[d] = type[d] /\ binit'[d] = binit[d] /\ status'[d] = status[d]
        /\ sendq'[d] = sendq[d] /\ recvq'[d] = recvq[d] /\ told'[d] = told[d]
        /\ refs'[d] = refs[d] /\ fds'[d] = fds[d]
        /\ answered'[d] = answered[d] /\ calls'[d].open = calls[d].open
        /\ d \in bound' <=> d \in bound
        /\ d \in cb' <=> d \in cb
        /\ d \in fd' <=> d \in fd
        /\ d \in rarm' <=> d \in rarm
        /\ d \in warm' <=> d \in warm
        /\ d \in registry' <=> d \in registry
        /\ d \in held' <=> d \in held
        /\ d \in revived' <=> d \in revived
        /\ d \in overlaid' <=> d \in overlaid

\* It is enough to look at s.
LEMMA Framed ==
    ASSUME IInv, NEW s \in Sockets, TypeOK', Frame(s), Others(jobs, jobs', s), SocketAt(s)'
    PROVE  IInv'
  <1>1. ASSUME NEW d \in Sockets, d # s PROVE SocketAt(d)'
    <2>1. WatchedAt(d) /\ LifeAt(d) /\ JobsAt(d) /\ CountedAt(d) /\ AnsweredAt(d)
      BY DEF IInv, SocketAt
    <2>2. /\ type'[d] = type[d] /\ binit'[d] = binit[d] /\ status'[d] = status[d]
          /\ sendq'[d] = sendq[d] /\ recvq'[d] = recvq[d] /\ told'[d] = told[d]
          /\ refs'[d] = refs[d] /\ fds'[d] = fds[d]
          /\ answered'[d] = answered[d] /\ calls'[d].open = calls[d].open
          /\ (d \in bound' <=> d \in bound) /\ (d \in cb' <=> d \in cb)
          /\ (d \in fd' <=> d \in fd) /\ (d \in rarm' <=> d \in rarm)
          /\ (d \in warm' <=> d \in warm) /\ (d \in registry' <=> d \in registry)
          /\ (d \in held' <=> d \in held) /\ (d \in revived' <=> d \in revived)
          /\ (d \in overlaid' <=> d \in overlaid)
      BY <1>1 DEF Frame
    <2>3. /\ \A op : Has(jobs', Job(op, d)) => Has(jobs, Job(op, d))
          /\ \A op : Once(jobs, Job(op, d)) => Once(jobs', Job(op, d))
          /\ Count(jobs', On(d)) = Count(jobs, On(d))
          /\ Count(jobs', Passing(d)) = Count(jobs, Passing(d))
          /\ Count(jobs', Opening(d)) = Count(jobs, Opening(d))
      BY <1>1 DEF Others
    <2>4. WatchedAt(d)'
      BY <2>1, <2>2 DEF WatchedAt
    <2>5. LifeAt(d)'
      BY <2>1, <2>2 DEF LifeAt
    <2>6. JobsAt(d)'
      BY <2>1, <2>2, <2>3 DEF JobsAt
    <2>7. CountedAt(d)'
      <3>1. /\ One(d \in held') = One(d \in held) /\ One(d \in registry') = One(d \in registry)
            /\ One(d \in fd') = One(d \in fd)
        BY <2>2 DEF One
      <3>3. Holders(d)' = Holders(d)
        BY <3>1 DEF Holders
      <3>2. On(d)' = On(d) /\ Passing(d)' = Passing(d)
        BY DEF On, Passing
      <3> QED BY <2>1, <2>2, <2>3, <3>1, <3>2, <3>3 DEF CountedAt
    <2>8. AnsweredAt(d)'
      <3>1. Asked(d)' = Asked(d) /\ Opening(d)' = Opening(d)
        BY <2>2 DEF Asked, One, Opening
      <3> QED BY <2>1, <2>2, <2>3, <3>1 DEF AnsweredAt, Balanced
    <2> QED BY <2>4, <2>5, <2>6, <2>7, <2>8 DEF SocketAt
  <1> QED BY <1>1 DEF IInv

\* What IInv says of the mailbox and of s.
LEMMA Facts ==
    ASSUME IInv, NEW s \in Sockets
    PROVE  /\ TypeOK /\ jobs \in Seq(JobSet)
           /\ WatchedAt(s) /\ LifeAt(s) /\ JobsAt(s) /\ CountedAt(s) /\ AnsweredAt(s)
           /\ Count(jobs, On(s)) \in Nat /\ Count(jobs, Passing(s)) \in Nat
           /\ Count(jobs, Opening(s)) \in Nat
           /\ refs[s] \in Nat /\ fds[s] \in Nat /\ answered[s] \in Nat
  <1>1. /\ TypeOK /\ jobs \in Seq(JobSet)
        /\ refs[s] \in Nat /\ fds[s] \in Nat /\ answered[s] \in Nat
    BY DEF IInv, TypeOK, JobSet
  <1> QED BY <1>1, CountType DEF IInv, SocketAt

LEMMA InitIInv == Init => IInv
  <1> SUFFICES ASSUME Init PROVE IInv
    OBVIOUS
  <1>1. TypeOK
    <2>1. jobs \in Seq([op : {"open", "fini", "accept"}, on : Sockets])
      BY EmptySeq DEF Init
    <2>2. held \subseteq Sockets
      BY UsesAssumption DEF Init, Sockets
    <2>3. \A X : <<>> \in Seq(X)
      BY EmptySeq
    <2>4. calls \in [Sockets -> [open : 0..MaxOpens, fini : 0..MaxFinis]]
      BY BoundsAssumption DEF Init
    <2>5. refs \in [Sockets -> Nat]
      BY DEF Init
    <2> QED BY <2>1, <2>2, <2>3, <2>4, <2>5 DEF Init, TypeOK
  <1>2. ASSUME NEW s \in Sockets PROVE SocketAt(s)
    <2>1. WatchedAt(s)
      BY DEF Init, WatchedAt
    <2>2. s \in Accepters => s \notin held
      BY UsesAssumption, KindsAssumption DEF Init
    <2>3. LifeAt(s)
      BY <2>2 DEF Init, LifeAt
    <2>4. \A x : ~Has(jobs, x) /\ Once(jobs, x)
      BY DEF Has, Once, Init
    <2>5. JobsAt(s)
      BY <2>4 DEF JobsAt
    <2>6. \A K : Count(jobs, K) = 0
      <3>1. \A K : Where(jobs, K) = {}
        BY DEF Where, Init
      <3> QED BY <3>1, FS_EmptySet DEF Count
    <2>7. CountedAt(s)
      BY <2>6 DEF Init, CountedAt, Holders, One
    <2>8. AnsweredAt(s)
      BY <2>6 DEF Init, AnsweredAt, Balanced, Asked, One
    <2> QED BY <2>1, <2>3, <2>5, <2>7, <2>8 DEF SocketAt
  <1> QED BY <1>1, <1>2 DEF IInv

LEMMA HoldersType == \A s : Holders(s) \in Nat /\ Holders(s)' \in Nat
  BY OneType DEF Holders

\* The count after a step, whatever it does to the holders and the jobs.
LEMMA Recounted ==
    ASSUME IInv, NEW s \in Sockets, jobs' \in Seq(JobSet),
           refs' = [refs EXCEPT ![s] = refs'[s]],
           refs'[s] = refs[s] + (Holders(s)' - Holders(s))
                                + (Count(jobs', On(s)) - Count(jobs, On(s)))
    PROVE  /\ refs'[s] >= Holders(s)' + Count(jobs', On(s))
           /\ s \notin overlaid => refs'[s] = Holders(s)' + Count(jobs', On(s))
           /\ refs' \in [Sockets -> Nat]
           /\ \A d \in Sockets \ {s} : refs'[d] = refs[d]
  <1>1. /\ refs[s] >= Holders(s) + Count(jobs, On(s))
        /\ s \notin overlaid => refs[s] = Holders(s) + Count(jobs, On(s))
        /\ Count(jobs, On(s)) \in Nat /\ refs \in [Sockets -> Nat] /\ refs[s] \in Nat
    BY Facts DEF CountedAt, TypeOK
  <1>2. Count(jobs', On(s)) \in Nat
    BY CountType
  <1>3. Holders(s) \in Nat /\ Holders(s)' \in Nat
    BY HoldersType
  <1>4. refs'[s] \in Int
    BY <1>1, <1>2, <1>3
  <1>5. /\ refs'[s] >= Holders(s)' + Count(jobs', On(s))
        /\ s \notin overlaid => refs'[s] = Holders(s)' + Count(jobs', On(s))
    BY <1>1, <1>2, <1>3, <1>4
  <1>6. refs'[s] \in Nat
    BY <1>2, <1>3, <1>4, <1>5
  <1> QED BY <1>1, <1>5, <1>6

\* A job of s that runs is taken from the mailbox.
LEMMA JobRuns ==
    ASSUME IInv, NEW s \in Sockets, NEW op \in {"open", "fini", "accept"}, Runs(op, s), Popped
    PROVE  /\ jobs' \in Seq(JobSet)
           /\ Others(jobs, jobs', s)
           /\ Count(jobs', On(s)) = Count(jobs, On(s)) - 1
           /\ Count(jobs', Passing(s)) = Count(jobs, Passing(s)) - One(op = "accept")
           /\ Count(jobs', Opening(s)) = Count(jobs, Opening(s)) - One(op # "fini")
           /\ \A x : Has(jobs', x) => Has(jobs, x)
           /\ Once(jobs', Job("accept", s))
           /\ s \in bound
           /\ op = "open" => s \notin Accepters /\ ~Has(jobs', Job("accept", s))
           /\ op = "accept" => /\ s \in Accepters /\ status[s] = "null"
                               /\ ~Has(jobs', Job("open", s)) /\ ~Has(jobs', Job("accept", s))
  <1>1. jobs \in Seq(JobSet) /\ jobs # <<>> /\ Head(jobs) = Job(op, s) /\ jobs' = Tail(jobs) /\ JobsAt(s)
    BY Facts DEF Runs, Popped
  <1>2. /\ Others(jobs, jobs', s)
        /\ Count(jobs', On(s)) = Count(jobs, On(s)) - 1
        /\ Count(jobs', Passing(s)) = Count(jobs, Passing(s)) - One(op = "accept")
        /\ Count(jobs', Opening(s)) = Count(jobs, Opening(s)) - One(op # "fini")
        /\ Has(jobs, Job(op, s))
        /\ \A x : Has(jobs', x) => Has(jobs, x)
        /\ \A x : Once(jobs, x) => Once(jobs', x)
        /\ Once(jobs, Job(op, s)) => ~Has(jobs', Job(op, s))
    BY <1>1, JobTaken
  <1>3. jobs' \in Seq(JobSet)
    BY <1>2 DEF Others
  <1> QED BY <1>1, <1>2, <1>3 DEF JobsAt

\* A user or the gate posts a job of s.
LEMMA JobPosted ==
    ASSUME IInv, NEW s \in Sockets, NEW op \in {"open", "fini"},
           jobs' = Append(jobs, Job(op, s))
    PROVE  /\ jobs' \in Seq(JobSet)
           /\ Others(jobs, jobs', s)
           /\ Count(jobs', On(s)) = Count(jobs, On(s)) + 1
           /\ Count(jobs', Passing(s)) = Count(jobs, Passing(s))
           /\ Count(jobs', Opening(s)) = Count(jobs, Opening(s)) + One(op = "open")
           /\ \A x : Has(jobs', x) => Has(jobs, x) \/ x = Job(op, s)
           /\ \A x : Once(jobs, x) /\ (x # Job(op, s) \/ ~Has(jobs, x)) => Once(jobs', x)
  <1>1. jobs \in Seq(JobSet) /\ Count(jobs, Passing(s)) \in Nat
    BY Facts
  <1>2. /\ Others(jobs, jobs', s)
        /\ Count(jobs', On(s)) = Count(jobs, On(s)) + 1
        /\ Count(jobs', Passing(s)) = Count(jobs, Passing(s)) + One(op = "accept")
        /\ Count(jobs', Opening(s)) = Count(jobs, Opening(s)) + One(op # "fini")
        /\ \A x : Has(jobs', x) => Has(jobs, x) \/ x = Job(op, s)
        /\ \A x : Once(jobs, x) /\ (x # Job(op, s) \/ ~Has(jobs, x)) => Once(jobs', x)
    BY <1>1, JobAdded
  <1>3. One(op = "accept") = 0 /\ One(op # "fini") = One(op = "open")
    BY DEF One
  <1> QED BY <1>1, <1>2, <1>3 DEF Others

-----------------------------------------------------------------------------
(* Kinds of steps *)

\* s lives on, or real_fini ends it.
Fined(s) ==
    /\ s \in cb
    /\ binit' = [binit EXCEPT ![s] = FALSE]
    /\ cb' = cb \ {s}
    /\ type' = [type EXCEPT ![s] = "null"]
    /\ bound' = bound

\* Jobs of s are taken or left, none is added.
JobsShrink(s) ==
    /\ Others(jobs, jobs', s)
    /\ \A x : Has(jobs', x) => Has(jobs, x)
    /\ Once(jobs', Job("accept", s))

LEMMA JobsLeft ==
    ASSUME IInv, NEW s \in Sockets, jobs' = jobs
    PROVE  /\ JobsShrink(s) /\ jobs' \in Seq(JobSet)
           /\ Count(jobs', On(s)) = Count(jobs, On(s)) - 0
           /\ Count(jobs', Passing(s)) = Count(jobs, Passing(s))
           /\ Count(jobs', Opening(s)) = Count(jobs, Opening(s)) - 0
  <1>1. /\ jobs \in Seq(JobSet) /\ Count(jobs, On(s)) \in Nat
        /\ Count(jobs, Opening(s)) \in Nat /\ Once(jobs, Job("accept", s))
    BY Facts DEF JobsAt
  <1>2. Others(jobs, jobs', s)
    BY <1>1, OthersItself
  <1> QED BY <1>1, <1>2 DEF JobsShrink

\* A close, with a job or in an event.
LEMMA Closed ==
    ASSUME IInv, NEW s \in Sockets, s \in bound,
           NEW drop \in {0, 1}, NEW bconnecting \in BOOLEAN, NEW opened \in {0, 1},
           CloseLink(s, bconnecting), ReleaseFrom(s, drop),
           UNCHANGED <<closing, held, calls>>,
           UNCHANGED life \/ Fined(s),
           UNCHANGED overlaid \/ (overlaid' = overlaid \cup {s} /\ s \notin Accepters),
           JobsShrink(s),
           Count(jobs', On(s)) = Count(jobs, On(s)) - drop,
           Count(jobs', Passing(s)) = Count(jobs, Passing(s)),
           Count(jobs', Opening(s)) = Count(jobs, Opening(s)) - opened,
           binit'[s] /\ s \notin overlaid' =>
               One(bconnecting) = One(status[s] = "connect") + opened
    PROVE  IInv'
  <1>1. /\ TypeOK /\ jobs \in Seq(JobSet) /\ jobs' \in Seq(JobSet)
        /\ WatchedAt(s) /\ LifeAt(s) /\ JobsAt(s) /\ CountedAt(s) /\ AnsweredAt(s)
        /\ Count(jobs, On(s)) \in Nat /\ Count(jobs, Passing(s)) \in Nat
        /\ Count(jobs, Opening(s)) \in Nat /\ answered[s] \in Nat
    BY Facts DEF JobsShrink, Others
  <1>2. /\ status' = [status EXCEPT ![s] = "null"]
        /\ net' = [net EXCEPT ![s] = "idle"]
        /\ fd' = fd \ {s} /\ rarm' = rarm \ {s} /\ warm' = warm \ {s}
        /\ registry' = registry \ {s}
        /\ fds' = [fds EXCEPT ![s] = @ - One(s \in fd)]
        /\ revived' = revived
    BY DEF CloseLink, CloseDescriptor, Unregister, CloseCallbacks, seen
  <1>3. /\ sendq' \in [Sockets -> Seq(SendBuffer)] /\ recvq' \in [Sockets -> Seq(RecvBuffer)]
        /\ told' \in [Sockets -> {"none", "open", "closed"}]
        /\ answered' \in [Sockets -> Nat]
        /\ sendq'[s] = <<>> /\ recvq'[s] = <<>>
        /\ s \notin revived \cup overlaid => told'[s] # "open"
        /\ s \in cb => answered'[s] = answered[s] + One(bconnecting)
        /\ \A d \in Sockets \ {s} :
              /\ sendq'[d] = sendq[d] /\ recvq'[d] = recvq[d]
              /\ told'[d] = told[d] /\ answered'[d] = answered[d]
    <2>1. CASE s \in cb
      <3>1. /\ sendq' = [sendq EXCEPT ![s] = <<>>] /\ recvq' = [recvq EXCEPT ![s] = <<>>]
            /\ told' = [told EXCEPT ![s] = "closed"]
            /\ answered' = [answered EXCEPT ![s] = @ + One(bconnecting)]
        BY <2>1 DEF CloseLink, CloseCallbacks
      <3>2. (\A X : <<>> \in Seq(X)) /\ One(bconnecting) \in Nat
        BY EmptySeq DEF One
      <3>3. /\ sendq \in [Sockets -> Seq(SendBuffer)] /\ recvq \in [Sockets -> Seq(RecvBuffer)]
            /\ told \in [Sockets -> {"none", "open", "closed"}] /\ answered \in [Sockets -> Nat]
        BY <1>1 DEF TypeOK
      <3> DEFINE n == One(bconnecting)
      <3>4. answered' = [answered EXCEPT ![s] = @ + n] /\ n \in Nat
        BY <3>1, <3>2
      <3> HIDE DEF n
      <3>5. /\ answered' \in [Sockets -> Nat] /\ answered'[s] = answered[s] + n
            /\ \A d \in Sockets \ {s} : answered'[d] = answered[d]
        BY ONLY <3>3, <3>4, s \in Sockets
      <3>6. answered'[s] = answered[s] + One(bconnecting)
        BY ONLY <3>5 DEF n
      <3>7. /\ sendq' \in [Sockets -> Seq(SendBuffer)] /\ recvq' \in [Sockets -> Seq(RecvBuffer)]
            /\ told' \in [Sockets -> {"none", "open", "closed"}]
            /\ sendq'[s] = <<>> /\ recvq'[s] = <<>> /\ told'[s] = "closed"
            /\ \A d \in Sockets \ {s} :
                  sendq'[d] = sendq[d] /\ recvq'[d] = recvq[d] /\ told'[d] = told[d]
        BY ONLY <3>1, <3>2, <3>3, s \in Sockets
      <3> QED BY ONLY <3>5, <3>6, <3>7
    <2>2. CASE s \notin cb
      <3>1. sendq' = sendq /\ recvq' = recvq /\ told' = told /\ answered' = answered
        BY <2>2 DEF CloseLink, CloseCallbacks, data, seen
      <3>2. ~binit[s]
        BY <1>1, <2>2 DEF LifeAt
      <3>3. s \notin revived \cup overlaid => told[s] # "open"
        BY <1>1, <3>2 DEF LifeAt, TypeOK
      <3> QED BY <1>1, <2>2, <3>1, <3>2, <3>3 DEF TypeOK, LifeAt
    <2> QED BY <2>1, <2>2
  <1>4. /\ refs'[s] >= Holders(s)' + Count(jobs', On(s))
        /\ s \notin overlaid => refs'[s] = Holders(s)' + Count(jobs', On(s))
        /\ refs' \in [Sockets -> Nat]
        /\ \A d \in Sockets \ {s} : refs'[d] = refs[d]
    <2> DEFINE r == One(s \in registry)
    <2>1. r \in {0, 1} /\ Holders(s) \in Nat /\ Holders(s)' = Holders(s) - r
      <3>1. One(s \in registry') = 0 /\ One(s \in registry) \in {0, 1} /\ One(s \in held) \in {0, 1}
        BY <1>2, OneType DEF One
      <3> QED BY <3>1, HoldersType DEF Holders
    <2>2. refs \in [Sockets -> Nat] /\ refs' = [refs EXCEPT ![s] = @ - drop - r]
      BY <1>1 DEF ReleaseFrom, TypeOK
    <2> HIDE DEF r
    <2>3. refs[s] \in Nat /\ refs'[s] = refs[s] - drop - r /\ refs' = [refs EXCEPT ![s] = refs'[s]]
      BY <2>2
    <2>4. refs'[s] = refs[s] + (Holders(s)' - Holders(s))
                               + (Count(jobs', On(s)) - Count(jobs, On(s)))
      BY <1>1, <2>1, <2>3
    <2> QED BY <1>1, <2>3, <2>4, Recounted
  <1>5. /\ fds' \in [Sockets -> Nat]
        /\ fds'[s] >= One(s \in fd') + Count(jobs', Passing(s))
        /\ s \notin overlaid => fds'[s] = One(s \in fd') + Count(jobs', Passing(s))
        /\ \A d \in Sockets \ {s} : fds'[d] = fds[d]
    <2>1. /\ fds[s] >= One(s \in fd) + Count(jobs, Passing(s))
          /\ s \notin overlaid => fds[s] = One(s \in fd) + Count(jobs, Passing(s))
          /\ fds \in [Sockets -> Nat] /\ One(s \in fd) \in {0, 1} /\ One(s \in fd') = 0
      BY <1>1, <1>2, OneType DEF CountedAt, TypeOK, One
    <2> DEFINE f == One(s \in fd)
               c == Count(jobs, Passing(s))
    <2>2. /\ f \in {0, 1} /\ c \in Nat /\ fds \in [Sockets -> Nat]
          /\ fds[s] >= f + c /\ (s \notin overlaid => fds[s] = f + c)
          /\ fds' = [fds EXCEPT ![s] = @ - f]
      BY <1>1, <1>2, <2>1
    <2> HIDE DEF f, c
    <2>3. /\ fds'[s] >= c /\ (s \notin overlaid => fds'[s] = c)
          /\ fds' \in [Sockets -> Nat] /\ \A d \in Sockets \ {s} : fds'[d] = fds[d]
      BY <2>2
    <2>4. fds'[s] >= 0 + Count(jobs', Passing(s)) /\ 0 + Count(jobs', Passing(s)) = c
      BY <2>2, <2>3 DEF c
    <2> QED BY <2>1, <2>3, <2>4
  <1>6. /\ binit' \in [Sockets -> BOOLEAN] /\ cb' \subseteq Sockets /\ bound' = bound
        /\ type' \in [Sockets -> {"null", "listener", "connecter", "accepter"}]
        /\ \A d \in Sockets \ {s} : /\ binit'[d] = binit[d] /\ type'[d] = type[d]
                                    /\ d \in cb' <=> d \in cb
        /\ binit'[s] <=> s \in cb'
        /\ ~binit'[s] => type'[s] = "null"
        /\ s \in Accepters => type'[s] \in {"null", "accepter"}
        /\ s \notin bound => ~binit'[s]
        /\ binit'[s] => binit[s] /\ s \in cb
    <2>1. CASE UNCHANGED life
      BY <1>1, <2>1 DEF life, TypeOK, LifeAt
    <2>2. CASE Fined(s)
      BY <1>1, <2>2 DEF Fined, TypeOK, LifeAt
    <2> QED BY <2>1, <2>2
  <1>15. /\ overlaid' \subseteq Listeners \cup Connecters /\ overlaid \subseteq overlaid'
         /\ \A d \in Sockets \ {s} : d \in overlaid' <=> d \in overlaid
    BY <1>1 DEF TypeOK, Sockets
  <1>7. TypeOK'
    BY <1>1, <1>2, <1>3, <1>4, <1>5, <1>6, <1>15 DEF TypeOK, JobSet
  <1>8. Frame(s)
    BY <1>1, <1>2, <1>3, <1>4, <1>5, <1>6, <1>15 DEF Frame, TypeOK
  <1>9. status'[s] = "null"
    BY <1>1, <1>2 DEF TypeOK
  <1>10. WatchedAt(s)'
    BY <1>2, <1>3, <1>9 DEF WatchedAt
  <1>11. LifeAt(s)'
    BY <1>1, <1>2, <1>3, <1>6, <1>9, <1>15 DEF LifeAt
  <1>12. JobsAt(s)'
    BY <1>1, <1>6, <1>9 DEF JobsAt, JobsShrink
  <1>13. CountedAt(s)'
    <2>1. On(s)' = On(s) /\ Passing(s)' = Passing(s)
      BY DEF On, Passing
    <2> QED BY <1>4, <1>5, <1>15, <2>1 DEF CountedAt
  <1>14. AnsweredAt(s)'
    <2> SUFFICES ASSUME binit'[s], s \notin overlaid' PROVE Balanced(s)'
      BY <1>6 DEF AnsweredAt
    <2>1. Balanced(s) /\ answered'[s] = answered[s] + One(bconnecting)
      BY <1>1, <1>3, <1>6, <1>15 DEF AnsweredAt
    <2>2. Asked(s)' = Asked(s) /\ Opening(s)' = Opening(s)
      BY <1>6 DEF Asked, Opening
    <2>3. One(status'[s] = "connect") = 0 /\ One(status[s] = "connect") \in {0, 1}
      BY <1>9, OneType DEF One
    <2>4. One(bconnecting) = One(status[s] = "connect") + opened
      OBVIOUS
    <2> QED BY <1>1, <2>1, <2>2, <2>3, <2>4 DEF Balanced
  <1> QED BY <1>7, <1>8, <1>10, <1>11, <1>12, <1>13, <1>14, Framed DEF SocketAt, JobsShrink

\* A job that only releases its reference, or ends a socket that is in null.
LEMMA Released ==
    ASSUME IInv, NEW s \in Sockets, NEW op \in {"open", "fini"},
           Runs(op, s), Popped, Dropped(s),
           UNCHANGED <<closing, overlaid, link, data, held, seen, calls>>,
           (UNCHANGED life /\ ~binit[s]) \/ (Fined(s) /\ status[s] = "null")
    PROVE  IInv'
  <1>1. /\ TypeOK /\ jobs \in Seq(JobSet)
        /\ WatchedAt(s) /\ LifeAt(s) /\ JobsAt(s) /\ CountedAt(s)
        /\ Count(jobs, On(s)) \in Nat /\ Count(jobs, Passing(s)) \in Nat
    BY Facts
  <1>2. /\ jobs' \in Seq(JobSet) /\ Others(jobs, jobs', s)
        /\ Count(jobs', On(s)) = Count(jobs, On(s)) - 1
        /\ Count(jobs', Passing(s)) = Count(jobs, Passing(s)) - One(op = "accept")
        /\ \A x : Has(jobs', x) => Has(jobs, x)
        /\ Once(jobs', Job("accept", s)) /\ s \in bound
    BY JobRuns
  <1>3. /\ refs'[s] >= Holders(s)' + Count(jobs', On(s))
        /\ s \notin overlaid => refs'[s] = Holders(s)' + Count(jobs', On(s))
        /\ refs' \in [Sockets -> Nat]
        /\ \A d \in Sockets \ {s} : refs'[d] = refs[d]
    <2>1. Holders(s)' = Holders(s) /\ Holders(s) \in Nat
      BY HoldersType DEF Holders, link
    <2>2. refs \in [Sockets -> Nat]
      BY <1>1 DEF TypeOK
    <2>3. /\ refs[s] \in Nat /\ refs'[s] = refs[s] - 1
          /\ refs' = [refs EXCEPT ![s] = refs'[s]]
      BY <2>2 DEF Dropped
    <2>4. Count(jobs, On(s)) \in Nat
      BY Facts
    <2>5. refs'[s] = refs[s] + (Holders(s)' - Holders(s))
                               + (Count(jobs', On(s)) - Count(jobs, On(s)))
      BY <1>2, <2>1, <2>3, <2>4
    <2> QED BY <1>2, <2>3, <2>5, Recounted
  <1>4. /\ fds'[s] >= One(s \in fd') + Count(jobs', Passing(s))
        /\ s \notin overlaid => fds'[s] = One(s \in fd') + Count(jobs', Passing(s))
    <2>1. One(op = "accept") = 0
      BY DEF One
    <2> QED BY <1>1, <1>2, <2>1 DEF CountedAt, link
  <1>5. /\ binit' \in [Sockets -> BOOLEAN] /\ cb' \subseteq Sockets /\ bound' = bound
        /\ type' \in [Sockets -> {"null", "listener", "connecter", "accepter"}]
        /\ \A d \in Sockets \ {s} : /\ binit'[d] = binit[d] /\ type'[d] = type[d]
                                    /\ d \in cb' <=> d \in cb
        /\ LifeAt(s)' /\ ~binit'[s]
    <2>1. CASE UNCHANGED life /\ ~binit[s]
      BY <1>1, <2>1 DEF life, TypeOK, LifeAt, link, data, seen
    <2>2. CASE Fined(s) /\ status[s] = "null"
      BY <1>1, <2>2 DEF Fined, TypeOK, LifeAt, WatchedAt, link, data, seen
    <2> QED BY <2>1, <2>2
  <1>6. TypeOK'
    BY <1>1, <1>2, <1>3, <1>5 DEF TypeOK, JobSet, link, data, seen
  <1>7. Frame(s)
    BY <1>3, <1>5 DEF Frame, link, data, seen
  <1>8. WatchedAt(s)'
    BY <1>1 DEF WatchedAt, link, data
  <1>9. JobsAt(s)'
    BY <1>1, <1>2, <1>5 DEF JobsAt, link
  <1>10. CountedAt(s)'
    <2>1. On(s)' = On(s) /\ Passing(s)' = Passing(s)
      BY DEF On, Passing
    <2> QED BY <1>3, <1>4, <2>1 DEF CountedAt
  <1>11. AnsweredAt(s)'
    BY <1>2, <1>5 DEF AnsweredAt
  <1> QED BY <1>2, <1>5, <1>6, <1>7, <1>8, <1>9, <1>10, <1>11, Framed DEF SocketAt

\* A call, or the sweep, that posts a job of s with a reference.
LEMMA Posted ==
    ASSUME IInv, NEW s \in Sockets, NEW op \in {"open", "fini"},
           jobs' = Append(jobs, Job(op, s)),
           refs' = [refs EXCEPT ![s] = @ + 1],
           UNCHANGED <<closing, overlaid, life, link, data, held, seen>>,
           calls' \in [Sockets -> [open : 0..MaxOpens, fini : 0..MaxFinis]],
           binit[s],
           op = "open" => s \notin Accepters,
           calls'[s].open = calls[s].open + One(op = "open"),
           \A d \in Sockets \ {s} : calls'[d].open = calls[d].open
    PROVE  IInv'
  <1>1. /\ TypeOK /\ jobs \in Seq(JobSet)
        /\ WatchedAt(s) /\ LifeAt(s) /\ JobsAt(s) /\ CountedAt(s) /\ AnsweredAt(s)
        /\ Count(jobs, Opening(s)) \in Nat /\ answered[s] \in Nat
    BY Facts
  <1>2. /\ jobs' \in Seq(JobSet) /\ Others(jobs, jobs', s)
        /\ Count(jobs', On(s)) = Count(jobs, On(s)) + 1
        /\ Count(jobs', Passing(s)) = Count(jobs, Passing(s))
        /\ Count(jobs', Opening(s)) = Count(jobs, Opening(s)) + One(op = "open")
        /\ \A x : Has(jobs', x) => Has(jobs, x) \/ x = Job(op, s)
        /\ \A x : Once(jobs, x) /\ (x # Job(op, s) \/ ~Has(jobs, x)) => Once(jobs', x)
    BY JobPosted
  <1>3. /\ refs'[s] >= Holders(s)' + Count(jobs', On(s))
        /\ s \notin overlaid => refs'[s] = Holders(s)' + Count(jobs', On(s))
        /\ refs' \in [Sockets -> Nat]
        /\ \A d \in Sockets \ {s} : refs'[d] = refs[d]
    <2>1. Holders(s)' = Holders(s) /\ Holders(s) \in Nat
      BY HoldersType DEF Holders, link
    <2>2. refs \in [Sockets -> Nat]
      BY <1>1 DEF TypeOK
    <2>3. /\ refs[s] \in Nat /\ refs'[s] = refs[s] + 1
          /\ refs' = [refs EXCEPT ![s] = refs'[s]]
      BY <2>2
    <2>4. Count(jobs, On(s)) \in Nat
      BY Facts
    <2>5. refs'[s] = refs[s] + (Holders(s)' - Holders(s))
                               + (Count(jobs', On(s)) - Count(jobs, On(s)))
      BY <1>2, <2>1, <2>3, <2>4
    <2> QED BY <1>2, <2>3, <2>5, Recounted
  <1>4. TypeOK'
    BY <1>1, <1>2, <1>3 DEF TypeOK, JobSet, life, link, data, seen
  <1>5. Frame(s)
    BY <1>3 DEF Frame, life, link, data, seen
  <1>6. WatchedAt(s)' /\ LifeAt(s)'
    BY <1>1 DEF WatchedAt, LifeAt, life, link, data, seen
  <1>7. JobsAt(s)'
    <2>1. s \in bound
      BY <1>1 DEF LifeAt
    <2>2. Job("accept", s) # Job(op, s) /\ (Job("open", s) = Job(op, s) <=> op = "open")
      BY JobEq
    <2>3. /\ Has(jobs', Job("accept", s)) => Has(jobs, Job("accept", s))
          /\ Once(jobs', Job("accept", s))
      BY <1>1, <1>2, <2>2 DEF JobsAt
    <2>4. Has(jobs', Job("open", s)) => s \notin Accepters
      BY <1>1, <1>2, <2>2 DEF JobsAt
    <2> QED BY <1>1, <2>1, <2>3, <2>4 DEF JobsAt, life, link
  <1>8. CountedAt(s)'
    <2>1. On(s)' = On(s) /\ Passing(s)' = Passing(s)
      BY DEF On, Passing
    <2>2. /\ fds'[s] >= One(s \in fd') + Count(jobs', Passing(s))
          /\ s \notin overlaid => fds'[s] = One(s \in fd') + Count(jobs', Passing(s))
      BY <1>1, <1>2 DEF CountedAt, link
    <2> QED BY <1>3, <2>1, <2>2 DEF CountedAt
  <1>9. AnsweredAt(s)'
    <2> SUFFICES ASSUME s \notin overlaid PROVE Balanced(s)'
      BY DEF AnsweredAt
    <2>1. Balanced(s) /\ s \in bound
      BY <1>1 DEF AnsweredAt, LifeAt
    <2>2. Asked(s)' = Asked(s) + One(op = "open")
      <3>1. CASE s \in Accepters
        <4>1. One(op = "open") = 0 /\ One(s \in bound) = 1 /\ bound' = bound
          BY <2>1, <3>1 DEF One, life
        <4> QED BY <3>1, <4>1 DEF Asked
      <3>2. CASE s \notin Accepters
        BY <3>2 DEF Asked
      <3> QED BY <3>1, <3>2
    <2>3. /\ One(op = "open") \in {0, 1} /\ One(status[s] = "connect") \in {0, 1}
          /\ status' = status /\ answered' = answered /\ Opening(s)' = Opening(s)
      BY OneType DEF link, seen, Opening
    <2> QED BY <1>1, <1>2, <2>1, <2>2, <2>3 DEF Balanced
  <1> QED BY <1>2, <1>4, <1>5, <1>6, <1>7, <1>8, <1>9, Framed DEF SocketAt

\* A step that neither asks nor answers.
LEMMA AnswersLeft ==
    ASSUME IInv, NEW s \in Sockets,
           UNCHANGED <<jobs, status, answered, calls, overlaid>>,
           UNCHANGED <<binit, bound>> \/ (s \notin bound /\ s \notin Accepters)
    PROVE  AnsweredAt(s)'
  <1>1. AnsweredAt(s)
    BY Facts
  <1>2. Asked(s)' = Asked(s) /\ Opening(s)' = Opening(s)
    BY DEF Asked, Opening
  <1> QED BY <1>1, <1>2 DEF AnsweredAt, Balanced

\* A step that touches neither the jobs, nor the holders, nor the descriptor.
LEMMA Served ==
    ASSUME IInv, NEW s \in Sockets, TypeOK', Frame(s),
           UNCHANGED <<jobs, refs, held, registry, fd, fds, overlaid>>,
           bound \subseteq bound',
           status'[s] = status[s] \/ (status[s] # "null" /\ status'[s] # "null"),
           WatchedAt(s)', LifeAt(s)', AnsweredAt(s)'
    PROVE  IInv'
  <1>1. Others(jobs, jobs', s) /\ JobsAt(s) /\ CountedAt(s)
    BY Facts, OthersItself
  <1>2. JobsAt(s)'
    BY <1>1 DEF JobsAt
  <1>3. CountedAt(s)'
    <2>1. On(s)' = On(s) /\ Passing(s)' = Passing(s)
      BY DEF On, Passing
    <2>2. Holders(s)' = Holders(s)
      BY DEF Holders
    <2> QED BY <1>1, <2>1, <2>2 DEF CountedAt
  <1> QED BY <1>1, <1>2, <1>3, Framed DEF SocketAt

\* An opening job that succeeds: the reference of the job becomes that of the
\* registry.
LEMMA Opened ==
    ASSUME IInv, NEW s \in Sockets, NEW op \in {"open", "accept"}, Runs(op, s), Popped,
           TypeOK', Frame(s), UNCHANGED <<binit, bound, refs, held, calls>>, Overlays(s),
           registry' = registry \cup {s}, fd' = fd \cup {s},
           fds'[s] = fds[s] + One(op = "open"),
           op = "open" => binit[s],
           binit[s] => answered'[s] + One(status'[s] = "connect") = answered[s] + 1,
           WatchedAt(s)', LifeAt(s)'
    PROVE  IInv'
  <1>1. /\ TypeOK /\ jobs \in Seq(JobSet)
        /\ WatchedAt(s) /\ JobsAt(s) /\ CountedAt(s) /\ AnsweredAt(s)
        /\ Count(jobs, On(s)) \in Nat /\ Count(jobs, Passing(s)) \in Nat
        /\ Count(jobs, Opening(s)) \in Nat /\ answered[s] \in Nat
        /\ refs[s] \in Nat /\ fds[s] \in Nat
    BY Facts
  <1>2. /\ Others(jobs, jobs', s)
        /\ Count(jobs', On(s)) = Count(jobs, On(s)) - 1
        /\ Count(jobs', Passing(s)) = Count(jobs, Passing(s)) - One(op = "accept")
        /\ Count(jobs', Opening(s)) = Count(jobs, Opening(s)) - One(op # "fini")
        /\ \A x : Has(jobs', x) => Has(jobs, x)
        /\ Once(jobs', Job("accept", s)) /\ ~Has(jobs', Job("accept", s))
        /\ s \in bound
    BY JobRuns
  <1>3. JobsAt(s)'
    BY <1>1, <1>2 DEF JobsAt
  <1>4. /\ s \in overlaid => s \in overlaid'
        /\ s \notin overlaid' => s \notin overlaid /\ status[s] = "null"
    BY DEF Overlays
  <1>5. CountedAt(s)'
    <2>1. On(s)' = On(s) /\ Passing(s)' = Passing(s)
      BY DEF On, Passing
    <2> DEFINE f == One(s \in fd)
               g == One(s \in registry)
    <2>2. /\ f \in {0, 1} /\ g \in {0, 1}
          /\ s \notin overlaid' => f = 0 /\ g = 0
      BY <1>1, <1>4, OneType DEF WatchedAt, One
    <2>3. Holders(s)' = Holders(s) + 1 - g /\ Holders(s) \in Nat
      <3>1. One(s \in registry') = 1 /\ One(s \in held) \in {0, 1}
        BY OneType DEF One
      <3> QED BY <2>2, <3>1 DEF Holders
    <2>4. One(s \in fd') = 1
      BY DEF One
    <2>5. /\ refs[s] >= Holders(s) + Count(jobs, On(s))
          /\ s \notin overlaid' => refs[s] = Holders(s) + Count(jobs, On(s))
          /\ fds[s] >= f + Count(jobs, Passing(s))
          /\ s \notin overlaid' => fds[s] = f + Count(jobs, Passing(s))
      BY <1>1, <1>4 DEF CountedAt
    <2> HIDE DEF f, g
    <2>6. /\ refs'[s] >= Holders(s)' + Count(jobs', On(s))
          /\ s \notin overlaid' => refs'[s] = Holders(s)' + Count(jobs', On(s))
      BY <1>1, <1>2, <2>2, <2>3, <2>5
    <2>7. /\ fds'[s] >= 1 + Count(jobs', Passing(s))
          /\ s \notin overlaid' => fds'[s] = 1 + Count(jobs', Passing(s))
      <3>2. CASE op = "open"
        <4>1. One(op = "open") = 1 /\ One(op = "accept") = 0
          BY <3>2 DEF One
        <4> QED BY <1>1, <1>2, <2>2, <2>5, <4>1
      <3>3. CASE op = "accept"
        <4>1. One(op = "open") = 0 /\ One(op = "accept") = 1
          BY <3>3 DEF One
        <4>2. f = 0 /\ s \notin overlaid
          <5>1. status[s] = "null" /\ s \in Accepters
            BY <3>3, JobRuns
          <5> QED BY <1>1, <5>1, KindsAssumption DEF WatchedAt, TypeOK, f, One
        <4> QED BY <1>1, <1>2, <2>5, <4>1, <4>2 DEF CountedAt
      <3> QED BY <3>2, <3>3
    <2> QED BY <2>1, <2>4, <2>6, <2>7 DEF CountedAt
  <1>6. AnsweredAt(s)'
    <2> SUFFICES ASSUME binit[s], s \notin overlaid' PROVE Balanced(s)'
      BY <1>2 DEF AnsweredAt
    <2>1. Balanced(s) /\ One(status[s] = "connect") = 0
      BY <1>1, <1>4 DEF AnsweredAt, One
    <2>2. Asked(s)' = Asked(s) /\ Opening(s)' = Opening(s) /\ One(op # "fini") = 1
      BY DEF Asked, Opening, One
    <2>3. One(status'[s] = "connect") \in {0, 1} /\ answered'[s] \in Nat
      <3>1. answered'[s] \in Nat
        BY ONLY TypeOK', s \in Sockets DEF TypeOK
      <3> QED BY <3>1, OneType
    <2>4. answered'[s] + One(status'[s] = "connect") = answered[s] + 1
      OBVIOUS
    <2> QED BY ONLY <1>1, <1>2, <2>1, <2>2, <2>3, <2>4 DEF Balanced
  <1> QED BY <1>2, <1>3, <1>5, <1>6, Framed DEF SocketAt

\* A step no part of IInv notices.
LEMMA Quiet ==
    ASSUME IInv, TypeOK',
           UNCHANGED <<jobs, registry, type, binit, bound, cb, status, fd, fds, rarm, warm,
                       sendq, recvq, refs, held, told, answered, overlaid, revived>>,
           \A s \in Sockets : calls'[s].open = calls[s].open
    PROVE  IInv'
  <1>1. ASSUME NEW s \in Sockets PROVE SocketAt(s)'
    <2>1. WatchedAt(s) /\ LifeAt(s) /\ JobsAt(s) /\ CountedAt(s) /\ AnsweredAt(s)
      BY Facts
    <2>2. /\ On(s)' = On(s) /\ Passing(s)' = Passing(s) /\ Holders(s)' = Holders(s)
          /\ Opening(s)' = Opening(s) /\ Asked(s)' = Asked(s)
      BY DEF On, Passing, Holders, Opening, Asked
    <2>3. WatchedAt(s)' /\ LifeAt(s)' /\ JobsAt(s)' /\ CountedAt(s)' /\ AnsweredAt(s)'
      BY <2>1, <2>2 DEF WatchedAt, LifeAt, JobsAt, CountedAt, AnsweredAt, Balanced
    <2> QED BY <2>3 DEF SocketAt
  <1> QED BY <1>1 DEF IInv

-----------------------------------------------------------------------------
(* Calls of users, and the sweep *)

LEMMA InitSocketStep ==
    ASSUME IInv, NEW s \in Sockets, InitSocket(s)
    PROVE  IInv'
  <1>1. TypeOK /\ WatchedAt(s) /\ LifeAt(s)
    BY Facts
  <1>2. /\ s \notin Accepters /\ s \notin bound /\ status[s] = "null" /\ s \notin revived
        /\ UNCHANGED <<jobs, closing, overlaid, link, data, count, seen, calls>>
        /\ bound' = bound \cup {s} /\ cb' = cb \cup {s}
        /\ type' = [type EXCEPT ![s] = Kind(s)]
        /\ binit' = [binit EXCEPT ![s] = TRUE]
    BY <1>1 DEF InitSocket, InitAccepts, LifeAt
  <1>3. TypeOK'
    BY <1>1, <1>2 DEF TypeOK, Kind, link, data, count, seen
  <1>4. Frame(s)
    BY <1>1, <1>2 DEF TypeOK, Frame, link, data, count, seen
  <1>5. WatchedAt(s)'
    BY <1>1, <1>2 DEF WatchedAt, link, data
  <1>6. LifeAt(s)'
    BY <1>1, <1>2 DEF TypeOK, LifeAt, link, data, count, seen
  <1>7. AnsweredAt(s)'
    BY <1>2, AnswersLeft DEF link, seen
  <1> QED BY <1>2, <1>3, <1>4, <1>5, <1>6, <1>7, Served DEF link, count

LEMMA OpenStep ==
    ASSUME IInv, NEW s \in Sockets, Open(s)
    PROVE  IInv'
  <1>1. TypeOK /\ LifeAt(s)
    BY Facts
  <1>2. /\ calls[s].open \in 0..MaxOpens /\ calls[s].open < MaxOpens
        /\ binit[s] /\ status[s] = "null"
        /\ s \notin Accepters
    BY <1>1 DEF Open, TypeOK, LifeAt
  <1>3. calls' \in [Sockets -> [open : 0..MaxOpens, fini : 0..MaxFinis]]
    <2>1. /\ calls \in [Sockets -> [open : 0..MaxOpens, fini : 0..MaxFinis]]
          /\ calls' = [calls EXCEPT ![s].open = @ + 1]
      BY <1>1 DEF Open, TypeOK
    <2>2. calls[s].open + 1 \in 0..MaxOpens
      BY <1>2, BoundsAssumption
    <2>3. [calls[s] EXCEPT !.open = @ + 1] \in [open : 0..MaxOpens, fini : 0..MaxFinis]
      BY <2>1, <2>2
    <2> QED BY <2>1, <2>3
  <1>4. /\ calls'[s].open = calls[s].open + One("open" = "open")
        /\ \A d \in Sockets \ {s} : calls'[d].open = calls[d].open
    BY <1>1 DEF Open, TypeOK, One
  <1>5. "open" \in {"open", "fini"}
    OBVIOUS
  <1> QED BY <1>2, <1>3, <1>4, <1>5, Posted DEF Open

LEMMA FiniStep ==
    ASSUME IInv, NEW s \in Sockets, Fini(s)
    PROVE  IInv'
  <1>1. TypeOK
    BY Facts
  <1>2. calls[s].fini \in 0..MaxFinis /\ calls[s].fini < MaxFinis
    BY <1>1 DEF Fini, TypeOK
  <1>3. calls' \in [Sockets -> [open : 0..MaxOpens, fini : 0..MaxFinis]]
    <2>1. /\ calls \in [Sockets -> [open : 0..MaxOpens, fini : 0..MaxFinis]]
          /\ calls' = [calls EXCEPT ![s].fini = @ + 1]
      BY <1>1 DEF Fini, TypeOK
    <2>2. calls[s].fini + 1 \in 0..MaxFinis
      BY <1>2, BoundsAssumption
    <2>3. [calls[s] EXCEPT !.fini = @ + 1] \in [open : 0..MaxOpens, fini : 0..MaxFinis]
      BY <2>1, <2>2
    <2> QED BY <2>1, <2>3
  <1>4. "fini" \in {"open", "fini"} /\ "fini" # "open"
    OBVIOUS
  <1>5. /\ calls'[s].open = calls[s].open + One("fini" = "open")
        /\ \A d \in Sockets \ {s} : calls'[d].open = calls[d].open
    BY <1>1 DEF Fini, TypeOK, One
  <1> QED BY <1>3, <1>4, <1>5, Posted DEF Fini

LEMMA SweepStep ==
    ASSUME IInv, NEW s \in Sockets, Sweep(s)
    PROVE  IInv'
  <1>1. calls' \in [Sockets -> [open : 0..MaxOpens, fini : 0..MaxFinis]]
    BY Facts DEF Sweep, TypeOK
  <1>2. "fini" \in {"open", "fini"} /\ "fini" # "open"
    OBVIOUS
  <1>3. /\ calls'[s].open = calls[s].open + One("fini" = "open")
        /\ \A d \in Sockets \ {s} : calls'[d].open = calls[d].open
    BY Facts DEF Sweep, TypeOK, One
  <1> QED BY <1>1, <1>2, <1>3, Posted DEF Sweep

LEMMA UserReleaseStep ==
    ASSUME IInv, NEW s \in Sockets, UserRelease(s)
    PROVE  IInv'
  <1>1. /\ TypeOK /\ jobs \in Seq(JobSet)
        /\ WatchedAt(s) /\ LifeAt(s) /\ JobsAt(s) /\ CountedAt(s) /\ AnsweredAt(s)
        /\ Count(jobs, On(s)) \in Nat /\ refs[s] \in Nat
    BY Facts
  <1>2. /\ s \in held /\ held' = held \ {s}
        /\ refs' = [refs EXCEPT ![s] = @ - 1]
        /\ UNCHANGED <<jobs, closing, overlaid, life, link, data, seen, calls>>
    BY DEF UserRelease
  <1>3. Holders(s)' = Holders(s) - 1 /\ Holders(s) \in Nat
    <2>1. One(s \in held) = 1 /\ One(s \in held') = 0 /\ One(s \in registry) \in {0, 1}
          /\ registry' = registry
      BY <1>2, OneType DEF One, link
    <2> QED BY <2>1 DEF Holders
  <1>4. /\ refs'[s] >= Holders(s)' + Count(jobs', On(s))
        /\ s \notin overlaid => refs'[s] = Holders(s)' + Count(jobs', On(s))
        /\ refs' \in [Sockets -> Nat]
        /\ \A d \in Sockets \ {s} : refs'[d] = refs[d]
    <2>1. refs \in [Sockets -> Nat]
      BY <1>1 DEF TypeOK
    <2>2. refs'[s] = refs[s] - 1 /\ refs' = [refs EXCEPT ![s] = refs'[s]]
      BY <1>2, <2>1
    <2>3. refs'[s] = refs[s] + (Holders(s)' - Holders(s))
                             + (Count(jobs', On(s)) - Count(jobs, On(s)))
      BY <1>1, <1>2, <1>3, <2>2
    <2> QED BY <1>1, <1>2, <2>2, <2>3, Recounted
  <1>5. TypeOK'
    BY <1>1, <1>2, <1>4 DEF TypeOK, life, link, data, seen
  <1>6. Frame(s)
    BY <1>2, <1>4 DEF Frame, life, link, data, seen
  <1>7. WatchedAt(s)' /\ LifeAt(s)' /\ JobsAt(s)'
    BY <1>1, <1>2 DEF WatchedAt, LifeAt, JobsAt, life, link, data, seen
  <1>8. CountedAt(s)'
    <2>1. On(s)' = On(s) /\ Passing(s)' = Passing(s)
      BY DEF On, Passing
    <2> QED BY <1>1, <1>2, <1>4, <2>1 DEF CountedAt, link
  <1>9. Others(jobs, jobs', s)
    BY <1>1, <1>2, OthersItself
  <1>10. AnsweredAt(s)'
    BY <1>2, AnswersLeft DEF life, link, seen
  <1> QED BY <1>5, <1>6, <1>7, <1>8, <1>9, <1>10, Framed DEF SocketAt

LEMMA AsyncSendStep ==
    ASSUME IInv, NEW s \in Sockets, NEW b \in SendBuffer, AsyncSend(s, b)
    PROVE  IInv'
  <1>1. TypeOK /\ WatchedAt(s) /\ LifeAt(s)
    BY Facts
  <1>2. /\ status[s] = "common" /\ type[s] # "null"
        /\ warm' = IF sendq[s] = <<>> THEN warm \cup {s} ELSE warm
        /\ sendq' = [sendq EXCEPT ![s] = Append(@, b)]
        /\ UNCHANGED <<jobs, closing, overlaid, life, status, fd, fds, rarm, registry, net,
                       recvq, count, seen, calls>>
    BY DEF AsyncSend
  <1>3. sendq' \in [Sockets -> Seq(SendBuffer)]
    BY <1>1, <1>2, AppendProperties DEF TypeOK
  <1>4. TypeOK'
    BY <1>1, <1>2, <1>3 DEF TypeOK, life, count, seen
  <1>5. Frame(s)
    BY <1>1, <1>2 DEF TypeOK, Frame, life, count, seen
  <1>6. WatchedAt(s)'
    BY <1>1, <1>2 DEF WatchedAt
  <1>7. LifeAt(s)'
    BY <1>1, <1>2 DEF LifeAt, life, count, seen
  <1>8. AnsweredAt(s)'
    BY <1>2, AnswersLeft DEF life, seen
  <1> QED BY <1>2, <1>4, <1>5, <1>6, <1>7, <1>8, Served DEF life, count

LEMMA AsyncRecvStep ==
    ASSUME IInv, NEW s \in Sockets, NEW b \in RecvBuffer, AsyncRecv(s, b)
    PROVE  IInv'
  <1>1. TypeOK /\ WatchedAt(s) /\ LifeAt(s)
    BY Facts
  <1>2. /\ status[s] = "common" /\ type[s] # "null"
        /\ rarm' = IF recvq[s] = <<>> THEN rarm \cup {s} ELSE rarm
        /\ recvq' = [recvq EXCEPT ![s] = Append(@, b)]
        /\ UNCHANGED <<jobs, closing, overlaid, life, status, fd, fds, warm, registry, net,
                       sendq, count, seen, calls>>
    BY DEF AsyncRecv
  <1>3. recvq' \in [Sockets -> Seq(RecvBuffer)] /\ recvq'[s] # <<>>
    <2>1. recvq[s] \in Seq(RecvBuffer)
      BY <1>1 DEF TypeOK
    <2>2. Append(recvq[s], b) \in Seq(RecvBuffer) /\ Append(recvq[s], b) # <<>>
      BY <2>1, AppendProperties
    <2> QED BY <1>1, <1>2, <2>2 DEF TypeOK
  <1>4. TypeOK'
    BY <1>1, <1>2, <1>3 DEF TypeOK, life, count, seen
  <1>5. Frame(s)
    BY <1>1, <1>2 DEF TypeOK, Frame, life, count, seen
  <1>6. WatchedAt(s)'
    BY <1>1, <1>2, <1>3 DEF WatchedAt
  <1>7. LifeAt(s)'
    BY <1>1, <1>2 DEF LifeAt, life, count, seen
  <1>8. AnsweredAt(s)'
    BY <1>2, AnswersLeft DEF life, seen
  <1> QED BY <1>2, <1>4, <1>5, <1>6, <1>7, <1>8, Served DEF life, count

-----------------------------------------------------------------------------
(* Jobs *)

LEMMA OpenFiniedStep ==
    ASSUME IInv, NEW s \in Sockets, OpenFinied(s)
    PROVE  IInv'
  <1>1. "open" \in {"open", "fini"}
    OBVIOUS
  <1> QED BY <1>1, Released DEF OpenFinied

LEMMA RealFiniAgainStep ==
    ASSUME IInv, NEW s \in Sockets, RealFiniAgain(s)
    PROVE  IInv'
  <1>1. "fini" \in {"open", "fini"}
    OBVIOUS
  <1> QED BY <1>1, Released DEF RealFiniAgain

\* A job that closes.
LEMMA JobCloses ==
    ASSUME IInv, NEW s \in Sockets, NEW op \in {"open", "fini"}, Runs(op, s), Popped
    PROVE  /\ JobsShrink(s)
           /\ Count(jobs', On(s)) = Count(jobs, On(s)) - 1
           /\ Count(jobs', Passing(s)) = Count(jobs, Passing(s))
           /\ Count(jobs', Opening(s)) = Count(jobs, Opening(s)) - One(op = "open")
           /\ s \in bound
           /\ op = "open" => s \notin Accepters
  <1>1. One(op = "accept") = 0 /\ One(op # "fini") = One(op = "open") /\ Count(jobs, Passing(s)) \in Nat
    BY Facts DEF One
  <1> QED BY <1>1, JobRuns DEF JobsShrink

LEMMA OpenFailsStep ==
    ASSUME IInv, NEW s \in Sockets, OpenFails(s)
    PROVE  IInv'
  <1>1. /\ CloseLink(s, TRUE) /\ ReleaseFrom(s, 1) /\ Overlays(s)
        /\ UNCHANGED <<closing, held, calls>> /\ UNCHANGED life
        /\ "open" \in {"open", "fini"} /\ 1 \in {0, 1} /\ TRUE \in BOOLEAN
        /\ Runs("open", s) /\ Popped
    BY DEF OpenFails
  <1>2. /\ JobsShrink(s) /\ s \in bound /\ s \notin Accepters
        /\ Count(jobs', On(s)) = Count(jobs, On(s)) - 1
        /\ Count(jobs', Passing(s)) = Count(jobs, Passing(s))
        /\ Count(jobs', Opening(s)) = Count(jobs, Opening(s)) - 1
    <2>1. One("open" = "open") = 1
      BY DEF One
    <2> QED BY <1>1, <2>1, JobCloses
  <1>3. UNCHANGED overlaid \/ (overlaid' = overlaid \cup {s} /\ s \notin Accepters)
    BY <1>1, <1>2 DEF Overlays
  <1>4. s \notin overlaid' => One(TRUE) = One(status[s] = "connect") + 1
    BY <1>1 DEF Overlays, One
  <1> QED BY <1>1, <1>2, <1>3, <1>4, Closed

LEMMA RealFiniStep ==
    ASSUME IInv, NEW s \in Sockets, RealFini(s)
    PROVE  IInv'
  <1>1. TypeOK /\ LifeAt(s)
    BY Facts
  <1>2. /\ Runs("fini", s) /\ Popped /\ Fined(s)
        /\ UNCHANGED <<closing, overlaid, held, calls>>
        /\ "fini" \in {"open", "fini"} /\ 1 \in {0, 1}
    BY <1>1 DEF RealFini, Fined, LifeAt
  <1>3. CASE status[s] = "null"
    <2>1. Dropped(s) /\ UNCHANGED <<closing, overlaid, link, data, held, seen, calls>>
      BY <1>3 DEF RealFini
    <2> QED BY <1>2, <1>3, <2>1, Released
  <1>4. CASE status[s] # "null"
    <2>1. CloseLink(s, FALSE) /\ ReleaseFrom(s, 1) /\ FALSE \in BOOLEAN /\ 0 \in {0, 1}
      BY <1>4 DEF RealFini
    <2>2. /\ JobsShrink(s) /\ s \in bound
          /\ Count(jobs', On(s)) = Count(jobs, On(s)) - 1
          /\ Count(jobs', Passing(s)) = Count(jobs, Passing(s))
          /\ Count(jobs', Opening(s)) = Count(jobs, Opening(s)) - 0
      <3>1. One("fini" = "open") = 0
        BY DEF One
      <3> QED BY <1>2, <3>1, JobCloses
    <2>3. ~binit'[s]
      BY <1>1, <1>2 DEF Fined, TypeOK
    <2> QED BY <1>2, <2>1, <2>2, <2>3, Closed
  <1> QED BY <1>3, <1>4

LEMMA ListenOkStep ==
    ASSUME IInv, NEW s \in Sockets, ListenOk(s)
    PROVE  IInv'
  <1>1. TypeOK /\ WatchedAt(s) /\ LifeAt(s)
    BY Facts
  <1>2. jobs' \in Seq(JobSet) /\ s \in bound /\ s \notin Accepters /\ s \notin Connecters
    BY JobRuns, KindsAssumption DEF ListenOk
  <1>3. /\ Runs("open", s) /\ Popped /\ binit[s] /\ s \in Listeners
        /\ status' = [status EXCEPT ![s] = "common"]
        /\ fd' = fd \cup {s} /\ registry' = registry \cup {s} /\ rarm' = rarm \cup {s}
        /\ fds' = [fds EXCEPT ![s] = @ + 1]
        /\ net' = [net EXCEPT ![s] = "up"]
        /\ told' = [told EXCEPT ![s] = "open"]
        /\ answered' = [answered EXCEPT ![s] = @ + 1]
        /\ Overlays(s)
        /\ UNCHANGED <<closing, life, warm, data, count, revived, calls>>
    BY DEF ListenOk
  <1>8. /\ overlaid' \subseteq Listeners \cup Connecters
        /\ \A d \in Sockets \ {s} : d \in overlaid' <=> d \in overlaid
        /\ s \notin overlaid' => s \notin overlaid
    BY <1>1, <1>2, <1>3 DEF Overlays, TypeOK, Sockets
  <1>4. TypeOK'
    <2>1. /\ status' \in [Sockets -> {"null", "connect", "common"}]
          /\ net' \in [Sockets -> {"idle", "pending", "up", "refused", "gone", "reset"}]
          /\ fds' \in [Sockets -> Nat] /\ answered' \in [Sockets -> Nat]
          /\ told' \in [Sockets -> {"none", "open", "closed"}]
      BY <1>1, <1>3 DEF TypeOK
    <2>2. /\ fd' \subseteq Sockets /\ registry' \subseteq Sockets /\ rarm' \subseteq Sockets
          /\ UNCHANGED <<closing, life, warm, data, count, revived, calls>>
      BY <1>1, <1>3 DEF TypeOK
    <2> QED BY ONLY <1>1, <1>2, <1>8, <2>1, <2>2 DEF TypeOK, JobSet, life, data, count
  <1>5. Frame(s)
    BY <1>1, <1>3, <1>8 DEF TypeOK, Frame, life, data, count
  <1>6. WatchedAt(s)' /\ LifeAt(s)'
    BY <1>1, <1>2, <1>3, <1>8 DEF TypeOK, WatchedAt, LifeAt, life, data, count
  <1>7. fds'[s] = fds[s] + One("open" = "open") /\ "open" \in {"open", "accept"}
    BY <1>1, <1>3 DEF TypeOK, One
  <1>9. answered'[s] + One(status'[s] = "connect") = answered[s] + 1
    BY <1>1, <1>3 DEF TypeOK, One
  <1> QED BY <1>3, <1>4, <1>5, <1>6, <1>7, <1>9, Opened DEF life, count

LEMMA ConnectStartsStep ==
    ASSUME IInv, NEW s \in Sockets, ConnectStarts(s)
    PROVE  IInv'
  <1>1. TypeOK /\ WatchedAt(s) /\ LifeAt(s)
    BY Facts
  <1>2. jobs' \in Seq(JobSet) /\ s \in bound /\ s \notin Accepters /\ s \notin Listeners
    BY JobRuns, KindsAssumption DEF ConnectStarts
  <1>3. /\ Runs("open", s) /\ Popped /\ binit[s]
        /\ status' = [status EXCEPT ![s] = "connect"]
        /\ fd' = fd \cup {s} /\ registry' = registry \cup {s} /\ warm' = warm \cup {s}
        /\ fds' = [fds EXCEPT ![s] = @ + 1]
        /\ net' = [net EXCEPT ![s] = "pending"]
        /\ rarm' = rarm \ {s}
        /\ Overlays(s)
        /\ UNCHANGED <<closing, life, data, count, seen, calls>>
    BY DEF ConnectStarts
  <1>8. /\ overlaid' \subseteq Listeners \cup Connecters
        /\ \A d \in Sockets \ {s} : d \in overlaid' <=> d \in overlaid
        /\ s \notin overlaid' => s \notin overlaid /\ status[s] = "null"
    BY <1>1, <1>2, <1>3 DEF Overlays, TypeOK, Sockets
  <1>4. TypeOK'
    <2>1. /\ status' \in [Sockets -> {"null", "connect", "common"}]
          /\ net' \in [Sockets -> {"idle", "pending", "up", "refused", "gone", "reset"}]
          /\ fds' \in [Sockets -> Nat]
      BY <1>1, <1>3 DEF TypeOK
    <2>2. /\ fd' \subseteq Sockets /\ registry' \subseteq Sockets /\ warm' \subseteq Sockets
          /\ rarm' \subseteq Sockets
          /\ UNCHANGED <<closing, life, data, count, seen, calls>>
      BY <1>1, <1>3 DEF TypeOK
    <2> QED BY ONLY <1>1, <1>2, <1>8, <2>1, <2>2 DEF TypeOK, JobSet, life, data, count, seen
  <1>5. Frame(s)
    BY <1>1, <1>3, <1>8 DEF TypeOK, Frame, life, data, count, seen
  <1>10. status'[s] = "connect" /\ s \notin rarm'
    BY <1>1, <1>3 DEF TypeOK
  <1>6. WatchedAt(s)' /\ LifeAt(s)'
    <2>1. WatchedAt(s)'
      BY <1>1, <1>3, <1>8, <1>10 DEF WatchedAt, data
    <2>2. LifeAt(s)'
      BY <1>1, <1>2, <1>3, <1>8, <1>10 DEF LifeAt, life, data, count, seen
    <2> QED BY <2>1, <2>2
  <1>7. fds'[s] = fds[s] + One("open" = "open") /\ "open" \in {"open", "accept"}
    BY <1>1, <1>3 DEF TypeOK, One
  <1>9. answered'[s] + One(status'[s] = "connect") = answered[s] + 1
    BY <1>1, <1>3, <1>10 DEF TypeOK, One, seen
  <1> QED BY <1>3, <1>4, <1>5, <1>6, <1>7, <1>9, Opened DEF life, count

LEMMA AcceptAcceptStep ==
    ASSUME IInv, NEW s \in Sockets, AcceptAccept(s)
    PROVE  IInv'
  <1>1. TypeOK /\ WatchedAt(s) /\ LifeAt(s)
    BY Facts
  <1>2. jobs' \in Seq(JobSet) /\ s \in bound /\ status[s] = "null" /\ s \in Accepters
    BY JobRuns DEF AcceptAccept
  <1>3. /\ Runs("accept", s) /\ Popped
        /\ status' = [status EXCEPT ![s] = "connect"]
        /\ fd' = fd \cup {s} /\ registry' = registry \cup {s} /\ warm' = warm \cup {s}
        /\ revived' = IF binit[s] THEN revived ELSE revived \cup {s}
        /\ UNCHANGED <<closing, overlaid, life, fds, rarm, net, data, count, told, answered,
                       calls>>
    BY DEF AcceptAccept
  <1>4. TypeOK'
    BY <1>1, <1>2, <1>3 DEF TypeOK, JobSet, life, data, count
  <1>5. Frame(s)
    BY <1>1, <1>3 DEF TypeOK, Frame, life, data, count
  <1>6. WatchedAt(s)' /\ LifeAt(s)'
    BY <1>1, <1>2, <1>3 DEF TypeOK, WatchedAt, LifeAt, life, data, count
  <1>7. /\ fds'[s] = fds[s] + One("accept" = "open") /\ "accept" \in {"open", "accept"}
        /\ "accept" # "open" /\ Overlays(s)
    BY <1>1, <1>2, <1>3 DEF TypeOK, One, Overlays
  <1>9. answered'[s] + One(status'[s] = "connect") = answered[s] + 1
    BY <1>1, <1>3 DEF TypeOK, One
  <1> QED BY <1>3, <1>4, <1>5, <1>6, <1>7, <1>9, Opened DEF life, count

-----------------------------------------------------------------------------
(* Events *)

LEMMA SendConnectedStep ==
    ASSUME IInv, NEW s \in Sockets, SendConnected(s)
    PROVE  IInv'
  <1>1. TypeOK /\ WatchedAt(s) /\ LifeAt(s)
    BY Facts
  <1>2. /\ status[s] = "connect" /\ s \in warm
        /\ status' = [status EXCEPT ![s] = "common"]
        /\ warm' = IF sendq[s] = <<>> THEN warm \ {s} ELSE warm
        /\ UNCHANGED <<jobs, closing, overlaid, life, fd, fds, rarm, registry, net, data, count,
                       calls>>
    BY DEF SendConnected
  <1>3. /\ told' \in [Sockets -> {"none", "open", "closed"}]
        /\ answered' \in [Sockets -> Nat]
        /\ revived' = revived
        /\ s \notin revived => told'[s] = "open"
        /\ s \in cb => answered'[s] = answered[s] + 1
        /\ \A d \in Sockets \ {s} : told'[d] = told[d] /\ answered'[d] = answered[d]
    <2>1. CASE s \in cb
      <3>1. /\ told' = [told EXCEPT ![s] = "open"]
            /\ answered' = [answered EXCEPT ![s] = @ + 1]
            /\ revived' = revived
        BY <2>1 DEF SendConnected
      <3>2. /\ told \in [Sockets -> {"none", "open", "closed"}]
            /\ answered \in [Sockets -> Nat]
        BY <1>1 DEF TypeOK
      <3> QED BY ONLY <3>1, <3>2, s \in Sockets
    <2>2. CASE s \notin cb
      BY <1>1, <1>2, <2>2 DEF SendConnected, TypeOK, LifeAt, seen
    <2> QED BY <2>1, <2>2
  <1>4. status' \in [Sockets -> {"null", "connect", "common"}]
    BY <1>1, <1>2 DEF TypeOK
  <1>5. TypeOK'
    BY <1>1, <1>2, <1>3, <1>4 DEF TypeOK, life, data, count
  <1>6. Frame(s)
    BY <1>1, <1>2, <1>3 DEF TypeOK, Frame, life, data, count
  <1>7. status'[s] = "common"
    BY <1>1, <1>2 DEF TypeOK
  <1>8. WatchedAt(s)'
    BY <1>1, <1>2, <1>7 DEF WatchedAt, data
  <1>9. LifeAt(s)'
    BY <1>1, <1>2, <1>3, <1>7 DEF LifeAt, life, data, count
  <1>10. AnsweredAt(s)'
    <2> SUFFICES ASSUME binit[s], s \notin overlaid PROVE Balanced(s)'
      BY <1>1, <1>2 DEF AnsweredAt, LifeAt, life, TypeOK
    <2>1. /\ Balanced(s) /\ answered[s] \in Nat /\ Count(jobs, Opening(s)) \in Nat
          /\ answered'[s] = answered[s] + 1
      BY <1>1, <1>3, Facts DEF AnsweredAt, LifeAt
    <2>2. One(status[s] = "connect") = 1 /\ One(status'[s] = "connect") = 0
      BY <1>2, <1>7 DEF One
    <2>3. Asked(s)' = Asked(s) /\ Opening(s)' = Opening(s) /\ jobs' = jobs
      BY <1>2 DEF Asked, Opening, life
    <2> QED BY <2>1, <2>2, <2>3 DEF Balanced
  <1> QED BY <1>2, <1>5, <1>6, <1>7, <1>8, <1>9, <1>10, Served DEF life, count

\* An event that closes.
LEMMA EventCloses ==
    ASSUME IInv, NEW s \in Sockets, NEW bconnecting \in BOOLEAN,
           CloseLink(s, bconnecting), ReleaseFrom(s, 0),
           status[s] # "null", bconnecting <=> status[s] = "connect",
           UNCHANGED <<jobs, closing, overlaid, life, held, calls>>
    PROVE  IInv'
  <1>1. /\ JobsShrink(s)
        /\ Count(jobs', On(s)) = Count(jobs, On(s)) - 0
        /\ Count(jobs', Passing(s)) = Count(jobs, Passing(s))
        /\ Count(jobs', Opening(s)) = Count(jobs, Opening(s)) - 0
    <2>1. /\ JobsShrink(s) /\ Count(jobs, On(s)) \in Nat /\ Count(jobs, Opening(s)) \in Nat
          /\ jobs' = jobs /\ Count(jobs', Passing(s)) = Count(jobs, Passing(s))
          /\ Count(jobs', Opening(s)) = Count(jobs, Opening(s)) - 0
      BY JobsLeft, Facts
    <2> QED BY <2>1
  <1>2. 0 \in {0, 1}
    OBVIOUS
  <1>3. s \in bound
    BY Facts DEF LifeAt
  <1>4. One(bconnecting) = One(status[s] = "connect") + 0
    BY DEF One
  <1> QED BY <1>1, <1>2, <1>3, <1>4, Closed

LEMMA SendTimeoutStep ==
    ASSUME IInv, NEW s \in Sockets, SendTimeout(s)
    PROVE  IInv'
  <1>1. /\ CloseLink(s, TRUE) /\ ReleaseFrom(s, 0) /\ TRUE \in BOOLEAN
        /\ status[s] = "connect"
        /\ UNCHANGED <<jobs, closing, overlaid, life, held, calls>>
    BY DEF SendTimeout
  <1> QED BY <1>1, EventCloses

LEMMA SendClosesStep ==
    ASSUME IInv, NEW s \in Sockets, SendCloses(s)
    PROVE  IInv'
  <1>1. /\ CloseLink(s, FALSE) /\ ReleaseFrom(s, 0) /\ FALSE \in BOOLEAN
        /\ status[s] = "common"
        /\ UNCHANGED <<jobs, closing, overlaid, life, held, calls>>
    BY DEF SendCloses
  <1> QED BY <1>1, EventCloses

LEMMA RecvClosesStep ==
    ASSUME IInv, NEW s \in Sockets, RecvCloses(s)
    PROVE  IInv'
  <1>1. /\ CloseLink(s, FALSE) /\ ReleaseFrom(s, 0) /\ FALSE \in BOOLEAN
        /\ s \in rarm \ Listeners
        /\ UNCHANGED <<jobs, closing, overlaid, life, held, calls>>
    BY DEF RecvCloses
  <1>2. status[s] = "common"
    BY <1>1, Facts DEF WatchedAt
  <1> QED BY <1>1, <1>2, EventCloses

LEMMA SendSomeStep ==
    ASSUME IInv, NEW s \in Sockets, SendSome(s)
    PROVE  IInv'
  <1>1. TypeOK /\ WatchedAt(s) /\ LifeAt(s)
    BY Facts
  <1>2. /\ status[s] = "common" /\ s \in warm
        /\ UNCHANGED <<jobs, closing, overlaid, life, status, fd, fds, rarm, registry, net,
                       recvq, count, seen, calls>>
    BY DEF SendSome
  <1>3. PICK k \in 0..Len(sendq[s]), more \in BOOLEAN :
          /\ more => k > 0 /\ type[s] # "null"
          /\ LET rest == SubSeq(sendq[s], k + 1, Len(sendq[s]))
                         \o (IF more THEN <<"data">> ELSE <<>>)
             IN  /\ sendq' = [sendq EXCEPT ![s] = rest]
                 /\ warm' = IF rest = <<>> THEN warm \ {s} ELSE warm
    BY DEF SendSome
  <1> DEFINE left == SubSeq(sendq[s], k + 1, Len(sendq[s]))
             again == IF more THEN <<"data">> ELSE <<>>
             rest == left \o again
  <1>4. sendq[s] \in Seq(SendBuffer) /\ Len(sendq[s]) \in Nat
    BY <1>1, LenProperties DEF TypeOK
  <1>5. again \in Seq(SendBuffer)
    <2>1. "data" \in SendBuffer
      BY DEF SendBuffer
    <2>2. <<"data">> \in Seq(SendBuffer)
      BY <2>1
    <2> QED BY <2>2, EmptySeq
  <1>6. left \in Seq(SendBuffer)
    <2>1. k + 1 \in 1..(Len(sendq[s]) + 1)
      BY <1>4
    <2> QED BY <1>4, <2>1, SubSeqProperties
  <1>7. rest \in Seq(SendBuffer)
    <2> HIDE DEF left, again
    <2> QED BY <1>5, <1>6, ConcatProperties
  <1>8. ~binit[s] => rest = <<>>
    <2> SUFFICES ASSUME ~binit[s] PROVE rest = <<>>
      OBVIOUS
    <2>1. sendq[s] = <<>> /\ ~more
      BY <1>1, <1>3 DEF LifeAt
    <2>2. left = <<>>
      <3>1. Len(sendq[s]) = 0 /\ k = 0
        BY <1>4, <2>1, EmptySeq
      <3>2. left = SubSeq(sendq[s], 1, 0)
        BY <3>1
      <3> QED BY <1>4, <3>2, SubSeqProperties
    <2>3. again = <<>>
      BY <2>1
    <2> HIDE DEF left, again
    <2>4. left \o again = left
      BY <1>6, <2>3, ConcatEmptySeq
    <2> QED BY <2>2, <2>4
  <1> HIDE DEF left, again
  <1>9. sendq' = [sendq EXCEPT ![s] = rest] /\ warm' = IF rest = <<>> THEN warm \ {s} ELSE warm
    BY <1>3 DEF left, again
  <1> HIDE DEF rest
  <1>10. /\ sendq' \in [Sockets -> Seq(SendBuffer)]
         /\ sendq'[s] = rest /\ \A d \in Sockets \ {s} : sendq'[d] = sendq[d]
    BY <1>1, <1>7, <1>9 DEF TypeOK
  <1>11. TypeOK'
    BY <1>1, <1>2, <1>9, <1>10 DEF TypeOK, life, count, seen
  <1>12. Frame(s)
    BY <1>2, <1>9, <1>10 DEF Frame, life, count, seen
  <1>13. WatchedAt(s)'
    BY <1>1, <1>2, <1>9, <1>10 DEF WatchedAt
  <1>14. LifeAt(s)'
    BY <1>1, <1>2, <1>8, <1>10 DEF LifeAt, life, count, seen
  <1>15. AnsweredAt(s)'
    BY <1>2, AnswersLeft DEF life, seen
  <1> QED BY <1>2, <1>11, <1>12, <1>13, <1>14, <1>15, Served DEF life, count

LEMMA RecvDataStep ==
    ASSUME IInv, NEW s \in Sockets, RecvData(s)
    PROVE  IInv'
  <1>1. TypeOK /\ WatchedAt(s) /\ LifeAt(s)
    BY Facts
  <1>2. /\ s \in rarm \ Listeners /\ recvq[s] # <<>>
        /\ UNCHANGED <<jobs, closing, overlaid, life, status, fd, fds, warm, registry, net,
                       sendq, count, seen, calls>>
    BY DEF RecvData
  <1>3. status[s] = "common" /\ binit[s]
    BY <1>1, <1>2 DEF WatchedAt, LifeAt, TypeOK
  <1>4. /\ recvq[s] \in Seq(RecvBuffer) /\ Head(recvq[s]) \in RecvBuffer
        /\ Tail(recvq[s]) \in Seq(RecvBuffer)
    BY <1>1, <1>2, HeadTailProperties DEF TypeOK
  <1>5. PICK n \in 1..Head(recvq[s]).room, more \in BOOLEAN :
          LET b == Head(recvq[s])
              full == b.some \/ n = b.room
              again == IF more THEN <<[some |-> TRUE, room |-> 1]>> ELSE <<>>
              rest == IF full THEN Tail(recvq[s]) \o again
                      ELSE <<[b EXCEPT !.room = @ - n]>> \o Tail(recvq[s])
          IN  /\ recvq' = [recvq EXCEPT ![s] = rest]
              /\ rarm' = IF rest = <<>> THEN rarm \ {s} ELSE rarm
    BY DEF RecvData
  <1> DEFINE b == Head(recvq[s])
             again == IF more THEN <<[some |-> TRUE, room |-> 1]>> ELSE <<>>
             partly == <<[b EXCEPT !.room = @ - n]>>
             rest == IF b.some \/ n = b.room THEN Tail(recvq[s]) \o again
                     ELSE partly \o Tail(recvq[s])
  <1>6. again \in Seq(RecvBuffer)
    <2>1. [some |-> TRUE, room |-> 1] \in RecvBuffer
      BY DEF RecvBuffer
    <2> QED BY <2>1, EmptySeq
  <1>7. partly \in Seq(RecvBuffer)
    <2>1. b.room \in Nat /\ b.room - n \in Nat
      BY <1>4 DEF RecvBuffer
    <2>2. [b EXCEPT !.room = @ - n] \in RecvBuffer
      BY <1>4, <2>1 DEF RecvBuffer
    <2> QED BY <2>2
  <1> HIDE DEF again, partly
  <1>8. rest \in Seq(RecvBuffer)
    BY <1>4, <1>6, <1>7, ConcatProperties
  <1>9. recvq' = [recvq EXCEPT ![s] = rest] /\ rarm' = IF rest = <<>> THEN rarm \ {s} ELSE rarm
    BY <1>5 DEF again, partly
  <1> HIDE DEF rest
  <1>10. /\ recvq' \in [Sockets -> Seq(RecvBuffer)]
         /\ recvq'[s] = rest /\ \A d \in Sockets \ {s} : recvq'[d] = recvq[d]
    BY <1>1, <1>8, <1>9 DEF TypeOK
  <1>11. TypeOK'
    BY <1>1, <1>2, <1>9, <1>10 DEF TypeOK, life, count, seen
  <1>12. Frame(s)
    BY <1>2, <1>9, <1>10 DEF Frame, life, count, seen
  <1>13. WatchedAt(s)'
    BY <1>1, <1>2, <1>3, <1>9, <1>10 DEF WatchedAt
  <1>14. LifeAt(s)'
    BY <1>1, <1>2, <1>3, <1>10 DEF LifeAt, life, count, seen
  <1>15. AnsweredAt(s)'
    BY <1>2, AnswersLeft DEF life, seen
  <1> QED BY <1>2, <1>11, <1>12, <1>13, <1>14, <1>15, Served DEF life, count

LEMMA NetworkStep ==
    ASSUME IInv, NEW s \in Sockets, Network(s)
    PROVE  IInv'
  <1>1. TypeOK
    BY Facts
  <1>2. net' \in [Sockets -> {"idle", "pending", "up", "refused", "gone", "reset"}]
    <2>1. PICK v \in {"up", "refused", "gone", "reset"} : net' = [net EXCEPT ![s] = v]
      BY DEF Network
    <2>2. net \in [Sockets -> {"idle", "pending", "up", "refused", "gone", "reset"}]
      BY <1>1 DEF TypeOK
    <2> QED BY <2>1, <2>2
  <1>3. UNCHANGED <<jobs, closing, overlaid, life, status, fd, fds, rarm, warm, registry,
                    data, count, seen, calls>>
    BY DEF Network
  <1>4. TypeOK'
    BY <1>1, <1>2, <1>3 DEF TypeOK, life, data, count, seen
  <1> QED BY <1>3, <1>4, Quiet DEF life, data, count, seen

\* A socket that has no jobs counts none.
LEMMA NoJobs ==
    ASSUME IInv, NEW s \in Sockets, \A op : ~Has(jobs, Job(op, s))
    PROVE  /\ Count(jobs, On(s)) = 0 /\ Count(jobs, Passing(s)) = 0
           /\ Count(jobs, Opening(s)) = 0
  <1>1. \A j \in On(s) : j = Job(j.op, s)
    BY DEF On, JobSet, Job
  <1>2. Where(jobs, On(s)) = {} /\ Where(jobs, Passing(s)) = {} /\ Where(jobs, Opening(s)) = {}
    BY <1>1 DEF Where, Has, Passing, Opening
  <1> QED BY <1>2, FS_EmptySet DEF Count

\* The jobs of a new accepter: perhaps a Fini, and on_inter_accept_accept.
LEMMA FirstJobs ==
    ASSUME NEW q \in Seq(JobSet), NEW a \in Sockets, NEW early \in BOOLEAN,
           \A op : ~Has(q, Job(op, a)),
           Count(q, On(a)) = 0, Count(q, Passing(a)) = 0, Count(q, Opening(a)) = 0,
           NEW r, r = q \o (IF early THEN <<Job("fini", a)>> ELSE <<>>) \o <<Job("accept", a)>>
    PROVE  /\ r \in Seq(JobSet) /\ Others(q, r, a)
           /\ Count(r, On(a)) = 1 + One(early)
           /\ Count(r, Passing(a)) = 1 /\ Count(r, Opening(a)) = 1
           /\ Once(r, Job("accept", a)) /\ ~Has(r, Job("open", a))
  <1> DEFINE f == Job("fini", a)
             e == Job("accept", a)
             m == IF early THEN Append(q, f) ELSE q
  <1>1. f \in JobSet /\ e \in JobSet /\ f # e /\ Job("open", a) # f /\ Job("open", a) # e
    BY JobCounts, JobEq
  <1> HIDE DEF f, e
  <1>2. r = Append(m, e) /\ m \in Seq(JobSet)
    <2>1. q \o <<f>> = Append(q, f) /\ q \o <<>> = q
      BY <1>1, AppendIsConcat, ConcatEmptySeq
    <2>2. m \in Seq(JobSet)
      BY <1>1, AppendProperties
    <2>3. m \o <<e>> = Append(m, e)
      <3> HIDE DEF m
      <3> QED BY <1>1, <2>2, AppendIsConcat
    <2>4. q \o (IF early THEN <<f>> ELSE <<>>) = m
      BY <2>1
    <2>5. r = q \o (IF early THEN <<f>> ELSE <<>>) \o <<e>>
      BY DEF f, e
    <2> QED BY <2>2, <2>3, <2>4, <2>5
  <1>3. /\ Others(q, m, a)
        /\ Count(m, On(a)) = One(early) /\ Count(m, Passing(a)) = 0
        /\ Count(m, Opening(a)) = 0
        /\ \A x : Has(m, x) => Has(q, x) \/ x = f
        /\ ~Has(m, e) /\ ~Has(m, Job("open", a))
    <2>1. CASE early
      <3>1. /\ Others(q, Append(q, f), a)
            /\ Count(Append(q, f), On(a)) = Count(q, On(a)) + 1
            /\ Count(Append(q, f), Passing(a)) = Count(q, Passing(a)) + One("fini" = "accept")
            /\ Count(Append(q, f), Opening(a)) = Count(q, Opening(a)) + One("fini" # "fini")
            /\ \A x : Has(Append(q, f), x) => Has(q, x) \/ x = f
        BY JobAdded DEF f
      <3>2. One("fini" = "accept") = 0 /\ One("fini" # "fini") = 0 /\ One(early) = 1
        BY <2>1 DEF One
      <3>3. ~Has(q, e) /\ ~Has(q, Job("open", a))
        BY DEF e
      <3>4. m = Append(q, f)
        BY <2>1
      <3> HIDE DEF m
      <3>5. /\ Count(m, On(a)) = One(early) /\ Count(m, Passing(a)) = 0
            /\ Count(m, Opening(a)) = 0
        BY <3>1, <3>2, <3>4
      <3>6. \A x : Has(m, x) => Has(q, x) \/ x = f
        BY <3>1, <3>4
      <3> QED BY <1>1, <3>1, <3>3, <3>4, <3>5, <3>6
    <2>2. CASE ~early
      <3>1. One(early) = 0
        BY <2>2 DEF One
      <3>2. ~Has(q, e) /\ ~Has(q, Job("open", a))
        BY DEF e
      <3> QED BY <2>2, <3>1, <3>2, OthersItself
    <2> QED BY <2>1, <2>2
  <1> HIDE DEF m
  <1>4. /\ Others(m, r, a)
        /\ Count(r, On(a)) = Count(m, On(a)) + 1
        /\ Count(r, Passing(a)) = Count(m, Passing(a)) + One("accept" = "accept")
        /\ Count(r, Opening(a)) = Count(m, Opening(a)) + One("accept" # "fini")
        /\ \A x : Has(r, x) => Has(m, x) \/ x = e
        /\ \A x : Once(m, x) /\ (x # e \/ ~Has(m, x)) => Once(r, x)
    <2>1. "accept" \in {"open", "fini", "accept"}
      OBVIOUS
    <2> QED BY ONLY <1>2, <2>1, JobAdded, a \in Sockets DEF e
  <1>5. Others(q, r, a) /\ r \in Seq(JobSet)
    <2>1. Others(q, m, a) /\ Others(m, r, a)
      BY <1>3, <1>4
    <2>2. Others(q, r, a)
      BY ONLY <2>1, OthersFurther
    <2> QED BY ONLY <2>1, <2>2 DEF Others
  <1>6. Count(r, On(a)) = 1 + One(early) /\ Count(r, Passing(a)) = 1 /\ Count(r, Opening(a)) = 1
    <2>1. One("accept" = "accept") = 1 /\ One("accept" # "fini") = 1 /\ One(early) \in {0, 1}
      BY OneType DEF One
    <2> QED BY <1>3, <1>4, <2>1
  <1>7. Once(m, e)
    BY <1>3 DEF Has, Once
  <1> QED BY <1>1, <1>3, <1>4, <1>5, <1>6, <1>7 DEF e

LEMMA ListenAcceptsStep ==
    ASSUME IInv, NEW l \in Sockets, NEW a \in Accepters, ListenAccepts(l, a)
    PROVE  IInv'
  <1>1. a \in Sockets /\ a \notin bound
    BY DEF ListenAccepts, Sockets
  <1>2. /\ TypeOK /\ jobs \in Seq(JobSet)
        /\ WatchedAt(a) /\ LifeAt(a) /\ JobsAt(a) /\ CountedAt(a) /\ AnsweredAt(a)
        /\ answered[a] \in Nat
    BY <1>1, Facts
  <1>3. /\ ~binit[a] /\ a \notin revived /\ a \notin held /\ status[a] = "null"
        /\ sendq[a] = <<>> /\ recvq[a] = <<>> /\ told[a] # "open"
        /\ a \notin fd \cup rarm \cup warm \cup registry
        /\ \A op : ~Has(jobs, Job(op, a))
        /\ a \notin overlaid
    BY <1>1, <1>2, KindsAssumption DEF WatchedAt, LifeAt, JobsAt, TypeOK
  <1>4. /\ fds' = [fds EXCEPT ![a] = @ + 1]
        /\ net' = [net EXCEPT ![a] = "up"]
        /\ bound' = bound \cup {a} /\ cb' = cb \cup {a} /\ held' = held \cup {a}
        /\ type' = [type EXCEPT ![a] = "accepter"]
        /\ binit' = [binit EXCEPT ![a] = TRUE]
        /\ UNCHANGED <<closing, overlaid, status, fd, rarm, warm, registry, data, seen>>
    BY DEF ListenAccepts
  <1>5. PICK early \in BOOLEAN :
          /\ early => MaxFinis > 0
          /\ jobs' = jobs \o (IF early THEN <<Job("fini", a)>> ELSE <<>>)
                          \o <<Job("accept", a)>>
          /\ refs' = [refs EXCEPT ![a] = 2 + One(early)]
          /\ calls' = [calls EXCEPT ![a].fini = One(early)]
    BY DEF ListenAccepts
  <1>6. Count(jobs, On(a)) = 0 /\ Count(jobs, Passing(a)) = 0 /\ Count(jobs, Opening(a)) = 0
    BY <1>1, <1>3, NoJobs
  <1>7. /\ jobs' \in Seq(JobSet) /\ Others(jobs, jobs', a)
        /\ Count(jobs', On(a)) = 1 + One(early)
        /\ Count(jobs', Passing(a)) = 1 /\ Count(jobs', Opening(a)) = 1
        /\ Once(jobs', Job("accept", a)) /\ ~Has(jobs', Job("open", a))
    BY <1>1, <1>2, <1>3, <1>5, <1>6, FirstJobs
  <1>8. One(early) \in Nat /\ One(early) \in 0..MaxFinis
    <2>1. CASE early
      BY <1>5, <2>1, BoundsAssumption DEF One
    <2>2. CASE ~early
      BY <2>2, BoundsAssumption DEF One
    <2> QED BY <2>1, <2>2
  <1>9. /\ refs' \in [Sockets -> Nat] /\ refs'[a] = 2 + One(early)
        /\ \A d \in Sockets \ {a} : refs'[d] = refs[d]
    <2> DEFINE n == One(early)
    <2>1. n \in Nat
      BY <1>8
    <2>2. refs' = [refs EXCEPT ![a] = 2 + n] /\ a \in Sockets
      BY <1>1, <1>5
    <2>3. refs \in [Sockets -> Nat]
      BY <1>2 DEF TypeOK
    <2> HIDE DEF n
    <2>4. /\ refs' \in [Sockets -> Nat] /\ refs'[a] = 2 + n
          /\ \A d \in Sockets \ {a} : refs'[d] = refs[d]
      BY ONLY <2>1, <2>2, <2>3
    <2> QED BY ONLY <2>4 DEF n
  <1>10. fds[a] = 0 /\ fds' \in [Sockets -> Nat] /\ fds'[a] = 1
    <2>1. One(a \in fd) = 0
      BY <1>3 DEF One
    <2>2. fds \in [Sockets -> Nat] /\ fds[a] = One(a \in fd) + Count(jobs, Passing(a))
      BY <1>2, <1>3 DEF TypeOK, CountedAt
    <2> QED BY <1>1, <1>4, <1>6, <2>1, <2>2
  <1>11. calls' \in [Sockets -> [open : 0..MaxOpens, fini : 0..MaxFinis]]
    <2>1. calls \in [Sockets -> [open : 0..MaxOpens, fini : 0..MaxFinis]]
      BY <1>2 DEF TypeOK
    <2>2. [calls[a] EXCEPT !.fini = One(early)] \in [open : 0..MaxOpens, fini : 0..MaxFinis]
      BY <1>1, <1>8, <2>1
    <2> QED BY <1>1, <1>5, <2>1, <2>2
  <1>18. \A d \in Sockets : calls'[d].open = calls[d].open
    BY <1>1, <1>2, <1>5 DEF TypeOK
  <1>12. TypeOK'
    BY <1>1, <1>2, <1>4, <1>7, <1>9, <1>10, <1>11 DEF TypeOK, JobSet, data, seen
  <1>13. Frame(a)
    BY <1>1, <1>2, <1>4, <1>9, <1>10, <1>18 DEF TypeOK, Frame, data, seen
  <1>14. WatchedAt(a)'
    BY <1>3, <1>4 DEF WatchedAt, data
  <1>15. LifeAt(a)'
    BY <1>1, <1>2, <1>3, <1>4 DEF TypeOK, LifeAt, data, seen
  <1>16. JobsAt(a)'
    BY <1>3, <1>4, <1>7 DEF JobsAt
  <1>17. CountedAt(a)'
    <2>1. On(a)' = On(a) /\ Passing(a)' = Passing(a)
      BY DEF On, Passing
    <2>2. Holders(a)' = 1
      <3>1. One(a \in held') = 1 /\ One(a \in registry') = 0
        BY <1>3, <1>4 DEF One
      <3> QED BY <3>1 DEF Holders
    <2>3. One(a \in fd') = 0
      BY <1>3, <1>4 DEF One
    <2>4. refs'[a] = Holders(a)' + Count(jobs', On(a))
      BY <1>7, <1>8, <1>9, <2>2
    <2>5. fds'[a] = One(a \in fd') + Count(jobs', Passing(a))
      BY <1>7, <1>10, <2>3
    <2> QED BY <2>1, <2>4, <2>5, <1>7, <1>9, <1>10, <1>8, <2>2, <2>3 DEF CountedAt
  <1>19. AnsweredAt(a)'
    <2>1. One(status[a] = "connect") = 0 /\ One(a \in bound) = 0 /\ One(a \in bound') = 1
      BY <1>1, <1>3, <1>4 DEF One
    <2>2. Balanced(a) /\ Asked(a) = 0 /\ Asked(a)' = 1 /\ Opening(a)' = Opening(a)
      BY <1>1, <1>2, <1>3, <2>1 DEF AnsweredAt, Asked, Opening
    <2>3. answered[a] = 0
      BY <1>2, <1>6, <2>1, <2>2 DEF Balanced
    <2>4. answered' = answered /\ status' = status
      BY <1>4 DEF seen
    <2>5. Balanced(a)'
      BY <1>7, <2>1, <2>2, <2>3, <2>4 DEF Balanced
    <2> QED BY <2>5 DEF AnsweredAt
  <1> QED BY <1>1, <1>7, <1>12, <1>13, <1>14, <1>15, <1>16, <1>17, <1>19, Framed DEF SocketAt

-----------------------------------------------------------------------------
(* The theorems *)

LEMMA StepIInv == IInv /\ [Next]_vars => IInv'
  <1> SUFFICES ASSUME IInv, [Next]_vars PROVE IInv'
    OBVIOUS
  <1>1. CASE UNCHANGED vars
    <2>1. TypeOK'
      BY <1>1 DEF IInv, TypeOK, vars, life, link, data, count, seen
    <2> QED BY <1>1, <2>1, Quiet DEF vars, life, link, data, count, seen
  <1>2. CASE CloseServer
    <2>1. TypeOK'
      BY <1>2 DEF CloseServer, IInv, TypeOK, life, link, data, count, seen
    <2> QED BY <1>2, <2>1, Quiet DEF CloseServer, life, link, data, count, seen
  <1>3. ASSUME NEW s \in Sockets, UserCall(s) PROVE IInv'
    <2>1. ASSUME NEW some \in BOOLEAN, NEW n \in Rooms PROVE [some |-> some, room |-> n] \in RecvBuffer
      BY BoundsAssumption DEF RecvBuffer
    <2>2. CASE \E some \in BOOLEAN, n \in Rooms : AsyncRecv(s, [some |-> some, room |-> n])
      BY <2>1, <2>2, AsyncRecvStep
    <2> QED BY <1>3, <2>2, InitSocketStep, OpenStep, FiniStep, UserReleaseStep, AsyncSendStep
            DEF UserCall
  <1>4. ASSUME NEW s \in Sockets, RunJob(s) PROVE IInv'
    BY <1>4, OpenFiniedStep, OpenFailsStep, ListenOkStep, ConnectStartsStep, RealFiniStep,
       RealFiniAgainStep, AcceptAcceptStep DEF RunJob
  <1>5. ASSUME NEW s \in Sockets, Event(s) PROVE IInv'
    BY <1>5, ListenAcceptsStep, SendConnectedStep, SendTimeoutStep, SendSomeStep,
       SendClosesStep, RecvDataStep, RecvClosesStep DEF Event
  <1> QED BY <1>1, <1>2, <1>3, <1>4, <1>5, SweepStep, NetworkStep DEF Next

LEMMA IInvHolds == Spec => []IInv
  BY InitIInv, StepIInv, PTL DEF Spec

LEMMA IInvImpliesInv == IInv => Inv
  <1> SUFFICES ASSUME IInv PROVE Inv
    OBVIOUS
  <1>1. TypeOK
    BY DEF IInv
  <1>2. ASSUME NEW s \in Sockets
        PROVE  /\ CountedAt(s)
               /\ Count(jobs, On(s)) = Cardinality({i \in DOMAIN jobs : jobs[i].on = s})
               /\ Count(jobs, Passing(s)) = Cardinality(Pending("accept", s))
    <2>1. CountedAt(s) /\ jobs \in Seq(JobSet)
      BY Facts
    <2>2. \A i \in DOMAIN jobs : jobs[i] \in JobSet
      BY <2>1, LenProperties, ElementOfSeq
    <2>3. Where(jobs, On(s)) = {i \in DOMAIN jobs : jobs[i].on = s}
      BY <2>2 DEF Where, On
    <2>4. Where(jobs, Passing(s)) = Pending("accept", s)
      BY DEF Where, Passing, Pending
    <2> QED BY <2>1, <2>3, <2>4 DEF Count
  <1>3. RefsBalanced
    BY <1>2 DEF RefsBalanced, CountedAt, Holders
  <1>5. NoLostDescriptor
    BY <1>2 DEF NoLostDescriptor, CountedAt
  <1>4. FiniedIsQuiet
    <2> SUFFICES ASSUME NEW s \in bound \ revived, ~binit[s]
                 PROVE  status[s] = "null" /\ s \notin fd \cup rarm \cup warm \cup registry
      BY DEF FiniedIsQuiet
    <2>1. s \in Sockets
      BY <1>1 DEF TypeOK
    <2>2. WatchedAt(s) /\ LifeAt(s)
      BY <2>1, Facts
    <2> QED BY <2>2 DEF WatchedAt, LifeAt
  <1> QED BY <1>1, <1>3, <1>4, <1>5 DEF Inv

\* For any sockets, calls and network: types are right, a socket is counted
\* for its user, its registration and each of its jobs, and nothing is left of it
\* after real_fini; and unless one real_listen or real_connect has run over another,
\* it is counted for nothing else and has the one descriptor it owns.
THEOREM SocketsAreSound == Spec => []Inv
  BY IInvHolds, IInvImpliesInv, PTL

LEMMA IInvImpliesView == IInv => ViewMatches
  <1> SUFFICES ASSUME IInv, NEW s \in Sockets \ (revived \cup overlaid)
               PROVE  told[s] = "open" <=> status[s] = "common"
    BY DEF ViewMatches
  <1> QED BY Facts DEF LifeAt

\* What the callbacks On_Listen, On_Connect and On_Close have told the user is
\* always what m_status says, for sockets whose openings do not run over each other.
THEOREM CallbacksTellTheState == Spec => []ViewMatches
  BY IInvHolds, IInvImpliesView, PTL

LEMMA IInvImpliesArmed == IInv => QueuedIsArmed
  <1> SUFFICES ASSUME IInv, NEW s \in Sockets \ (Listeners \cup overlaid)
               PROVE  IF status[s] = "common"
                      THEN (sendq[s] # <<>> => s \in warm) /\ (recvq[s] # <<>> <=> s \in rarm)
                      ELSE sendq[s] = <<>> /\ recvq[s] = <<>>
    BY DEF QueuedIsArmed
  <1>1. WatchedAt(s)
    BY Facts
  <1> QED BY <1>1 DEF WatchedAt

\* No buffer queued by Async_Send, Async_Recv or Async_RecvSome is forgotten:
\* its event is pending, or its callback has been called, for sockets whose
\* openings do not run over each other.
THEOREM BuffersAreServed == Spec => []QueuedIsArmed
  BY IInvHolds, IInvImpliesArmed, PTL

LEMMA IInvImpliesAnswered == IInv => OpensAreAnswered
  <1> SUFFICES ASSUME IInv, NEW s \in Sockets \ overlaid, binit[s]
               PROVE  Asked(s) = answered[s]
                        + Cardinality(Pending("open", s) \cup Pending("accept", s))
                        + One(status[s] = "connect")
    BY DEF OpensAreAnswered
  <1>1. Balanced(s)
    BY Facts DEF AnsweredAt
  <1>2. Where(jobs, Opening(s)) = Pending("open", s) \cup Pending("accept", s)
    BY DEF Where, Opening, Pending
  <1> QED BY <1>1, <1>2 DEF Balanced, Count

\* For any number of calls, failures, closes and reopenings: what Listen, Connect or
\* the listener asked for is answered by exactly one On_Listen or On_Connect, or is
\* on its way to it, unless one opening has run over another.
THEOREM OpensAreAnsweredHolds == Spec => []OpensAreAnswered
  BY IInvHolds, IInvImpliesAnswered, PTL

=============================================================================
