--------------------------- MODULE MsTimer_proof ---------------------------
(***************************************************************************)
(* Proofs about MsTimer for any finite set of users and any number of      *)
(* calls.                                                                  *)
(*                                                                         *)
(* Inv is made inductive by how far the timer is (Stage): it has a         *)
(* callback exactly while its status is not null, and is registered only   *)
(* after real_wait found status_init, which Init can set once.             *)
(***************************************************************************)
EXTENDS MsTimer, SequenceTheorems, FiniteSetTheorems, TLAPS

Stage ==
    /\ hascb <=> tstat # "null"
    /\ hascb => hasio
    /\ tstat \in {"null", "init"} => ~registered
    /\ ending => ~armed

\* A timer that has ended stays as it is.
Ended == heard = "end" => hasio /\ ~armed /\ tstat \in {"end", "null"}

\* The parts of TypeOK and RefsBalanced.
Sets == holders \subseteq Users /\ stopping \subseteq holders
Flags ==
    /\ hasio \in BOOLEAN /\ hascb \in BOOLEAN /\ starting \in BOOLEAN /\ finied \in BOOLEAN
    /\ armed \in BOOLEAN /\ registered \in BOOLEAN /\ ending \in BOOLEAN
Kinds ==
    /\ tstat \in {"null", "init", "begin", "common", "end"}
    /\ phase \in {"open", "closing", "ending", "gone"}
    /\ heard \in {"none", "begin", "ok", "end"}
Numbers == mrefs \in Nat /\ trefs \in Nat /\ calls \in 0..Calls
Queued == queue \in Seq({"wait", "fini"})
MsBalanced == mrefs = Cardinality(holders) + One(hascb)
TimerBalanced == trefs = One(Alive) + Len(queue) + One(registered)

IInv ==
    /\ Sets /\ Flags /\ Kinds /\ Numbers /\ Queued
    /\ MsBalanced /\ TimerBalanced /\ CallbackAlive /\ Stage

LEMMA IInvSuffices == IInv => Inv
BY DEF IInv, Inv, TypeOK, RefsBalanced, Sets, Flags, Kinds, Numbers, Queued,
       MsBalanced, TimerBalanced

\* What Append and Tail do to a queue, and what one job more or less does to its length.
LEMMA QueueSteps ==
    ASSUME NEW J, NEW q \in Seq(J), NEW j \in J
    PROVE  /\ Append(q, j) \in Seq(J) /\ Len(Append(q, j)) = Len(q) + 1
           /\ Len(q) \in Nat
           /\ q # <<>> => Tail(q) \in Seq(J) /\ Len(Tail(q)) = Len(q) - 1
OBVIOUS

\* The users that remain, counted.
LEMMA HoldersCount ==
    ASSUME NEW H, H \subseteq Users, NEW u \in H
    PROVE  /\ Cardinality(H) \in Nat \ {0}
           /\ Cardinality(H \ {u}) = Cardinality(H) - 1
<1>1. IsFiniteSet(H)
  BY UsersAssumption, FS_Subset
<1>2. Cardinality(H) \in Nat /\ Cardinality(H \ {u}) = Cardinality(H) - 1
  BY <1>1, FS_CardinalityType, FS_RemoveElement
<1>3. Cardinality(H) # 0
  BY <1>1, FS_EmptySet
<1> QED BY <1>2, <1>3

LEMMA CountType ==
    ASSUME NEW H, H \subseteq Users
    PROVE  Cardinality(H) \in Nat
BY UsersAssumption, FS_Subset, FS_CardinalityType

LEMMA InitIInv == Init => IInv
<1> SUFFICES ASSUME Init PROVE IInv
  OBVIOUS
<1>1. Cardinality(Users) \in Nat \ {0}
  BY HoldersCount, UsersAssumption
<1>2. <<>> \in Seq({"wait", "fini"}) /\ Len(<<>>) = 0
  OBVIOUS
<1>3. calls \in 0..Calls
  BY CallsAssumption DEF Init
<1>4. Numbers /\ Queued /\ MsBalanced /\ TimerBalanced
  BY <1>1, <1>2, <1>3 DEF Init, Numbers, Queued, MsBalanced, TimerBalanced, One, Alive
<1> QED BY <1>4 DEF Init, IInv, Sets, Flags, Kinds, CallbackAlive, Stage

\* A condition counts for one or for nothing.
LEMMA OneType == \A condition : One(condition) \in {0, 1}
BY DEF One

\* Balanced counts are natural numbers.
LEMMA CountsType ==
    ASSUME Sets', Queued', MsBalanced', TimerBalanced'
    PROVE  mrefs' \in Nat /\ trefs' \in Nat
<1>1. Cardinality(holders') \in Nat /\ Len(queue') \in Nat
  BY CountType DEF Sets, Queued
<1> QED BY <1>1, OneType DEF MsBalanced, TimerBalanced

-----------------------------------------------------------------------------
(* Every action keeps IInv *)

LEMMA StartInitKeeps ==
    ASSUME IInv, NEW u \in Users, StartInit(u)
    PROVE  IInv'
<1> USE DEF StartInit, Idle, CanCall, timer, event
<1>0. /\ Sets /\ Flags /\ Kinds /\ Numbers /\ Queued
      /\ MsBalanced /\ TimerBalanced /\ CallbackAlive /\ Stage
  BY DEF IInv
<1>1. /\ Cardinality(holders) \in Nat \ {0} /\ Len(queue) \in Nat
      /\ Cardinality(holders \ {u}) = Cardinality(holders) - 1
  BY <1>0, HoldersCount, QueueSteps DEF Sets, Queued
<1>2. Sets' /\ Kinds'
  BY <1>0 DEF Sets, Kinds
<1>3. Flags'
  BY <1>0 DEF Flags
<1>4. Queued'
  BY <1>0, <1>1 DEF Queued
<1>5. MsBalanced'
  BY <1>0, <1>1 DEF Sets, Flags, Kinds, Numbers, MsBalanced, CallbackAlive, Stage, One
<1>6. One(Alive)' = One(Alive) /\ One(registered)' = One(registered)
  BY <1>0, <1>1 DEF Numbers, MsBalanced, One, Alive
<1>7. TimerBalanced'
  BY <1>0, <1>1, <1>6, OneType DEF TimerBalanced, Numbers
<1>8. Numbers'
  BY <1>0, <1>1, <1>2, <1>4, <1>5, <1>7, CallsAssumption, CountsType DEF Numbers, CanCall
<1>9. CallbackAlive' /\ Stage'
  BY <1>0 DEF Flags, Kinds, CallbackAlive, Stage
<1> QED BY <1>2, <1>3, <1>4, <1>5, <1>7, <1>8, <1>9 DEF IInv

LEMMA StartWaitKeeps ==
    ASSUME IInv, StartWait
    PROVE  IInv'
<1> USE DEF StartWait, timer, event
<1>0. /\ Sets /\ Flags /\ Kinds /\ Numbers /\ Queued
      /\ MsBalanced /\ TimerBalanced /\ CallbackAlive /\ Stage
  BY DEF IInv
<1>1. /\ Cardinality(holders) \in Nat /\ Len(queue) \in Nat
      /\ Append(queue, "wait") \in Seq({"wait", "fini"})
      /\ Len(Append(queue, "wait")) = Len(queue) + 1
  BY <1>0, QueueSteps, CountType DEF Sets, Queued
<1>2. Sets' /\ Kinds'
  BY <1>0 DEF Sets, Kinds
<1>3. Flags'
  BY <1>0 DEF Flags
<1>4. Queued'
  BY <1>0, <1>1 DEF Queued
<1>5. MsBalanced'
  BY <1>0, <1>1 DEF Sets, Flags, Kinds, Numbers, MsBalanced, CallbackAlive, Stage, One
<1>6. One(Alive)' = One(Alive) /\ One(registered)' = One(registered)
  BY <1>0, <1>1 DEF Numbers, MsBalanced, One, Alive
<1>7. TimerBalanced'
  BY <1>0, <1>1, <1>6, OneType DEF TimerBalanced, Numbers
<1>8. Numbers'
  BY <1>0, <1>1, <1>2, <1>4, <1>5, <1>7, CallsAssumption, CountsType DEF Numbers, CanCall
<1>9. CallbackAlive' /\ Stage'
  BY <1>0 DEF Flags, Kinds, CallbackAlive, Stage
<1> QED BY <1>2, <1>3, <1>4, <1>5, <1>7, <1>8, <1>9 DEF IInv

LEMMA StopTestKeeps ==
    ASSUME IInv, NEW u \in Users, StopTest(u)
    PROVE  IInv'
<1> USE DEF StopTest, CanCall, counts, timer, event
<1>0. /\ Sets /\ Flags /\ Kinds /\ Numbers /\ Queued
      /\ MsBalanced /\ TimerBalanced /\ CallbackAlive /\ Stage
  BY DEF IInv
<1>1. Cardinality(holders) \in Nat /\ Len(queue) \in Nat
  BY <1>0, CountType, QueueSteps DEF Sets, Queued
<1>2. Sets' /\ Kinds'
  BY <1>0 DEF Sets, Kinds
<1>3. Flags'
  BY <1>0 DEF Flags
<1>4. Queued'
  BY <1>0, <1>1 DEF Queued
<1>5. MsBalanced'
  BY <1>0, <1>1 DEF Sets, Flags, Kinds, Numbers, MsBalanced, CallbackAlive, Stage, One
<1>6. One(Alive)' = One(Alive) /\ One(registered)' = One(registered)
  BY <1>0, <1>1 DEF Numbers, MsBalanced, One, Alive
<1>7. TimerBalanced'
  BY <1>0, <1>1, <1>6, OneType DEF TimerBalanced, Numbers
<1>8. Numbers'
  BY <1>0, <1>1, <1>2, <1>4, <1>5, <1>7, CallsAssumption, CountsType DEF Numbers, CanCall
<1>9. CallbackAlive' /\ Stage'
  BY <1>0 DEF Flags, Kinds, CallbackAlive, Stage
<1> QED BY <1>2, <1>3, <1>4, <1>5, <1>7, <1>8, <1>9 DEF IInv

LEMMA StopPostKeeps ==
    ASSUME IInv, NEW u \in Users, StopPost(u)
    PROVE  IInv'
<1> USE DEF StopPost, timer, event
<1>0. /\ Sets /\ Flags /\ Kinds /\ Numbers /\ Queued
      /\ MsBalanced /\ TimerBalanced /\ CallbackAlive /\ Stage
  BY DEF IInv
<1>1. /\ Cardinality(holders) \in Nat /\ Len(queue) \in Nat
      /\ Append(queue, "fini") \in Seq({"wait", "fini"})
      /\ Len(Append(queue, "fini")) = Len(queue) + 1
  BY <1>0, QueueSteps, CountType DEF Sets, Queued
<1>2. Sets' /\ Kinds'
  BY <1>0 DEF Sets, Kinds
<1>3. Flags'
  BY <1>0 DEF Flags
<1>4. Queued'
  BY <1>0, <1>1 DEF Queued
<1>5. MsBalanced'
  BY <1>0, <1>1 DEF Sets, Flags, Kinds, Numbers, MsBalanced, CallbackAlive, Stage, One
<1>6. One(Alive)' = One(Alive) /\ One(registered)' = One(registered)
  BY <1>0, <1>1 DEF Numbers, MsBalanced, One, Alive
<1>7. TimerBalanced'
  BY <1>0, <1>1, <1>6, OneType DEF TimerBalanced, Numbers
<1>8. Numbers'
  BY <1>0, <1>1, <1>2, <1>4, <1>5, <1>7, CallsAssumption, CountsType DEF Numbers, CanCall
<1>9. CallbackAlive' /\ Stage'
  BY <1>0 DEF Flags, Kinds, CallbackAlive, Stage
<1> QED BY <1>2, <1>3, <1>4, <1>5, <1>7, <1>8, <1>9 DEF IInv

LEMMA UserReleaseKeeps ==
    ASSUME IInv, NEW u \in Users, UserRelease(u)
    PROVE  IInv'
<1> USE DEF UserRelease, timer, event
<1>0. /\ Sets /\ Flags /\ Kinds /\ Numbers /\ Queued
      /\ MsBalanced /\ TimerBalanced /\ CallbackAlive /\ Stage
  BY DEF IInv
<1>1. /\ Cardinality(holders) \in Nat \ {0} /\ Len(queue) \in Nat
      /\ Cardinality(holders \ {u}) = Cardinality(holders) - 1
  BY <1>0, HoldersCount, QueueSteps DEF Sets, Queued
<1>2. Sets' /\ Kinds'
  BY <1>0 DEF Sets, Kinds
<1>3. Flags'
  BY <1>0 DEF Flags
<1>4. Queued'
  BY <1>0, <1>1 DEF Queued
<1>5. MsBalanced'
  BY <1>0, <1>1 DEF Sets, Flags, Kinds, Numbers, MsBalanced, CallbackAlive, Stage, One
<1>6. One(registered)' = One(registered)
  BY <1>0 DEF CallbackAlive, One
<1>7. TimerBalanced'
  <2>1. mrefs >= 1
    BY <1>0, <1>1, OneType DEF MsBalanced, CallbackAlive, One
  <2>2. CASE mrefs = 1
    <3>1. One(Alive) = 1 /\ One(Alive)' = 0
      BY <1>0, <2>2 DEF Numbers, One, Alive
    <3> QED BY <1>0, <1>1, <1>6, <2>2, <3>1, OneType DEF TimerBalanced, Numbers
  <2>3. CASE mrefs # 1
    <3>1. One(Alive) = 1 /\ One(Alive)' = 1
      BY <1>0, <2>1, <2>3 DEF Numbers, One, Alive
    <3> QED BY <1>0, <1>1, <1>6, <2>3, <3>1, OneType DEF TimerBalanced, Numbers
  <2> QED BY <2>2, <2>3
<1>8. Numbers'
  BY <1>0, <1>1, <1>2, <1>4, <1>5, <1>7, CallsAssumption, CountsType DEF Numbers, CanCall
<1>9. CallbackAlive' /\ Stage'
  BY <1>0 DEF Flags, Kinds, CallbackAlive, Stage
<1> QED BY <1>2, <1>3, <1>4, <1>5, <1>7, <1>8, <1>9 DEF IInv

LEMMA RunWaitKeeps ==
    ASSUME IInv, RunWait
    PROVE  IInv'
<1> USE DEF RunWait, Runs
<1>0. /\ Sets /\ Flags /\ Kinds /\ Numbers /\ Queued
      /\ MsBalanced /\ TimerBalanced /\ CallbackAlive /\ Stage
  BY DEF IInv
<1>1. /\ Cardinality(holders) \in Nat /\ Len(queue) \in Nat
      /\ Tail(queue) \in Seq({"wait", "fini"}) /\ Len(Tail(queue)) = Len(queue) - 1
  BY <1>0, QueueSteps, CountType DEF Sets, Queued
<1>2. Sets' /\ Kinds'
  BY <1>0 DEF Sets, Kinds
<1>3. Flags'
  BY <1>0 DEF Flags
<1>4. Queued'
  BY <1>0, <1>1 DEF Queued
<1>5. MsBalanced'
  BY <1>0, <1>1 DEF Sets, Flags, Kinds, Numbers, MsBalanced, CallbackAlive, Stage, One
<1>6. One(Alive)' = One(Alive)
  BY <1>0 DEF One, Alive
<1>7. TimerBalanced'
  <2>1. CASE tstat = "init"
    <3>1. One(registered) = 0 /\ One(registered)' = 1
      BY <1>0, <2>1 DEF Stage, One
    <3> QED BY <1>0, <1>1, <1>6, <2>1, <3>1, OneType DEF TimerBalanced, Numbers
  <2>2. CASE tstat # "init"
    <3>1. One(registered)' = One(registered)
      BY <1>0, <2>2 DEF One
    <3> QED BY <1>0, <1>1, <1>6, <2>2, <3>1, OneType DEF TimerBalanced, Numbers
  <2> QED BY <2>1, <2>2
<1>8. Numbers'
  BY <1>0, <1>1, <1>2, <1>4, <1>5, <1>7, CallsAssumption, CountsType DEF Numbers, CanCall
<1>9. CallbackAlive' /\ Stage'
  BY <1>0 DEF Flags, Kinds, CallbackAlive, Stage
<1> QED BY <1>2, <1>3, <1>4, <1>5, <1>7, <1>8, <1>9 DEF IInv

LEMMA RunFiniKeeps ==
    ASSUME IInv, RunFini
    PROVE  IInv'
<1> USE DEF RunFini, Runs, event
<1>0. /\ Sets /\ Flags /\ Kinds /\ Numbers /\ Queued
      /\ MsBalanced /\ TimerBalanced /\ CallbackAlive /\ Stage
  BY DEF IInv
<1>1. /\ Cardinality(holders) \in Nat /\ Len(queue) \in Nat
      /\ Tail(queue) \in Seq({"wait", "fini"}) /\ Len(Tail(queue)) = Len(queue) - 1
  BY <1>0, QueueSteps, CountType DEF Sets, Queued
<1>2. Sets' /\ Kinds'
  BY <1>0 DEF Sets, Kinds
<1>3. Flags'
  BY <1>0 DEF Flags
<1>4. Queued'
  BY <1>0, <1>1 DEF Queued
<1>5. MsBalanced'
  BY <1>0, <1>1 DEF Sets, Flags, Kinds, Numbers, MsBalanced, CallbackAlive, Stage, One
<1>6. One(Alive)' = One(Alive) /\ One(registered)' = One(registered)
  BY <1>0, <1>1 DEF Numbers, MsBalanced, One, Alive
<1>7. TimerBalanced'
  BY <1>0, <1>1, <1>6, OneType DEF TimerBalanced, Numbers
<1>8. Numbers'
  BY <1>0, <1>1, <1>2, <1>4, <1>5, <1>7, CallsAssumption, CountsType DEF Numbers, CanCall
<1>9. CallbackAlive' /\ Stage'
  BY <1>0 DEF Flags, Kinds, CallbackAlive, Stage
<1> QED BY <1>2, <1>3, <1>4, <1>5, <1>7, <1>8, <1>9 DEF IInv

LEMMA TickKeeps ==
    ASSUME IInv, Tick
    PROVE  IInv'
<1> USE DEF Tick, counts
<1>0. /\ Sets /\ Flags /\ Kinds /\ Numbers /\ Queued
      /\ MsBalanced /\ TimerBalanced /\ CallbackAlive /\ Stage
  BY DEF IInv
<1>1. Cardinality(holders) \in Nat /\ Len(queue) \in Nat
  BY <1>0, CountType, QueueSteps DEF Sets, Queued
<1>2. Sets' /\ Kinds'
  BY <1>0 DEF Sets, Kinds
<1>3. Flags'
  BY <1>0 DEF Flags
<1>4. Queued'
  BY <1>0, <1>1 DEF Queued
<1>5. MsBalanced'
  BY <1>0, <1>1 DEF Sets, Flags, Kinds, Numbers, MsBalanced, CallbackAlive, Stage, One
<1>6. One(Alive)' = One(Alive) /\ One(registered)' = One(registered)
  BY <1>0, <1>1 DEF Numbers, MsBalanced, One, Alive
<1>7. TimerBalanced'
  BY <1>0, <1>1, <1>6, OneType DEF TimerBalanced, Numbers
<1>8. Numbers'
  BY <1>0, <1>1, <1>2, <1>4, <1>5, <1>7, CallsAssumption, CountsType DEF Numbers, CanCall
<1>9. CallbackAlive' /\ Stage'
  BY <1>0 DEF Flags, Kinds, CallbackAlive, Stage
<1> QED BY <1>2, <1>3, <1>4, <1>5, <1>7, <1>8, <1>9 DEF IInv

LEMMA EndCallbackKeeps ==
    ASSUME IInv, EndCallback
    PROVE  IInv'
<1> USE DEF EndCallback, counts, timer
<1>0. /\ Sets /\ Flags /\ Kinds /\ Numbers /\ Queued
      /\ MsBalanced /\ TimerBalanced /\ CallbackAlive /\ Stage
  BY DEF IInv
<1>1. Cardinality(holders) \in Nat /\ Len(queue) \in Nat
  BY <1>0, CountType, QueueSteps DEF Sets, Queued
<1>2. Sets' /\ Kinds'
  BY <1>0 DEF Sets, Kinds
<1>3. Flags'
  BY <1>0 DEF Flags
<1>4. Queued'
  BY <1>0, <1>1 DEF Queued
<1>5. MsBalanced'
  BY <1>0, <1>1 DEF Sets, Flags, Kinds, Numbers, MsBalanced, CallbackAlive, Stage, One
<1>6. One(Alive)' = One(Alive) /\ One(registered)' = One(registered)
  BY <1>0, <1>1 DEF Numbers, MsBalanced, One, Alive
<1>7. TimerBalanced'
  BY <1>0, <1>1, <1>6, OneType DEF TimerBalanced, Numbers
<1>8. Numbers'
  BY <1>0, <1>1, <1>2, <1>4, <1>5, <1>7, CallsAssumption, CountsType DEF Numbers, CanCall
<1>9. CallbackAlive' /\ Stage'
  BY <1>0 DEF Flags, Kinds, CallbackAlive, Stage
<1> QED BY <1>2, <1>3, <1>4, <1>5, <1>7, <1>8, <1>9 DEF IInv

LEMMA EndTimerKeeps ==
    ASSUME IInv, EndTimer
    PROVE  IInv'
<1> USE DEF EndTimer
<1>0. /\ Sets /\ Flags /\ Kinds /\ Numbers /\ Queued
      /\ MsBalanced /\ TimerBalanced /\ CallbackAlive /\ Stage
  BY DEF IInv
<1>1. Cardinality(holders) \in Nat /\ Len(queue) \in Nat
  BY <1>0, CountType, QueueSteps DEF Sets, Queued
<1>2. Sets' /\ Kinds'
  BY <1>0 DEF Sets, Kinds
<1>3. Flags'
  BY <1>0 DEF Flags
<1>4. Queued'
  BY <1>0, <1>1 DEF Queued
<1>5. MsBalanced'
  BY <1>0, <1>1 DEF Sets, Flags, Kinds, Numbers, MsBalanced, CallbackAlive, Stage, One
<1>6. One(registered) = 1 /\ One(registered)' = 0
  BY <1>0 DEF CallbackAlive, One
<1>7. TimerBalanced'
  <2>1. mrefs >= 1
    BY <1>0, <1>1, OneType DEF MsBalanced, CallbackAlive, One
  <2>2. CASE mrefs = 1
    <3>1. One(Alive) = 1 /\ One(Alive)' = 0
      BY <1>0, <2>2 DEF Numbers, One, Alive
    <3> QED BY <1>0, <1>1, <1>6, <2>2, <3>1, OneType DEF TimerBalanced, Numbers
  <2>3. CASE mrefs # 1
    <3>1. One(Alive) = 1 /\ One(Alive)' = 1
      BY <1>0, <2>1, <2>3 DEF Numbers, One, Alive
    <3> QED BY <1>0, <1>1, <1>6, <2>3, <3>1, OneType DEF TimerBalanced, Numbers
  <2> QED BY <2>2, <2>3
<1>8. Numbers'
  BY <1>0, <1>1, <1>2, <1>4, <1>5, <1>7, CallsAssumption, CountsType DEF Numbers, CanCall
<1>9. CallbackAlive' /\ Stage'
  BY <1>0 DEF Flags, Kinds, CallbackAlive, Stage
<1> QED BY <1>2, <1>3, <1>4, <1>5, <1>7, <1>8, <1>9 DEF IInv

LEMMA SweepKeeps ==
    ASSUME IInv, Sweep
    PROVE  IInv'
<1> USE DEF Sweep, timer, event
<1>0. /\ Sets /\ Flags /\ Kinds /\ Numbers /\ Queued
      /\ MsBalanced /\ TimerBalanced /\ CallbackAlive /\ Stage
  BY DEF IInv
<1>1. /\ Cardinality(holders) \in Nat /\ Len(queue) \in Nat
      /\ Append(queue, "fini") \in Seq({"wait", "fini"})
      /\ Len(Append(queue, "fini")) = Len(queue) + 1
  BY <1>0, QueueSteps, CountType DEF Sets, Queued
<1>2. Sets' /\ Kinds'
  BY <1>0 DEF Sets, Kinds
<1>3. Flags'
  BY <1>0 DEF Flags
<1>4. Queued'
  BY <1>0, <1>1 DEF Queued
<1>5. MsBalanced'
  BY <1>0, <1>1 DEF Sets, Flags, Kinds, Numbers, MsBalanced, CallbackAlive, Stage, One
<1>6. One(Alive)' = One(Alive) /\ One(registered)' = One(registered)
  BY <1>0, <1>1 DEF Numbers, MsBalanced, One, Alive
<1>7. TimerBalanced'
  <2>1. trefs' = trefs + 1 /\ Len(queue') = Len(queue) + 1
    BY <1>1
  <2> HIDE DEF Sweep
  <2> QED BY <1>0, <1>1, <1>6, <2>1, OneType DEF TimerBalanced, Numbers
<1>8. Numbers'
  BY <1>0, <1>1, <1>2, <1>4, <1>5, <1>7, CallsAssumption, CountsType DEF Numbers, CanCall
<1>9. CallbackAlive' /\ Stage'
  BY <1>0 DEF Flags, Kinds, CallbackAlive, Stage
<1> QED BY <1>2, <1>3, <1>4, <1>5, <1>7, <1>8, <1>9 DEF IInv

LEMMA PhaseKeeps ==
    ASSUME IInv, Closes \/ Finishes \/ Goes
    PROVE  IInv'
<1> USE DEF Closes, Finishes, Goes, counts, timer, event
<1>0. /\ Sets /\ Flags /\ Kinds /\ Numbers /\ Queued
      /\ MsBalanced /\ TimerBalanced /\ CallbackAlive /\ Stage
  BY DEF IInv
<1>1. Sets' /\ Kinds'
  BY <1>0 DEF Sets, Kinds
<1>2. Flags' /\ Numbers' /\ Queued'
  BY <1>0 DEF Flags, Numbers, Queued
<1>3. UNCHANGED <<mrefs, trefs, holders, hascb, queue, registered>>
  OBVIOUS
<1>4. MsBalanced' /\ TimerBalanced'
  BY <1>0, <1>3 DEF MsBalanced, TimerBalanced, One, Alive
<1>5. CallbackAlive' /\ Stage'
  BY <1>0 DEF CallbackAlive, Stage
<1> QED BY <1>1, <1>2, <1>4, <1>5 DEF IInv

LEMMA StutterKeeps == IInv /\ UNCHANGED vars => IInv'
<1> SUFFICES ASSUME IInv, UNCHANGED vars PROVE IInv'
  OBVIOUS
<1> USE DEF vars
<1>1. Sets' /\ Kinds' /\ Numbers' /\ Queued'
  BY DEF IInv, Sets, Kinds, Numbers, Queued
<1>2. Flags'
  BY DEF IInv, Flags
<1>3. MsBalanced' /\ TimerBalanced'
  BY DEF IInv, MsBalanced, TimerBalanced, One, Alive
<1>4. CallbackAlive' /\ Stage'
  BY DEF IInv, CallbackAlive, Stage
<1> QED BY <1>1, <1>2, <1>3, <1>4 DEF IInv

LEMMA StepIInv == IInv /\ [Next]_vars => IInv'
BY StartInitKeeps, StartWaitKeeps, StopTestKeeps, StopPostKeeps, UserReleaseKeeps,
   RunWaitKeeps, RunFiniKeeps, TickKeeps, EndCallbackKeeps, EndTimerKeeps, SweepKeeps,
   PhaseKeeps, StutterKeeps
   DEF Next, IOStep, UserStep

-----------------------------------------------------------------------------
(* The theorems *)

\* The counts of the CMsTimer and of its CTimer are those of their holders, and
\* an event that can come finds both alive, for any users and calls.
THEOREM TimersAreBalanced == Spec => []Inv
BY InitIInv, StepIInv, IInvSuffices, PTL DEF Spec

\* Nothing makes a timer tick again that has ended or was stopped before it ran.
THEOREM TimersLiveOnce == Spec => OneLife
<1> DEFINE Once == heard = "end" \/ (tstat = "end" /\ ~armed) => ~armed'
<1>1. Init => Ended
  BY DEF Init, Ended
<1>2. ASSUME IInv, Ended, [Next]_vars
      PROVE  Ended' /\ [Once]_vars
  <2>1. Stage /\ CallbackAlive
    BY <1>2 DEF IInv
  <2>2. CASE UNCHANGED vars
    BY <1>2, <2>2 DEF Ended, vars
  <2>3. CASE \E u \in Users : StartInit(u)
    BY <1>2, <2>1, <2>3 DEF Ended, StartInit, timer, event, Stage
  <2>4. CASE RunWait
    BY <1>2, <2>1, <2>4 DEF Ended, RunWait
  <2>5. CASE RunFini
    BY <1>2, <2>1, <2>5 DEF Ended, RunFini, event
  <2>6. CASE Tick
    BY <1>2, <2>1, <2>6 DEF Ended, Tick
  <2>7. CASE EndCallback
    BY <1>2, <2>1, <2>7 DEF Ended, EndCallback, timer, Stage, CallbackAlive
  <2>8. CASE EndTimer
    BY <1>2, <2>1, <2>8 DEF Ended, EndTimer
  <2>9. CASE UNCHANGED <<timer, event>>
    BY <1>2, <2>9 DEF Ended, timer, event
  <2> QED BY <1>2, <2>2, <2>3, <2>4, <2>5, <2>6, <2>7, <2>8, <2>9
          DEF Next, IOStep, UserStep, StartWait, StopTest, StopPost, UserRelease, Sweep,
              Finishes, Goes, Closes
<1>3. QED
  BY InitIInv, StepIInv, <1>1, <1>2, PTL DEF Spec, OneLife

=============================================================================
