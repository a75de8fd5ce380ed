-------------------------- MODULE PostQueue_proof --------------------------
(***************************************************************************)
(* Proofs about PostQueue for any set of posters, any bound on the posts   *)
(* and any set of throwing jobs.                                           *)
(*                                                                         *)
(* The inductive invariant IInv says where every thread stands: a thread   *)
(* inside Post works on the queue m_curpost names (it could not be swapped *)
(* under it), the IO thread drains the other one, and a job that runs is   *)
(* still the head of its queue.                                            *)
(***************************************************************************)
EXTENDS PostQueue, SequenceTheorems, TLAPS

PostersOnCurrent == \A t \in Threads : pc[t] # "out" => slot[t] = curpost

DrainsOther == iopc # "idle" => pcur = 1 - curpost

RunsFront == iopc = "run" => postdata[pcur] # <<>>

RoomToPush == \A t \in Threads : pc[t] = "push" => sent[t] < MaxPosts

IInv ==
    /\ TypeOK
    /\ PostersOnCurrent
    /\ DrainsOther
    /\ RunsFront
    /\ RoomToPush

\* The initial state satisfies the inductive invariant.
LEMMA InitIInv == Init => IInv
  <1> SUFFICES ASSUME Init PROVE IInv
    OBVIOUS
  <1>1. postdata \in [{0, 1} -> Seq(Job)] /\ order \in Seq(Job) /\ done \in Seq(Job)
    BY EmptySeq DEF Init
  <1>2. sent \in [Threads -> 0..MaxPosts]
    BY PostsAssumption DEF Init
  <1> QED BY <1>1, <1>2
          DEF Init, IInv, TypeOK, PostersOnCurrent, DrainsOther, RunsFront, RoomToPush

\* Post preserves the inductive invariant.
LEMMA PostStepIInv ==
    ASSUME IInv, NEW t \in Threads, PostStep(t)
    PROVE  IInv'
  <1> USE PostsAssumption
  <1>1. CASE LockPost(t)
    BY <1>1 DEF IInv, TypeOK, PostersOnCurrent, DrainsOther, RunsFront, RoomToPush,
                LockPost, MutexFree
  <1>2. CASE Push(t)
    <2> DEFINE j == <<t, sent[t] + 1>>
    <2>1. sent[t] \in 0..MaxPosts /\ sent[t] < MaxPosts
      BY <1>2 DEF IInv, TypeOK, RoomToPush, Push
    <2>2. j \in Job
      BY <2>1 DEF Job
    <2>3. slot[t] \in {0, 1} /\ slot[t] = curpost
      BY <1>2 DEF IInv, TypeOK, PostersOnCurrent, Push
    <2>4. /\ postdata' = [postdata EXCEPT ![slot[t]] = Append(postdata[slot[t]], j)]
          /\ order' = Append(order, j)
      BY <1>2 DEF Push
    <2> HIDE DEF j
    <2>5. postdata' \in [{0, 1} -> Seq(Job)] /\ order' \in Seq(Job)
      BY <2>2, <2>3, <2>4 DEF IInv, TypeOK
    <2>6. TypeOK'
      BY <1>2, <2>1, <2>5 DEF IInv, TypeOK, Push
    <2>7. PostersOnCurrent' /\ DrainsOther' /\ RoomToPush'
      BY <1>2 DEF IInv, TypeOK, PostersOnCurrent, DrainsOther, RoomToPush, Push
    <2>8. RunsFront'
      <3>1. SUFFICES ASSUME iopc' = "run" PROVE postdata'[pcur'] # <<>>
        BY DEF RunsFront
      <3>2. iopc = "run" /\ pcur' = pcur
        BY <1>2, <3>1 DEF Push
      <3>3. pcur \in {0, 1} /\ curpost \in {0, 1} /\ pcur = 1 - curpost /\ postdata[pcur] # <<>>
        BY <3>2 DEF IInv, TypeOK, DrainsOther, RunsFront
      <3>4. postdata'[pcur] = postdata[pcur]
        BY <2>3, <2>4, <3>3 DEF IInv, TypeOK
      <3> QED BY <3>2, <3>3, <3>4
    <2> QED BY <2>6, <2>7, <2>8 DEF IInv
  <1>3. CASE SetFlag(t)
    BY <1>3 DEF IInv, TypeOK, PostersOnCurrent, DrainsOther, RunsFront, RoomToPush, SetFlag
  <1> QED BY <1>1, <1>2, <1>3 DEF PostStep

\* real_post preserves the inductive invariant.
LEMMA RealPostIInv ==
    ASSUME IInv, RealPost
    PROVE  IInv'
  <1>1. CASE Swap
    <2>1. /\ curpost' \in {0, 1}
          /\ pcur' = 1 - curpost'
          /\ pcur' \in {0, 1}
      <3>1. curpost = 0 \/ curpost = 1
        BY DEF IInv, TypeOK
      <3> QED BY <1>1, <3>1 DEF Swap
    <2>2. \A t \in Threads : pc'[t] = "out"
      BY <1>1 DEF Swap, MutexFree
    <2>3. TypeOK'
      BY <1>1, <2>1 DEF IInv, TypeOK, Swap
    <2> QED BY <1>1, <2>1, <2>2, <2>3
            DEF IInv, PostersOnCurrent, DrainsOther, RunsFront, RoomToPush, Swap
  <1>2. CASE Front
    BY <1>2 DEF IInv, TypeOK, PostersOnCurrent, DrainsOther, RunsFront, RoomToPush, Front
  <1>3. CASE Pop
    <2>1. pcur \in {0, 1} /\ postdata[pcur] \in Seq(Job) /\ postdata[pcur] # <<>>
      BY <1>3 DEF IInv, TypeOK, RunsFront, Pop
    <2>2. Head(postdata[pcur]) \in Job /\ Tail(postdata[pcur]) \in Seq(Job)
      BY <2>1, HeadTailProperties
    <2>3. postdata' \in [{0, 1} -> Seq(Job)] /\ done' \in Seq(Job)
      BY <1>3, <2>1, <2>2 DEF IInv, TypeOK, Pop
    <2> QED BY <1>3, <2>3
            DEF IInv, TypeOK, PostersOnCurrent, DrainsOther, RunsFront, RoomToPush, Pop
  <1>4. CASE Throw
    BY <1>4 DEF IInv, TypeOK, PostersOnCurrent, DrainsOther, RunsFront, RoomToPush, Throw
  <1>5. CASE EndDrain
    BY <1>5 DEF IInv, TypeOK, PostersOnCurrent, DrainsOther, RunsFront, RoomToPush, EndDrain
  <1> QED BY <1>1, <1>2, <1>3, <1>4, <1>5 DEF RealPost

LEMMA StepIInv == IInv /\ [Next]_vars => IInv'
  <1> SUFFICES ASSUME IInv, [Next]_vars PROVE IInv'
    OBVIOUS
  <1>1. CASE UNCHANGED vars
    BY <1>1 DEF IInv, TypeOK, PostersOnCurrent, DrainsOther, RunsFront, RoomToPush, vars
  <1>2. CASE Next
    BY <1>2, PostStepIInv, RealPostIInv DEF Next
  <1> QED BY <1>1, <1>2

\* The inductive invariant holds in every reachable state.
THEOREM Inductive == Spec => []IInv
  BY InitIInv, StepIInv, PTL DEF Spec

\* Every variable of the post queue keeps its type.
THEOREM TypeCorrect == Spec => []TypeOK
  <1>1. IInv => TypeOK
    BY DEF IInv
  <1> QED BY <1>1, Inductive, PTL

\* The IO thread and a poster are never on one std::queue at a time, although
\* only the poster holds m_postmutex.
THEOREM DrainIsExclusive == Spec => []DrainExclusive
  <1>1. IInv => DrainExclusive
    <2> SUFFICES ASSUME IInv, iopc \in {"drain", "run"},
                        NEW t \in Threads, pc[t] \in {"push", "flag"}
                 PROVE  slot[t] # pcur
      BY DEF DrainExclusive
    <2>1. slot[t] = curpost
      BY DEF IInv, PostersOnCurrent
    <2>2. pcur = 1 - curpost /\ (curpost = 0 \/ curpost = 1)
      BY DEF IInv, TypeOK, DrainsOther
    <2> QED BY <2>1, <2>2
  <1> QED BY <1>1, Inductive, PTL

-----------------------------------------------------------------------------
(* The queue without throwing jobs *)

\* The queue that is taken next has been emptied before the next swap.
IdleIsDrained == iopc = "idle" => postdata[1 - curpost] = <<>>

FInv == FifoExactlyOnce /\ IdleIsDrained

LEMMA InitFInv == Init => FInv
  <1> SUFFICES ASSUME Init PROVE FInv
    OBVIOUS
  <1>1. postdata[0] = <<>> /\ postdata[1] = <<>> /\ curpost = 0
    BY DEF Init
  <1> QED BY <1>1 DEF Init, FInv, FifoExactlyOnce, IdleIsDrained

\* Appending to the last of two concatenated sequences.
LEMMA AppendSecond ==
    ASSUME NEW b \in Seq(Job), NEW c \in Seq(Job), NEW e \in Job
    PROVE  Append(b \o c, e) = b \o Append(c, e)
  <1>1. b \o c \in Seq(Job) /\ <<e>> \in Seq(Job)
    BY ConcatProperties
  <1>2. Append(b \o c, e) = (b \o c) \o <<e>> /\ Append(c, e) = c \o <<e>>
    BY <1>1, AppendIsConcat
  <1>3. (b \o c) \o <<e>> = b \o (c \o <<e>>)
    BY <1>1, ConcatAssociative
  <1> QED BY <1>2, <1>3

\* Appending to the last of three concatenated sequences.
LEMMA AppendLast ==
    ASSUME NEW a \in Seq(Job), NEW b \in Seq(Job), NEW c \in Seq(Job), NEW e \in Job
    PROVE  Append(a \o b \o c, e) = a \o b \o Append(c, e)
  <1>1. a \o b \in Seq(Job)
    BY ConcatProperties
  <1> QED BY <1>1, AppendSecond

\* Moving the head of the second of three sequences to the end of the first.
LEMMA MoveHead ==
    ASSUME NEW a \in Seq(Job), NEW b \in Seq(Job), NEW c \in Seq(Job), b # <<>>
    PROVE  /\ Append(a, Head(b)) \o Tail(b) \o c = a \o b \o c
           /\ Tail(b \o c) = Tail(b) \o c
           /\ Head(b \o c) = Head(b)
           /\ b \o c # <<>>
  <1>1. Head(b) \in Job /\ Tail(b) \in Seq(Job) /\ b \in Seq(Job)
    BY HeadTailProperties
  <1>2. Append(a, Head(b)) \o Tail(b) = a \o b
    BY <1>1
  <1>3. Tail(b \o c) = Tail(b) \o c /\ Head(b \o c) = Head(b) /\ b \o c # <<>>
    BY <1>1
  <1> QED BY <1>2, <1>3

\* The parts of the two queues a step of Post or of the drain can touch.
LEMMA QueueTypes ==
    ASSUME IInv
    PROVE  /\ curpost \in {0, 1} /\ 1 - curpost \in {0, 1} /\ 1 - curpost # curpost
           /\ postdata[curpost] \in Seq(Job)
           /\ postdata[1 - curpost] \in Seq(Job)
           /\ done \in Seq(Job) /\ order \in Seq(Job)
           /\ DOMAIN postdata = {0, 1}
  <1>1. curpost \in {0, 1} /\ postdata \in [{0, 1} -> Seq(Job)]
    BY DEF IInv, TypeOK
  <1>2. 1 - curpost \in {0, 1} /\ 1 - curpost # curpost
    BY <1>1
  <1> QED BY <1>1, <1>2 DEF IInv, TypeOK

\* What Push and Pop do to the two queues, in terms of m_curpost.
LEMMA PushEffect ==
    ASSUME IInv, NEW t \in Threads, Push(t)
    PROVE  \E j \in Job :
              /\ order' = Append(order, j)
              /\ postdata'[curpost] = Append(postdata[curpost], j)
              /\ postdata'[1 - curpost] = postdata[1 - curpost]
              /\ curpost' = curpost /\ done' = done /\ iopc' = iopc
  <1>1. sent[t] \in 0..MaxPosts /\ sent[t] < MaxPosts
    BY DEF IInv, TypeOK, RoomToPush, Push
  <1>2. <<t, sent[t] + 1>> \in Job
    BY <1>1, PostsAssumption DEF Job
  <1>3. slot[t] = curpost
    BY DEF IInv, PostersOnCurrent, Push
  <1> QED BY <1>2, <1>3, QueueTypes DEF Push

LEMMA PopEffect ==
    ASSUME IInv, Pop
    PROVE  /\ postdata[1 - curpost] # <<>>
           /\ done' = Append(done, Head(postdata[1 - curpost]))
           /\ postdata'[1 - curpost] = Tail(postdata[1 - curpost])
           /\ postdata'[curpost] = postdata[curpost]
           /\ curpost' = curpost /\ order' = order
           /\ iopc = "run" /\ iopc' = "drain"
  <1>1. pcur = 1 - curpost
    BY DEF IInv, DrainsOther, Pop
  <1>2. postdata[1 - curpost] # <<>>
    BY <1>1 DEF IInv, RunsFront, Pop
  <1> QED BY <1>1, <1>2, QueueTypes DEF Pop

\* Swap turns the queue that was filled into the queue to drain.
LEMMA SwapEffect ==
    ASSUME IInv, Swap
    PROVE  /\ curpost' = 1 - curpost /\ 1 - curpost' = curpost
           /\ UNCHANGED <<postdata, order, done>>
           /\ iopc = "idle" /\ iopc' = "drain"
  <1>1. curpost = 0 \/ curpost = 1
    BY DEF IInv, TypeOK
  <1> QED BY <1>1 DEF Swap

\* The steps that leave queues and histories alone.
LEMMA QuietEffect ==
    ASSUME IInv,
           \/ \E t \in Threads : LockPost(t) \/ SetFlag(t)
           \/ Front \/ EndDrain \/ UNCHANGED vars
    PROVE  /\ UNCHANGED <<postdata, curpost, order, done>>
           /\ iopc' = iopc \/ Front \/ (iopc' = "idle" /\ postdata[1 - curpost] = <<>>)
  <1>1. EndDrain => pcur = 1 - curpost
    BY DEF IInv, DrainsOther, EndDrain
  <1> QED BY <1>1 DEF LockPost, SetFlag, Front, EndDrain, vars

\* Without throwing jobs every step keeps the queue in order.
LEMMA StepFInv ==
    ASSUME Poison = {}, IInv, FInv, [Next]_vars
    PROVE  FInv'
  <1>0. /\ done \in Seq(Job)
        /\ postdata[curpost] \in Seq(Job)
        /\ postdata[1 - curpost] \in Seq(Job)
    BY QueueTypes
  <1>1. ASSUME NEW t \in Threads, Push(t) PROVE FInv'
    <2>1. PICK j \in Job :
              /\ order' = Append(order, j)
              /\ postdata'[curpost] = Append(postdata[curpost], j)
              /\ postdata'[1 - curpost] = postdata[1 - curpost]
              /\ curpost' = curpost /\ done' = done /\ iopc' = iopc
      BY <1>1, PushEffect
    <2>2. Append(done \o postdata[1 - curpost] \o postdata[curpost], j)
              = done \o postdata[1 - curpost] \o Append(postdata[curpost], j)
      BY <1>0, <2>1, AppendLast
    <2> QED BY <2>1, <2>2 DEF FInv, FifoExactlyOnce, IdleIsDrained
  <1>2. CASE Pop
    <2>0. postdata[1 - curpost] # <<>>
      BY <1>2, PopEffect
    <2>1. Append(done, Head(postdata[1 - curpost])) \o Tail(postdata[1 - curpost]) \o postdata[curpost]
              = done \o postdata[1 - curpost] \o postdata[curpost]
      <3> DEFINE b == postdata[1 - curpost]
                 c == postdata[curpost]
      <3>1. b \in Seq(Job) /\ c \in Seq(Job) /\ b # <<>> /\ done \in Seq(Job)
        BY <1>0, <2>0
      <3> HIDE DEF b, c
      <3>2. Append(done, Head(b)) \o Tail(b) \o c = done \o b \o c
        BY <3>1, MoveHead
      <3> QED BY <3>2 DEF b, c
    <2> QED BY <1>2, <2>1, PopEffect DEF FInv, FifoExactlyOnce, IdleIsDrained
  <1>3. CASE Swap
    <2>1. postdata[1 - curpost] = <<>>
      BY <1>3, SwapEffect DEF FInv, IdleIsDrained
    <2>2. done \o postdata[1 - curpost] \o postdata[curpost]
              = done \o postdata[curpost] \o postdata[1 - curpost]
      BY <1>0, <2>1, ConcatEmptySeq, ConcatProperties
    <2> QED BY <1>3, <2>1, <2>2, SwapEffect DEF FInv, FifoExactlyOnce, IdleIsDrained
  <1>4. CASE (\E t \in Threads : LockPost(t) \/ SetFlag(t)) \/ EndDrain \/ Front \/ UNCHANGED vars
    <2>1. Front => iopc' = "run"
      BY DEF Front
    <2> QED BY <1>4, <2>1, QuietEffect DEF FInv, FifoExactlyOnce, IdleIsDrained
  <1>5. ~Throw
    BY DEF Throw
  <1> QED BY <1>1, <1>2, <1>3, <1>4, <1>5 DEF Next, PostStep, RealPost

\* When no job throws, no job is lost, repeated or overtaken: the jobs pushed
\* are the jobs completed, then the batch, then the queue being filled.
THEOREM Fifo == ASSUME Poison = {} PROVE Spec => []FifoExactlyOnce
  <1>1. Init => FInv
    BY InitFInv
  <1>2. IInv /\ FInv /\ [Next]_vars => FInv'
    BY StepFInv
  <1>3. FInv => FifoExactlyOnce
    BY DEF FInv
  <1> QED BY <1>1, <1>2, <1>3, Inductive, PTL DEF Spec

\* When no job throws, the two queues, the flag and the swap implement the
\* one mailbox of Mailbox.tla.
THEOREM Implements == ASSUME Poison = {} PROVE Spec => ImplementsMailbox
  <1>1. Init => Mail!MInit
    <2> SUFFICES ASSUME Init PROVE Mail!MInit
      OBVIOUS
    <2>1. postdata[0] = <<>> /\ postdata[1] = <<>> /\ curpost = 0
      BY DEF Init
    <2> QED BY <2>1 DEF Init, Mail!MInit
  <1>2. IInv /\ FInv /\ FInv' /\ [Next]_vars => [Mail!MNext]_(Mail!mvars)
    <2> SUFFICES ASSUME IInv, FInv, FInv', [Next]_vars
                 PROVE  [Mail!MNext]_(Mail!mvars)
      OBVIOUS
    <2>0. /\ done \in Seq(Job)
          /\ postdata[curpost] \in Seq(Job)
          /\ postdata[1 - curpost] \in Seq(Job)
      BY QueueTypes
    <2>1. ASSUME NEW t \in Threads, Push(t) PROVE Mail!MNext
      <3>1. PICK j \in Job :
                /\ order' = Append(order, j)
                /\ postdata'[curpost] = Append(postdata[curpost], j)
                /\ postdata'[1 - curpost] = postdata[1 - curpost]
                /\ curpost' = curpost /\ done' = done /\ iopc' = iopc
        BY <2>1, PushEffect
      <3>2. Append(postdata[1 - curpost] \o postdata[curpost], j)
                = postdata[1 - curpost] \o Append(postdata[curpost], j)
        BY <2>0, <3>1, AppendSecond
      <3>3. Mail!MPost(j)
        BY <3>1, <3>2 DEF Mail!MPost
      <3> QED BY <3>3 DEF Mail!MNext
    <2>2. CASE Front
      <3>1. pcur = 1 - curpost
        BY <2>2 DEF IInv, DrainsOther, Front
      <3>2. postdata[1 - curpost] \o postdata[curpost] # <<>>
        BY <2>0, <2>2, <3>1, MoveHead DEF Front
      <3>3. (iopc = "run") = FALSE /\ (iopc' = "run") = TRUE
        BY <2>2 DEF Front
      <3>4. UNCHANGED <<postdata, curpost, done>>
        BY <2>2 DEF Front
      <3>5. Mail!MStart
        BY ONLY <3>2, <3>3, <3>4 DEF Mail!MStart
      <3> QED BY <3>5 DEF Mail!MNext
    <2>3. CASE Pop
      <3>0. postdata[1 - curpost] # <<>>
        BY <2>3, PopEffect
      <3>1. /\ Tail(postdata[1 - curpost] \o postdata[curpost])
                   = Tail(postdata[1 - curpost]) \o postdata[curpost]
            /\ Head(postdata[1 - curpost] \o postdata[curpost]) = Head(postdata[1 - curpost])
        BY ONLY <2>0, <3>0, MoveHead
      <3>2. Mail!MFinish
        BY <2>3, <3>1, PopEffect DEF Mail!MFinish
      <3> QED BY <3>2 DEF Mail!MNext
    <2>4. CASE Swap
      <3>1. postdata[1 - curpost] = <<>>
        BY <2>4, SwapEffect DEF FInv, IdleIsDrained
      <3>2. postdata[1 - curpost] \o postdata[curpost]
                = postdata[curpost] \o postdata[1 - curpost]
        BY <2>0, <3>1, ConcatEmptySeq
      <3> QED BY <2>4, <3>2, SwapEffect DEF Mail!mvars
    <2>5. CASE (\E t \in Threads : LockPost(t) \/ SetFlag(t)) \/ EndDrain \/ UNCHANGED vars
      <3>1. UNCHANGED <<postdata, curpost, done>>
        BY <2>5, QuietEffect
      <3>2. (iopc = "run") = (iopc' = "run")
        BY <2>5 DEF LockPost, SetFlag, EndDrain, vars
      <3> QED BY <3>1, <3>2 DEF Mail!mvars
    <2>6. ~Throw
      BY DEF Throw
    <2> QED BY <2>1, <2>2, <2>3, <2>4, <2>5, <2>6 DEF Next, PostStep, RealPost
  <1>3. Init => FInv
    BY InitFInv
  <1>4. IInv /\ FInv /\ [Next]_vars => FInv'
    BY StepFInv
  <1> QED BY <1>1, <1>2, <1>3, <1>4, Inductive, PTL
          DEF Spec, ImplementsMailbox, Mail!MSpec
-----------------------------------------------------------------------------
(* The flag the gate of real_post trusts *)

\* A clear flag speaks for the queue that is being filled.
FlagCoversCurrent ==
    (~haspostdata /\ \A t \in Threads : pc[t] # "flag") => postdata[curpost] = <<>>

LEMMA StepFlag ==
    ASSUME IInv, FInv, FlagCoversCurrent, [Next]_vars
    PROVE  FlagCoversCurrent'
  <1>1. ASSUME NEW t \in Threads, LockPost(t) PROVE FlagCoversCurrent'
    BY <1>1 DEF LockPost, MutexFree, FlagCoversCurrent
  <1>2. ASSUME NEW t \in Threads, Push(t) PROVE FlagCoversCurrent'
    BY <1>2 DEF Push, FlagCoversCurrent, IInv, TypeOK
  <1>3. ASSUME NEW t \in Threads, SetFlag(t) PROVE FlagCoversCurrent'
    BY <1>3 DEF SetFlag, FlagCoversCurrent
  <1>4. CASE Swap
    BY <1>4, SwapEffect DEF FlagCoversCurrent, FInv, IdleIsDrained
  <1>5. CASE Pop
    BY <1>5, PopEffect DEF Pop, FlagCoversCurrent
  <1>6. CASE Front \/ Throw \/ EndDrain \/ UNCHANGED vars
    BY <1>6 DEF Front, Throw, EndDrain, vars, FlagCoversCurrent
  <1> QED BY <1>1, <1>2, <1>3, <1>4, <1>5, <1>6 DEF Next, PostStep, RealPost

\* When no job throws, the gate may trust a clear m_haspostdata, although it
\* reads it without the mutex: outside the Post that is about to set it no job
\* waits in either queue.
THEOREM FlagIsRight == ASSUME Poison = {} PROVE Spec => []FlagCoversQueues
  <1>1. Init => FInv /\ FlagCoversCurrent
    BY InitFInv DEF Init, FlagCoversCurrent
  <1>2. IInv /\ FInv /\ [Next]_vars => FInv'
    BY StepFInv
  <1>3. IInv /\ FInv /\ FlagCoversCurrent /\ [Next]_vars => FlagCoversCurrent'
    BY StepFlag
  <1>4. IInv /\ FInv /\ FlagCoversCurrent => FlagCoversQueues
    <2> SUFFICES ASSUME IInv, FInv, FlagCoversCurrent, iopc = "idle", ~haspostdata,
                        \A t \in Threads : pc[t] # "flag"
                 PROVE  postdata = [q \in {0, 1} |-> <<>>]
      BY DEF FlagCoversQueues
    <2>1. postdata[curpost] = <<>> /\ postdata[1 - curpost] = <<>>
      BY DEF FlagCoversCurrent, FInv, IdleIsDrained
    <2>2. \A q \in {0, 1} : postdata[q] = <<>>
      BY <2>1 DEF IInv, TypeOK
    <2> QED BY <2>2 DEF IInv, TypeOK
  <1> QED BY <1>1, <1>2, <1>3, <1>4, Inductive, PTL DEF Spec

-----------------------------------------------------------------------------
(* The queue when jobs throw *)

\* What stays in front of a job stays in front of it: the only job that is
\* ever removed is a head that has not thrown.
LEMMA PushKeepsBlocked ==
    ASSUME IInv, NEW t \in Threads, Push(t), NEW j \in Job, Blocked(j)
    PROVE  Blocked(j)'
  <1>0. PICK q \in {0, 1} : \E i \in DOMAIN postdata[q] :
            postdata[q][i] = j /\ \E k \in 1..i : postdata[q][k] \in Poison
    BY DEF Blocked
  <1>1. PICK i \in DOMAIN postdata[q] :
            postdata[q][i] = j /\ \E k \in 1..i : postdata[q][k] \in Poison
    BY <1>0
  <1>2. PICK k \in 1..i : postdata[q][k] \in Poison
    BY <1>1
  <1>3. postdata[q] \in Seq(Job)
    BY DEF IInv, TypeOK
  <1>4. Len(postdata[q]) \in Nat /\ i \in 1..Len(postdata[q]) /\ k \in 1..Len(postdata[q])
    BY <1>1, <1>3, LenProperties
  <1>5. PICK e \in Job : postdata'[q] = postdata[q] \/ postdata'[q] = Append(postdata[q], e)
    <2>1. q = curpost \/ q = 1 - curpost
      BY QueueTypes
    <2> QED BY <2>1, PushEffect
  <1>6. /\ i \in DOMAIN postdata'[q]
        /\ postdata'[q][i] = postdata[q][i] /\ postdata'[q][k] = postdata[q][k]
    BY <1>3, <1>4, <1>5, AppendProperties
  <1> QED BY <1>1, <1>2, <1>6 DEF Blocked

LEMMA PopKeepsBlocked ==
    ASSUME IInv, Pop, NEW j \in Job, Blocked(j)
    PROVE  Blocked(j)'
  <1>0. PICK q \in {0, 1} : \E i \in DOMAIN postdata[q] :
            postdata[q][i] = j /\ \E k \in 1..i : postdata[q][k] \in Poison
    BY DEF Blocked
  <1>1. PICK i \in DOMAIN postdata[q] :
            postdata[q][i] = j /\ \E k \in 1..i : postdata[q][k] \in Poison
    BY <1>0
  <1>2. PICK k \in 1..i : postdata[q][k] \in Poison
    BY <1>1
  <1>3. postdata[q] \in Seq(Job) /\ pcur \in {0, 1} /\ DOMAIN postdata = {0, 1}
    BY DEF IInv, TypeOK
  <1>4. Len(postdata[q]) \in Nat /\ i \in 1..Len(postdata[q]) /\ k \in 1..Len(postdata[q])
    BY <1>1, <1>3, LenProperties
  <1>5. CASE q # pcur
    <2>1. postdata'[q] = postdata[q]
      BY <1>3, <1>5 DEF Pop
    <2> QED BY <1>1, <1>2, <2>1 DEF Blocked
  <1>6. CASE q = pcur
    <2>1. /\ postdata'[q] = Tail(postdata[q])
          /\ Head(postdata[q]) \notin Poison
      BY <1>3, <1>6 DEF Pop
    <2>2. postdata[q] # <<>>
      BY <1>3, <1>4, EmptySeq
    <2>3. k # 1 /\ k - 1 \in 1..(i - 1)
      <3>1. Head(postdata[q]) = postdata[q][1]
        BY <1>3, <2>2, HeadTailProperties
      <3> QED BY <1>2, <1>4, <2>1, <3>1
    <2>4. /\ i - 1 \in DOMAIN postdata'[q]
          /\ postdata'[q][i - 1] = postdata[q][i] /\ postdata'[q][k - 1] = postdata[q][k]
      BY <1>3, <1>4, <2>1, <2>2, <2>3, HeadTailProperties, LenProperties
    <2> QED BY <1>1, <1>2, <2>3, <2>4 DEF Blocked
  <1> QED BY <1>5, <1>6

\* A job that throws, and with it every job behind it in its queue, stays where
\* it is for ever, for any threads and any set of throwing jobs.
THEOREM ThrowerBlocksForever == Spec => BlockedForever
  <1> DEFINE Kept == \A j \in Job : Blocked(j) => Blocked(j)'
  <1>1. IInv /\ [Next]_vars => [Kept]_vars
    <2> SUFFICES ASSUME IInv, Next PROVE Kept
      OBVIOUS
    <2>1. ASSUME NEW t \in Threads, Push(t) PROVE Kept
      BY <2>1, PushKeepsBlocked
    <2>2. CASE Pop
      BY <2>2, PopKeepsBlocked
    <2>3. CASE UNCHANGED postdata
      BY <2>3 DEF Blocked
    <2> QED BY <2>1, <2>2, <2>3
            DEF Next, PostStep, RealPost, LockPost, SetFlag, Swap, Front, Throw, EndDrain
  <1> QED BY <1>1, Inductive, PTL DEF Spec, BlockedForever

-----------------------------------------------------------------------------
(* No job is lost or repeated, whatever throws *)

Has(s, j) == \E i \in DOMAIN s : s[i] = j
Once(s, j) == \A i, k \in DOMAIN s : s[i] = j /\ s[k] = j => i = k

\* Every job is in one place when it has been pushed, and before that in none.
InOnePlace(j) ==
    /\ Once(done, j)
    /\ \A q \in {0, 1} : Once(postdata[q], j) /\ ~(Has(done, j) /\ Has(postdata[q], j))
    /\ ~(Has(postdata[0], j) /\ Has(postdata[1], j))
    /\ Pushed(j) <=> Has(done, j) \/ Has(postdata[0], j) \/ Has(postdata[1], j)

CInv == \A j \in Job : InOnePlace(j)

LEMMA AppendHas ==
    ASSUME NEW s \in Seq(Job), NEW e \in Job
    PROVE  /\ \A x : Has(Append(s, e), x) <=> Has(s, x) \/ x = e
           /\ \A x : Once(s, x) /\ (x # e \/ ~Has(s, x)) => Once(Append(s, e), x)
  <1>1. /\ Len(s) \in Nat /\ DOMAIN s = 1..Len(s)
        /\ DOMAIN Append(s, e) = 1..(Len(s) + 1)
        /\ \A i \in 1..Len(s) : Append(s, e)[i] = s[i]
        /\ Append(s, e)[Len(s) + 1] = e
    BY AppendProperties, LenProperties
  <1>2. \A i \in DOMAIN Append(s, e) :
           \/ i \in DOMAIN s /\ Append(s, e)[i] = s[i]
           \/ i = Len(s) + 1 /\ Append(s, e)[i] = e
    BY <1>1
  <1>3. ASSUME NEW x PROVE Has(Append(s, e), x) <=> Has(s, x) \/ x = e
    <2>1. Len(s) + 1 \in DOMAIN Append(s, e) /\ DOMAIN s \subseteq DOMAIN Append(s, e)
      BY <1>1
    <2> QED BY <1>1, <1>2, <2>1 DEF Has
  <1>4. ASSUME NEW x, Once(s, x), x # e \/ ~Has(s, x) PROVE Once(Append(s, e), x)
    BY <1>2, <1>4 DEF Once, Has
  <1> QED BY <1>3, <1>4

LEMMA TailHas ==
    ASSUME NEW s \in Seq(Job), s # <<>>, Once(s, Head(s))
    PROVE  /\ Head(s) \in Job /\ Has(s, Head(s))
           /\ \A x : Has(Tail(s), x) <=> Has(s, x) /\ x # Head(s)
           /\ \A x : Once(s, x) => Once(Tail(s), x)
  <1>1. /\ Head(s) \in Job /\ Tail(s) \in Seq(Job)
        /\ Len(Tail(s)) = Len(s) - 1
        /\ \A i \in 1..Len(Tail(s)) : Tail(s)[i] = s[i + 1]
        /\ Head(s) = s[1]
    BY HeadTailProperties
  <1>2. /\ Len(s) \in Nat \ {0} /\ DOMAIN s = 1..Len(s)
        /\ DOMAIN Tail(s) = 1..(Len(s) - 1)
    BY <1>1, LenProperties, EmptySeq
  <1>3. \A i \in DOMAIN Tail(s) : i \in Nat /\ i + 1 \in DOMAIN s /\ Tail(s)[i] = s[i + 1]
    BY <1>1, <1>2
  <1>4. \A i \in DOMAIN s : i = 1 \/ (i - 1 \in DOMAIN Tail(s) /\ Tail(s)[i - 1] = s[i])
    BY <1>1, <1>2
  <1>5. 1 \in DOMAIN s /\ Has(s, Head(s))
    BY <1>1, <1>2 DEF Has
  <1>6. ASSUME NEW x PROVE Has(Tail(s), x) <=> Has(s, x) /\ x # Head(s)
    <2>1. \A i \in DOMAIN s : s[i] = Head(s) => i = 1
      BY <1>1, <1>5 DEF Once
    <2>2. Has(Tail(s), x) => Has(s, x) /\ x # Head(s)
      <3>1. \A i \in DOMAIN Tail(s) : i + 1 # 1
        BY <1>3
      <3> QED BY <1>3, <2>1, <3>1 DEF Has
    <2>3. Has(s, x) /\ x # Head(s) => Has(Tail(s), x)
      BY <1>1, <1>4 DEF Has
    <2> QED BY <2>2, <2>3
  <1>7. ASSUME NEW x, Once(s, x) PROVE Once(Tail(s), x)
    BY <1>2, <1>3, <1>7 DEF Once
  <1> QED BY <1>1, <1>5, <1>6, <1>7

LEMMA PushConserves ==
    ASSUME IInv, CInv, NEW t \in Threads, Push(t)
    PROVE  CInv'
  <1> DEFINE e == <<t, sent[t] + 1>>
  <1>1. sent[t] \in 0..MaxPosts /\ sent[t] < MaxPosts /\ MaxPosts \in Nat
    BY PostsAssumption DEF IInv, TypeOK, RoomToPush, Push
  <1>2. e \in Job /\ ~Pushed(e)
    BY <1>1 DEF Job, Pushed
  <1>3. ASSUME NEW j \in Job PROVE Pushed(j)' <=> Pushed(j) \/ j = e
    <2>1. j[1] \in Threads /\ j[2] \in 1..MaxPosts /\ j = <<j[1], j[2]>>
      BY DEF Job
    <2>2. sent[j[1]] \in 0..MaxPosts
      BY <2>1 DEF IInv, TypeOK
    <2>3. sent' = [sent EXCEPT ![t] = sent[t] + 1] /\ sent \in [Threads -> 0..MaxPosts]
      BY DEF Push, IInv, TypeOK
    <2>4. CASE j[1] = t
      <3>1. sent'[j[1]] = sent[t] + 1 /\ (j = e <=> j[2] = sent[t] + 1)
        BY <2>1, <2>3, <2>4
      <3> QED BY <1>1, <2>1, <2>4, <3>1 DEF Pushed
    <2>5. CASE j[1] # t
      <3>1. sent'[j[1]] = sent[j[1]] /\ j # e
        BY <2>1, <2>3, <2>5
      <3> QED BY <3>1 DEF Pushed
    <2> QED BY <2>4, <2>5
  <1>4. PICK p \in {0, 1} : /\ postdata'[p] = Append(postdata[p], e)
                            /\ \A q \in {0, 1} : q # p => postdata'[q] = postdata[q]
    <2>1. postdata' = [postdata EXCEPT ![slot[t]] = Append(postdata[slot[t]], e)]
      BY DEF Push
    <2>2. slot[t] \in {0, 1} /\ postdata \in [{0, 1} -> Seq(Job)]
      BY DEF IInv, TypeOK
    <2> QED BY <2>1, <2>2
  <1>5. done' = done /\ postdata \in [{0, 1} -> Seq(Job)]
    BY DEF Push, IInv, TypeOK
  <1> HIDE DEF e
  <1>6. ASSUME NEW j \in Job PROVE InOnePlace(j)'
    <2>1. InOnePlace(j) /\ InOnePlace(e)
      BY <1>2 DEF CInv
    <2>2. /\ Has(postdata'[p], j) <=> Has(postdata[p], j) \/ j = e
          /\ Once(postdata[p], j) /\ (j # e \/ ~Has(postdata[p], j)) => Once(postdata'[p], j)
      BY <1>2, <1>4, <1>5, AppendHas
    <2>3. CASE p = 0
      <3>1. postdata'[1] = postdata[1]
        BY <1>4, <2>3
      <3>2. ~Has(done, e) /\ ~Has(postdata[0], e) /\ ~Has(postdata[1], e)
        BY <1>2, <2>1 DEF InOnePlace
      <3>3. Once(postdata'[0], j) /\ (Has(postdata'[0], j) <=> Has(postdata[0], j) \/ j = e)
        BY <2>1, <2>2, <2>3, <3>2 DEF InOnePlace
      <3> QED BY ONLY <1>3, <1>5, <2>1, <3>1, <3>2, <3>3 DEF InOnePlace
    <2>4. CASE p = 1
      <3>1. postdata'[0] = postdata[0]
        BY <1>4, <2>4
      <3>2. ~Has(done, e) /\ ~Has(postdata[0], e) /\ ~Has(postdata[1], e)
        BY <1>2, <2>1 DEF InOnePlace
      <3>3. Once(postdata'[1], j) /\ (Has(postdata'[1], j) <=> Has(postdata[1], j) \/ j = e)
        BY <2>1, <2>2, <2>4, <3>2 DEF InOnePlace
      <3> QED BY ONLY <1>3, <1>5, <2>1, <3>1, <3>2, <3>3 DEF InOnePlace
    <2> QED BY <2>3, <2>4
  <1> QED BY <1>6 DEF CInv

LEMMA PopConserves ==
    ASSUME IInv, CInv, Pop
    PROVE  CInv'
  <1> DEFINE e == Head(postdata[pcur])
  <1>1. /\ pcur \in {0, 1} /\ postdata \in [{0, 1} -> Seq(Job)] /\ done \in Seq(Job)
        /\ postdata[pcur] \in Seq(Job) /\ postdata[pcur] # <<>>
    BY DEF IInv, TypeOK, RunsFront, Pop
  <1>2. e \in Job
    BY <1>1, HeadTailProperties
  <1>3. /\ done' = Append(done, e) /\ postdata'[pcur] = Tail(postdata[pcur])
        /\ \A q \in {0, 1} : q # pcur => postdata'[q] = postdata[q]
        /\ sent' = sent
    BY <1>1 DEF Pop
  <1>4. InOnePlace(e)
    BY <1>2 DEF CInv
  <1>5. /\ Has(postdata[pcur], e)
        /\ \A x : Has(postdata'[pcur], x) <=> Has(postdata[pcur], x) /\ x # e
        /\ \A x : Once(postdata[pcur], x) => Once(postdata'[pcur], x)
    BY <1>1, <1>3, <1>4, TailHas DEF InOnePlace
  <1>6. /\ \A x : Has(done', x) <=> Has(done, x) \/ x = e
        /\ \A x : Once(done, x) /\ (x # e \/ ~Has(done, x)) => Once(done', x)
    BY <1>1, <1>2, <1>3, AppendHas
  <1> HIDE DEF e
  <1>7. ASSUME NEW j \in Job PROVE InOnePlace(j)'
    <2>1. InOnePlace(j)
      BY DEF CInv
    <2>2. Pushed(j)' <=> Pushed(j)
      BY <1>3 DEF Pushed
    <2>3. CASE pcur = 0
      BY <1>3, <1>4, <1>5, <1>6, <2>1, <2>2, <2>3 DEF InOnePlace
    <2>4. CASE pcur = 1
      BY <1>3, <1>4, <1>5, <1>6, <2>1, <2>2, <2>4 DEF InOnePlace
    <2> QED BY <1>1, <2>3, <2>4
  <1> QED BY <1>7 DEF CInv

\* Whatever throws, a job pushed is at every moment in exactly one place, once:
\* completed, or in one of the two queues (impl_ioserver.cpp:245-250, 397-414).
THEOREM NoJobIsLost == Spec => []JobsConserved
  <1>1. Init => CInv
    <2> SUFFICES ASSUME Init, NEW j \in Job PROVE InOnePlace(j)
      BY DEF CInv
    <2>1. sent[j[1]] = 0 /\ j[2] \in 1..MaxPosts
      BY DEF Job, Init
    <2>2. ~Pushed(j)
      BY <2>1, PostsAssumption DEF Pushed
    <2>3. ~Has(<<>>, j) /\ Once(<<>>, j)
      BY DEF Has, Once
    <2> QED BY <2>2, <2>3 DEF InOnePlace, Init
  <1>2. IInv /\ CInv /\ [Next]_vars => CInv'
    <2> SUFFICES ASSUME IInv, CInv, [Next]_vars PROVE CInv'
      OBVIOUS
    <2>1. ASSUME NEW t \in Threads, Push(t) PROVE CInv'
      BY <2>1, PushConserves
    <2>2. CASE Pop
      BY <2>2, PopConserves
    <2>3. CASE UNCHANGED <<postdata, done, sent>>
      BY <2>3 DEF CInv, InOnePlace, Pushed
    <2> QED BY <2>1, <2>2, <2>3 DEF Next, PostStep, RealPost, LockPost, SetFlag, Swap,
                                    Front, Throw, EndDrain, vars
  <1>3. IInv /\ CInv => JobsConserved
    <2> SUFFICES ASSUME CInv, NEW j \in Job
                 PROVE  LET places == {<<"done", i>> : i \in Occurrences(j, done)}
                                 \cup {<<"q0", i>> : i \in Occurrences(j, postdata[0])}
                                 \cup {<<"q1", i>> : i \in Occurrences(j, postdata[1])}
                        IN  IF Pushed(j) THEN \E p \in places : places = {p} ELSE places = {}
      BY DEF JobsConserved
    <2>1. InOnePlace(j)
      BY DEF CInv
    <2>2. \A s : /\ Has(s, j) /\ Once(s, j) => \E i : Occurrences(j, s) = {i}
                 /\ ~Has(s, j) => Occurrences(j, s) = {}
      BY DEF Has, Once, Occurrences
    <2> DEFINE D == Occurrences(j, done)
               A == Occurrences(j, postdata[0])
               B == Occurrences(j, postdata[1])
    <2>3. \/ ~Pushed(j) /\ D = {} /\ A = {} /\ B = {}
          \/ Pushed(j) /\ A = {} /\ B = {} /\ \E i : D = {i}
          \/ Pushed(j) /\ D = {} /\ B = {} /\ \E i : A = {i}
          \/ Pushed(j) /\ D = {} /\ A = {} /\ \E i : B = {i}
      BY <2>1, <2>2 DEF InOnePlace
    <2> HIDE DEF D, A, B
    <2> DEFINE places == {<<"done", i>> : i \in D} \cup {<<"q0", i>> : i \in A}
                           \cup {<<"q1", i>> : i \in B}
    <2>4. IF Pushed(j) THEN \E p \in places : places = {p} ELSE places = {}
      <3>1. CASE D = {} /\ A = {} /\ B = {}
        BY <2>3, <3>1
      <3>2. ASSUME NEW i, D = {i}, A = {}, B = {} PROVE places = {<<"done", i>>}
        BY <3>2
      <3>3. ASSUME NEW i, A = {i}, D = {}, B = {} PROVE places = {<<"q0", i>>}
        BY <3>3
      <3>4. ASSUME NEW i, B = {i}, D = {}, A = {} PROVE places = {<<"q1", i>>}
        BY <3>4
      <3> HIDE DEF places
      <3>5. (\E x : places = {x}) => \E p \in places : places = {p}
        OBVIOUS
      <3> QED BY <2>3, <3>1, <3>2, <3>3, <3>4, <3>5 DEF places
    <2> QED BY <2>4 DEF D, A, B
  <1> QED BY <1>1, <1>2, <1>3, Inductive, PTL DEF Spec

\* Whatever jobs throw and however the threads interleave, types are right, the
\* drain has its queue to itself and every job is in one place (Inv).
THEOREM InvHolds == Spec => []Inv
  <1> QED BY TypeCorrect, DrainIsExclusive, NoJobIsLost, PTL DEF Inv
=============================================================================
