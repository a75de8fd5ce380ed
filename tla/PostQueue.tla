----------------------------- MODULE PostQueue -----------------------------
(***************************************************************************)
(* CIOServer::Post and the drain of CIOServer::real_post                   *)
(* (source/net/impl_ioserver.cpp:245-250, 397-414).                        *)
(*                                                                         *)
(* Two std::queues; posters push to m_postdata[m_curpost] under            *)
(* m_postmutex, the IO thread swaps m_curpost under the mutex and then     *)
(* drains the queue it took WITHOUT it.  A job may itself Post.  A job     *)
(* that throws leaves real_post through catch(...) without being popped.   *)
(* The gate of real_post (367-377) and what the jobs do are in IOServer;   *)
(* here a call of real_post is one that passes the gate.                   *)
(*                                                                         *)
(* Bound: each thread posts at most MaxPosts jobs.                         *)
(***************************************************************************)
EXTENDS Naturals, Sequences

CONSTANTS
    Posters,          \* application threads that call Post
    IO,               \* the thread in CIOServer::Run
    MaxPosts,         \* bound on the jobs a thread posts
    Poison            \* the jobs that throw whenever they are executed

Threads == Posters \cup {IO}
Job == Threads \X (1..MaxPosts)

ASSUME ThreadsAssumption == IO \notin Posters
ASSUME PostsAssumption == MaxPosts \in Nat
ASSUME PoisonAssumption == Poison \subseteq Job

VARIABLES
    postdata,         \* m_postdata: the two queues
    curpost,          \* m_curpost: the queue posters push to
    haspostdata,      \* m_haspostdata
    pc,               \* where a thread is in Post: "out", "push" or "flag"
    slot,             \* the queue a thread in Post has evaluated m_postdata[m_curpost] to
    iopc,             \* where the IO thread is in real_post
    pcur,             \* real_post's local pcur, as an index
    sent,             \* how many jobs each thread has posted
    order,            \* history: the jobs in the order they were pushed
    done              \* history: the jobs popped after returning, in order

vars == <<postdata, curpost, haspostdata, pc, slot, iopc, pcur, sent, order, done>>

Init ==
    /\ postdata = [q \in {0, 1} |-> <<>>]
    /\ curpost = 0
    /\ haspostdata = FALSE
    /\ pc = [t \in Threads |-> "out"]
    /\ slot = [t \in Threads |-> 0]
    /\ iopc = "idle"
    /\ pcur = 0
    /\ sent = [t \in Threads |-> 0]
    /\ order = <<>>
    /\ done = <<>>

-----------------------------------------------------------------------------
(* Post *)

\* No thread is between the lock_guard's constructor and destructor in Post.
MutexFree == \A t \in Threads : pc[t] = "out"

\* lock_guard, and the evaluation of m_postdata[m_curpost].  The IO thread
\* posts from a job or from another callback of its event loop, never from
\* real_post's own loop.
LockPost(t) ==
    /\ MutexFree
    /\ sent[t] < MaxPosts
    /\ t = IO => iopc \in {"idle", "run"}
    /\ pc' = [pc EXCEPT ![t] = "push"]
    /\ slot' = [slot EXCEPT ![t] = curpost]
    /\ UNCHANGED <<postdata, curpost, haspostdata, iopc, pcur, sent, order, done>>

Push(t) ==
    /\ pc[t] = "push"
    /\ LET j == <<t, sent[t] + 1>> IN
         /\ postdata' = [postdata EXCEPT ![slot[t]] = Append(@, j)]
         /\ order' = Append(order, j)
    /\ sent' = [sent EXCEPT ![t] = @ + 1]
    /\ pc' = [pc EXCEPT ![t] = "flag"]
    /\ UNCHANGED <<curpost, haspostdata, slot, iopc, pcur, done>>

SetFlag(t) ==
    /\ pc[t] = "flag"
    /\ haspostdata' = TRUE
    /\ pc' = [pc EXCEPT ![t] = "out"]
    /\ UNCHANGED <<postdata, curpost, slot, iopc, pcur, sent, order, done>>

-----------------------------------------------------------------------------
(* real_post *)

\* Mutant: the swap is not under the mutex.
SwapUnlocked ==
    /\ iopc = "idle"
    /\ pcur' = curpost
    /\ curpost' = (curpost + 1) % 2
    /\ haspostdata' = FALSE
    /\ iopc' = "drain"
    /\ UNCHANGED <<postdata, pc, slot, sent, order, done>>

\* The critical section: take the current queue, let posters use the other.
Swap ==
    /\ iopc = "idle"
    /\ MutexFree
    /\ pcur' = curpost
    /\ curpost' = (curpost + 1) % 2
    /\ haspostdata' = FALSE
    /\ iopc' = "drain"
    /\ UNCHANGED <<postdata, pc, slot, sent, order, done>>

\* front()(): the job starts; it stays in the queue while it runs.
Front ==
    /\ iopc = "drain"
    /\ postdata[pcur] # <<>>
    /\ iopc' = "run"
    /\ UNCHANGED <<postdata, curpost, haspostdata, pc, slot, pcur, sent, order, done>>

\* The job returns and is popped.
Pop ==
    /\ iopc = "run"
    /\ pc[IO] = "out"
    /\ Head(postdata[pcur]) \notin Poison
    /\ done' = Append(done, Head(postdata[pcur]))
    /\ postdata' = [postdata EXCEPT ![pcur] = Tail(@)]
    /\ iopc' = "drain"
    /\ UNCHANGED <<curpost, haspostdata, pc, slot, pcur, sent, order>>

\* Mutant: the thrower is popped on the way out.
ThrowPops ==
    /\ iopc = "run"
    /\ pc[IO] = "out"
    /\ Head(postdata[pcur]) \in Poison
    /\ postdata' = [postdata EXCEPT ![pcur] = Tail(@)]
    /\ iopc' = "idle"
    /\ UNCHANGED <<curpost, haspostdata, pc, slot, pcur, sent, order, done>>

\* The job throws: catch (...) logs and real_post returns; nothing is popped.
Throw ==
    /\ iopc = "run"
    /\ pc[IO] = "out"
    /\ Head(postdata[pcur]) \in Poison
    /\ iopc' = "idle"
    /\ UNCHANGED <<postdata, curpost, haspostdata, pc, slot, pcur, sent, order, done>>

\* Mutant: the loop is an if: at most one job of the batch is run.
EndDrainEarly ==
    /\ iopc = "drain"
    /\ iopc' = "idle"
    /\ UNCHANGED <<postdata, curpost, haspostdata, pc, slot, pcur, sent, order, done>>

\* Mutant: m_haspostdata is cleared after the drain, not with the swap.
EndDrainClears ==
    /\ iopc = "drain"
    /\ postdata[pcur] = <<>>
    /\ iopc' = "idle"
    /\ haspostdata' = FALSE
    /\ UNCHANGED <<postdata, curpost, pc, slot, pcur, sent, order, done>>

\* Mutant: the loop stops at size() <= 1.
EndDrainOffByOne ==
    /\ iopc = "drain"
    /\ Len(postdata[pcur]) <= 1
    /\ iopc' = "idle"
    /\ UNCHANGED <<postdata, curpost, haspostdata, pc, slot, pcur, sent, order, done>>

\* The queue taken is empty: real_post returns.
EndDrain ==
    /\ iopc = "drain"
    /\ postdata[pcur] = <<>>
    /\ iopc' = "idle"
    /\ UNCHANGED <<postdata, curpost, haspostdata, pc, slot, pcur, sent, order, done>>

-----------------------------------------------------------------------------
RealPost == Swap \/ Front \/ Pop \/ Throw \/ EndDrain

PostStep(t) == LockPost(t) \/ Push(t) \/ SetFlag(t)

Next == (\E t \in Threads : PostStep(t)) \/ RealPost

Spec == Init /\ [][Next]_vars

\* The IO thread ticks for ever (the post timer re-arms itself every
\* millisecond), and a thread that holds m_postmutex leaves it.
Fairness ==
    /\ WF_vars(RealPost)
    /\ \A t \in Threads : WF_vars(Push(t) \/ SetFlag(t))

FairSpec == Spec /\ Fairness

-----------------------------------------------------------------------------
(* Properties *)

TypeOK ==
    /\ postdata \in [{0, 1} -> Seq(Job)]
    /\ curpost \in {0, 1}
    /\ haspostdata \in BOOLEAN
    /\ pc \in [Threads -> {"out", "push", "flag"}]
    /\ slot \in [Threads -> {0, 1}]
    /\ iopc \in {"idle", "drain", "run"}
    /\ pcur \in {0, 1}
    /\ sent \in [Threads -> 0..MaxPosts]
    /\ order \in Seq(Job)
    /\ done \in Seq(Job)

\* The IO thread reads and pops the queue it took without m_postmutex: no
\* thread in Post is about to push to that queue, so the two never touch one
\* std::queue at a time (pcur used after the unlock, impl_ioserver.cpp:400-409).
DrainExclusive ==
    iopc \in {"drain", "run"} =>
        \A t \in Threads : pc[t] \in {"push", "flag"} => slot[t] # pcur

\* Without throwing jobs, the completed jobs, then the batch being drained,
\* then the queue being filled are exactly the jobs pushed, in the order they
\* were pushed: no job is lost, repeated or overtaken across a swap.
FifoExactlyOnce == order = done \o postdata[1 - curpost] \o postdata[curpost]

\* The gate of real_post decides from m_haspostdata, read without the mutex,
\* that no job is waiting.  A clear flag is right whenever no real_post is
\* draining, except inside the Post that is about to set it.
FlagCoversQueues ==
    (iopc = "idle" /\ ~haspostdata /\ \A t \in Threads : pc[t] # "flag")
        => postdata = [q \in {0, 1} |-> <<>>]

\* The double buffered queue is one FIFO mailbox (Mailbox.tla).
Mail == INSTANCE Mailbox WITH
            queue <- postdata[1 - curpost] \o postdata[curpost],
            running <- iopc = "run"
ImplementsMailbox == Mail!MSpec

Occurrences(j, s) == {i \in DOMAIN s : s[i] = j}

\* Jobs that have something throwing in front of them in their own queue, or
\* that throw themselves.
Blocked(j) ==
    \E q \in {0, 1} : \E i \in DOMAIN postdata[q] :
        /\ postdata[q][i] = j
        /\ \E k \in 1..i : postdata[q][k] \in Poison

Pushed(j) == sent[j[1]] >= j[2]
Completed(j) == \E i \in DOMAIN done : done[i] = j

\* Whatever throws, a job pushed is at every moment in exactly one place, once:
\* completed, or in one of the two queues.
JobsConserved ==
    \A j \in Job :
        LET places == {<<"done", i>> : i \in Occurrences(j, done)}
                 \cup {<<"q0", i>> : i \in Occurrences(j, postdata[0])}
                 \cup {<<"q1", i>> : i \in Occurrences(j, postdata[1])}
        IN  IF Pushed(j) THEN \E p \in places : places = {p} ELSE places = {}

\* Whatever throws: types, the queue that is drained without the mutex is the
\* IO thread's own, and no job is lost or doubled.
Inv == TypeOK /\ DrainExclusive /\ JobsConserved

\* A job that throws is never removed: it is executed again by every second
\* real_post, and the jobs that stand behind it in its queue stay there for
\* ever (the pop of line 408 is skipped by the exception).
BlockedForever == [][\A j \in Job : Blocked(j) => Blocked(j)']_vars

\* Every job pushed is completed eventually, unless a throwing job stands in
\* front of it in its own queue: the drain always comes back to the other one.
UnblockedJobRuns == \A j \in Job : Pushed(j) ~> (Completed(j) \/ Blocked(j))

=============================================================================
