--------------------------- MODULE IOServer_proof ---------------------------
(***************************************************************************)
(* Proofs about IOServer for any finite set of timers, any of which may    *)
(* throw.                                                                  *)
(*                                                                         *)
(* The inductive invariant IInv adds to the properties where a timer is in *)
(* its life (TimerLife), who counts the server (Counted), and why the      *)
(* first callback of the post timer cannot undo its Fini (PostTimerLife):  *)
(* no Fini of it can be waiting before that callback has returned.         *)
(*                                                                         *)
(* EarlyInv, which rests on IInv, says why no timer is left behind: the    *)
(* jobs are in order, so the stop is run after every start posted before   *)
(* it (Ordered); a started timer is registered, waits for a job, or was    *)
(* ended (TimersRight); so when the gate sees no timer and no data, there  *)
(* is none (EndsLast).                                                     *)
(***************************************************************************)
EXTENDS IOServer, SequenceTheorems, FiniteSetTheorems, TLAPS

\* No real_fini of the post timer waits in a queue.
NoPostFini(q) == \A i \in DOMAIN q : q[i] # Job("fini", PostTimer)

InCall == {"gate", "finpost", "swap", "drain"}

\* Only a new timer starts, only a started one is registered, and one that has
\* heard timer_end stays where it is.
TimerLife ==
    /\ \A t \in AllTimers : tstat[t] # "null" => t \in bound
    /\ \A t \in registry : tstat[t] \in {"begin", "common", "end"}
    /\ \A t \in Timers :
         heard[t] = "end" => tstat[t] \in {"null", "end"} /\ t \in bound \ armed

\* How far the two threads are.
Progress ==
    /\ app \in {"created", "inited"} <=> iopc = "unstarted"
    /\ iopc = "unstarted" => ctx = "run"
    /\ app = "created" => tstat[PostTimer] = "null" /\ PostTimer \notin armed
    /\ app # "created" => PostTimer \in bound
    /\ app = "released" => iopc = "exited"
    /\ iopc = "endrelease" => tstat[PostTimer] = "end"

\* The server is counted for its owner and for its post timer.
Counted ==
    refs = (IF app \in {"released", "unjoined"} THEN 0 ELSE 1)
           + (IF tstat[PostTimer] = "null" THEN 0 ELSE 1)

\* Up to the return of its first callback the post timer is not Fini'd, and
\* never is it started a second time.
PostTimerLife ==
    /\ ctx = "run" => /\ NoPostFini(inbox) /\ NoPostFini(batch)
                      /\ iopc = "gate" => binit
                      /\ iopc # "finpost"
    /\ ctx = "begin" /\ iopc \in InCall =>
            NoPostFini(inbox) /\ NoPostFini(batch)
    /\ ctx = "begin" /\ iopc \in InCall \cup {"ret"} => tstat[PostTimer] = "begin"
    /\ ctx # "run" => tstat[PostTimer] # "init"
    /\ ctx # "run" /\ tstat[PostTimer] = "begin" =>
            ctx = "begin" /\ iopc \in InCall \cup {"ret"}
    /\ PostTimer \in armed => tstat[PostTimer] # "init"

IInv ==
    /\ TypeOK
    /\ RegisteredFires
    /\ TimerLife
    /\ Progress
    /\ Counted
    /\ PostTimerLife

-----------------------------------------------------------------------------
(* Timers and queues *)

LEMMA TimersFacts == PostTimer \in AllTimers /\ PostTimer \notin Timers /\ Timers \subseteq AllTimers
  BY PostTimerAssumption DEF AllTimers

LEMMA JobFacts ==
    /\ \A op \in {"wait", "fini", "start", "stop"}, t \in AllTimers : Job(op, t) \in Jobs
    /\ \A op, t : Job(op, t) = Job("fini", PostTimer) => op = "fini" /\ t = PostTimer
  <1>1. \A op \in {"wait", "fini", "start", "stop"}, t \in AllTimers : Job(op, t) \in Jobs
    BY SMT DEF Jobs
  <1>2. \A op, t : Job(op, t).op = op /\ Job(op, t).on = t
    BY DEF Job
  <1> QED BY <1>1, <1>2

\* A finite set can be listed.
LEMMA SetToSeqType ==
    ASSUME NEW S, IsFiniteSet(S)
    PROVE  SetToSeq(S) \in Seq(S)
  <1>1. Cardinality(S) \in Nat /\ ExistsBijection(1..Cardinality(S), S)
    BY FS_CardinalityType
  <1>2. \E f \in [1..Cardinality(S) -> S] : IsInjective(f)
    BY <1>1 DEF ExistsBijection, Bijection, Injection
  <1>3. SetToSeq(S) \in [1..Cardinality(S) -> S]
    BY <1>2 DEF SetToSeq
  <1> QED BY <1>1, <1>3, SeqDef

\* The gate posts Finis of user timers.
LEMMA FinisType ==
    ASSUME registry \subseteq Timers
    PROVE  LET s == SetToSeq({Job("fini", t) : t \in registry})
           IN  s \in Seq(Jobs) /\ NoPostFini(s)
  <1> DEFINE F == {Job("fini", t) : t \in registry}
             f == [t \in registry |-> Job("fini", t)]
  <1>1. IsFiniteSet(registry)
    BY TimersAssumption, FS_Subset
  <1>2. f \in Surjection(registry, F)
    BY DEF Surjection
  <1>3. IsFiniteSet(F)
    BY <1>1, <1>2, FS_Surjection
  <1>4. F \subseteq Jobs /\ \A j \in F : j # Job("fini", PostTimer)
    BY PostTimerAssumption DEF Jobs, AllTimers, Job
  <1> HIDE DEF F, f
  <1>5. SetToSeq(F) \in Seq(F)
    BY <1>3, SetToSeqType
  <1>6. SetToSeq(F) \in Seq(Jobs)
    BY <1>4, <1>5, SeqMonotonic
  <1>7. NoPostFini(SetToSeq(F))
    BY <1>4, <1>5, LenProperties, ElementOfSeq DEF NoPostFini
  <1> QED BY <1>6, <1>7 DEF F

\* Jobs are posted at the end of a queue ...
LEMMA PostProperties ==
    ASSUME NEW q \in Seq(Jobs), NEW s \in Seq(Jobs)
    PROVE  /\ q \o s \in Seq(Jobs)
           /\ NoPostFini(q) /\ NoPostFini(s) => NoPostFini(q \o s)
  <1>1. /\ q \o s \in Seq(Jobs)
        /\ DOMAIN (q \o s) = 1..(Len(q) + Len(s))
        /\ \A i \in 1..(Len(q) + Len(s)) :
             (q \o s)[i] = IF i <= Len(q) THEN q[i] ELSE s[i - Len(q)]
    BY ConcatProperties, LenProperties
  <1>2. /\ Len(q) \in Nat /\ DOMAIN q = 1..Len(q)
        /\ Len(s) \in Nat /\ DOMAIN s = 1..Len(s)
    BY LenProperties
  <1>3. ASSUME NoPostFini(q), NoPostFini(s), NEW i \in DOMAIN (q \o s)
        PROVE  (q \o s)[i] # Job("fini", PostTimer)
    <2>1. CASE i <= Len(q)
      BY <1>1, <1>2, <1>3, <2>1 DEF NoPostFini
    <2>2. CASE ~(i <= Len(q))
      <3>1. i - Len(q) \in DOMAIN s
        BY <1>1, <1>2, <1>3, <2>2
      <3> QED BY <1>1, <1>3, <2>2, <3>1 DEF NoPostFini
    <2> QED BY <2>1, <2>2
  <1> QED BY <1>1, <1>3 DEF NoPostFini

LEMMA OnePosted ==
    ASSUME NEW q \in Seq(Jobs), NEW j \in Jobs
    PROVE  /\ Append(q, j) \in Seq(Jobs)
           /\ NoPostFini(q) /\ j # Job("fini", PostTimer) => NoPostFini(Append(q, j))
  <1>1. /\ Append(q, j) = q \o <<j>> /\ <<j>> \in Seq(Jobs)
        /\ Append(q, j) \in Seq(Jobs)
    BY AppendIsConcat, AppendProperties
  <1>2. j # Job("fini", PostTimer) => NoPostFini(<<j>>)
    BY DEF NoPostFini
  <1> QED BY <1>1, <1>2, PostProperties

\* ... and are run from its front.
LEMMA PopProperties ==
    ASSUME NEW q \in Seq(Jobs), q # <<>>
    PROVE  /\ Head(q) \in Jobs
           /\ Head(q).on \in AllTimers
           /\ Head(q) = Job(Head(q).op, Head(q).on)
           /\ Tail(q) \in Seq(Jobs)
           /\ NoPostFini(q) => /\ Head(q) # Job("fini", PostTimer)
                               /\ NoPostFini(Tail(q))
  <1>1. /\ Head(q) \in Jobs /\ Tail(q) \in Seq(Jobs)
        /\ Len(Tail(q)) = Len(q) - 1
        /\ \A i \in 1..Len(Tail(q)) : Tail(q)[i] = q[i + 1]
    BY HeadTailProperties
  <1>2. /\ Head(q) = q[1] /\ Len(q) \in Nat \ {0} /\ DOMAIN q = 1..Len(q)
        /\ DOMAIN Tail(q) = 1..Len(Tail(q))
    BY <1>1, LenProperties, EmptySeq
  <1>3. Head(q).on \in AllTimers /\ Head(q) = Job(Head(q).op, Head(q).on)
    BY <1>1 DEF Jobs, Job
  <1>4. ASSUME NoPostFini(q) PROVE Head(q) # Job("fini", PostTimer) /\ NoPostFini(Tail(q))
    <2>1. 1 \in DOMAIN q /\ \A i \in DOMAIN Tail(q) : i + 1 \in DOMAIN q
      BY <1>1, <1>2
    <2> QED BY <1>1, <1>2, <1>4, <2>1 DEF NoPostFini
  <1> QED BY <1>1, <1>3, <1>4

LEMMA InitIInv == Init => IInv
  <1> SUFFICES ASSUME Init PROVE IInv
    OBVIOUS
  <1>1. <<>> \in Seq(Jobs) /\ NoPostFini(<<>>)
    BY EmptySeq DEF NoPostFini
  <1>2. TypeOK
    <2>1. /\ tstat \in [AllTimers -> {"null", "init", "begin", "common", "end"}]
          /\ heard \in [Timers -> {"none", "begin", "ok", "end"}]
      BY DEF Init
    <2>2. calls \in [start: SUBSET Timers, early: SUBSET Timers, fini: SUBSET Timers,
                     stop: BOOLEAN]
      BY DEF Init
    <2>3. inbox \in Seq(Jobs) /\ batch \in Seq(Jobs)
      BY <1>1 DEF Init
    <2>4. binit \in BOOLEAN /\ haspost \in BOOLEAN /\ inpost \in BOOLEAN
      BY Zenon DEF Init
    <2>5. /\ status \in {"null", "common"} /\ iopc = "unstarted" /\ ctx = "run"
          /\ app = "created"
          /\ bound = {} /\ armed = {} /\ registry = {} /\ thrown = {}
      BY Zenon DEF Init
    <2>6. refs \in 0..2
      BY DEF Init
    <2> QED BY <2>1, <2>2, <2>3, <2>4, <2>5, <2>6 DEF TypeOK
  <1>3. RegisteredFires /\ TimerLife /\ Progress /\ Counted
    BY DEF Init, RegisteredFires, TimerLife, Progress, Counted, AllTimers
  <1>4. PostTimerLife
    BY <1>1 DEF Init, PostTimerLife, AllTimers, InCall
  <1> QED BY <1>2, <1>3, <1>4 DEF IInv

\* The steps of the application.
LEMMA AppKeepsIInv ==
    ASSUME IInv,
           \/ AppInit
           \/ AppRun
           \/ AppFlag
           \/ AppStop
           \/ AppRelease
           \/ AppReleaseUnjoined
           \/ \E t \in Timers : AppStartTimer(t)
           \/ \E t \in Timers : AppFiniTimer(t)
    PROVE  IInv'
  <1>1. CASE AppInit
    <2>0. /\ inbox' \in Seq(Jobs) /\ batch' \in Seq(Jobs)
          /\ NoPostFini(inbox) => NoPostFini(inbox')
          /\ batch' = batch
      BY <1>1, TimersFacts, JobFacts, OnePosted DEF AppInit, IInv, TypeOK
    <2>1. TypeOK'
      BY <1>1, <2>0, TimersFacts DEF AppInit, IInv, TypeOK, Progress, Counted
    <2>2. RegisteredFires' /\ Progress'
      BY <1>1, <2>0 DEF AppInit, IInv, RegisteredFires, Progress
    <2>3. TimerLife'
      BY <1>1, <2>0, TimersFacts DEF AppInit, IInv, TimerLife, TypeOK
    <2>4. Counted'
      BY <1>1, <2>0, TimersFacts DEF AppInit, IInv, Counted, TypeOK, Progress
    <2>5. PostTimerLife'
      BY <1>1, <2>0, TimersFacts DEF AppInit, IInv, PostTimerLife, TypeOK, Progress, InCall
    <2> QED BY <2>1, <2>2, <2>3, <2>4, <2>5 DEF IInv
  <1>2. CASE AppRun
    <2>1. TypeOK' /\ RegisteredFires' /\ TimerLife' /\ Progress' /\ Counted'
      BY <1>2 DEF AppRun, queue, server, timing, IInv, TypeOK, RegisteredFires, TimerLife,
         Progress, Counted
    <2>2. PostTimerLife'
      BY <1>2, TimersFacts DEF AppRun, queue, server, timing, IInv, PostTimerLife, TypeOK,
         Progress, InCall
    <2> QED BY <2>1, <2>2 DEF IInv
  <1>3. CASE AppFlag
    <2>1. TypeOK'
      <3>1. TypeOK
        BY DEF IInv
      <3>2. /\ inbox' = inbox /\ batch' = batch /\ iopc' = iopc /\ ctx' = ctx /\ app' = app
            /\ calls' = calls /\ haspost' \in BOOLEAN /\ inpost' \in BOOLEAN
            /\ server' = server /\ timing' = timing
        BY <1>3 DEF AppFlag
      <3> QED BY ONLY <3>1, <3>2 DEF server, timing, TypeOK
    <2>2. RegisteredFires' /\ TimerLife' /\ Progress' /\ Counted' /\ PostTimerLife'
      BY <1>3 DEF AppFlag, server, timing, IInv, RegisteredFires, TimerLife, Progress,
         Counted, PostTimerLife, InCall
    <2> QED BY <2>1, <2>2 DEF IInv
  <1>4. CASE AppStop
    <2>0. /\ inbox' \in Seq(Jobs) /\ batch' \in Seq(Jobs)
          /\ NoPostFini(inbox) => NoPostFini(inbox')
          /\ batch' = batch
      BY <1>4, TimersFacts, JobFacts, OnePosted DEF AppStop, AppPush, client, server, IInv,
         TypeOK
    <2>1. TypeOK' /\ RegisteredFires' /\ TimerLife' /\ Progress' /\ Counted' /\ PostTimerLife'
      BY <1>4, <2>0 DEF AppStop, AppPush, server, timing, IInv, TypeOK, RegisteredFires,
         TimerLife, Progress, Counted, PostTimerLife, InCall
    <2> QED BY <2>1 DEF IInv
  <1>5. CASE AppRelease
    <2>1. TypeOK'
      BY <1>5 DEF AppRelease, queue, timing, IInv, TypeOK, Progress, Counted
    <2>2. RegisteredFires' /\ TimerLife' /\ Progress' /\ Counted' /\ PostTimerLife'
      BY <1>5 DEF AppRelease, queue, timing, IInv, RegisteredFires, TimerLife, Progress,
         Counted, PostTimerLife, InCall
    <2> QED BY <2>1, <2>2 DEF IInv
  <1>6. CASE AppReleaseUnjoined
    <2>1. TypeOK'
      BY <1>6 DEF AppReleaseUnjoined, queue, timing, IInv, TypeOK, Progress, Counted
    <2>2. RegisteredFires' /\ TimerLife' /\ Progress' /\ Counted' /\ PostTimerLife'
      BY <1>6 DEF AppReleaseUnjoined, queue, timing, IInv, RegisteredFires, TimerLife,
         Progress, Counted, PostTimerLife, InCall
    <2> QED BY <2>1, <2>2 DEF IInv
  <1>7. ASSUME NEW t \in Timers, AppStartTimer(t) PROVE IInv'
    <2>0. /\ inbox' \in Seq(Jobs) /\ batch' \in Seq(Jobs)
          /\ NoPostFini(inbox) => NoPostFini(inbox')
          /\ batch' = batch
      BY <1>7, TimersFacts, JobFacts, OnePosted DEF AppStartTimer, AppPush, IInv, TypeOK
    <2>1. TypeOK'
      <3>1. TypeOK
        BY DEF IInv
      <3>2. calls' \in [start : SUBSET Timers, early : SUBSET Timers, fini : SUBSET Timers,
                        stop : BOOLEAN]
        BY <1>7, <3>1 DEF AppStartTimer, TypeOK
      <3>3. /\ inbox' \in Seq(Jobs) /\ batch' = batch /\ iopc' = iopc /\ ctx' = ctx /\ app' = app
            /\ haspost' = haspost /\ inpost' \in BOOLEAN
            /\ server' = server /\ timing' = timing
        BY <1>7, <2>0 DEF AppStartTimer, AppPush
      <3> QED BY ONLY <3>1, <3>2, <3>3 DEF server, timing, TypeOK
    <2>2. RegisteredFires' /\ TimerLife' /\ Progress' /\ Counted' /\ PostTimerLife'
      BY <1>7, <2>0 DEF AppStartTimer, AppPush, server, timing, IInv, RegisteredFires,
         TimerLife, Progress, Counted, PostTimerLife, InCall
    <2> QED BY <2>1, <2>2 DEF IInv
  <1>8. ASSUME NEW t \in Timers, AppFiniTimer(t) PROVE IInv'
    <2>0. /\ inbox' \in Seq(Jobs) /\ batch' \in Seq(Jobs)
          /\ NoPostFini(inbox) => NoPostFini(inbox')
          /\ batch' = batch
      BY <1>8, TimersFacts, JobFacts, OnePosted DEF AppFiniTimer, AppPush, IInv, TypeOK
    <2>1. TypeOK'
      <3>1. TypeOK
        BY DEF IInv
      <3>2. calls' \in [start : SUBSET Timers, early : SUBSET Timers, fini : SUBSET Timers,
                        stop : BOOLEAN]
        BY <1>8, <3>1 DEF AppFiniTimer, TypeOK
      <3>3. /\ inbox' \in Seq(Jobs) /\ batch' = batch /\ iopc' = iopc /\ ctx' = ctx /\ app' = app
            /\ haspost' = haspost /\ inpost' \in BOOLEAN
            /\ server' = server /\ timing' = timing
        BY <1>8, <2>0 DEF AppFiniTimer, AppPush
      <3> QED BY ONLY <3>1, <3>2, <3>3 DEF server, timing, TypeOK
    <2>2. RegisteredFires' /\ TimerLife' /\ Progress' /\ Counted' /\ PostTimerLife'
      BY <1>8, <2>0 DEF AppFiniTimer, AppPush, server, timing, IInv, RegisteredFires,
         TimerLife, Progress, Counted, PostTimerLife, InCall
    <2> QED BY <2>1, <2>2 DEF IInv
  <1> QED BY <1>1, <1>2, <1>3, <1>4, <1>5, <1>6, <1>7, <1>8

\* The steps of real_post(false).
LEMMA PostKeepsIInv ==
    ASSUME IInv,
           \/ Gate
           \/ FinPost
           \/ Swap
           \/ RunWait
           \/ RunFini
           \/ RunStop
           \/ RunStartInit
           \/ RunStartWait
           \/ EndDrain
           \/ Return
    PROVE  IInv'
  <1>1. CASE Gate
    <2>0. /\ inbox' \in Seq(Jobs) /\ batch' \in Seq(Jobs)
          /\ NoPostFini(inbox) => NoPostFini(inbox')
          /\ batch' = batch
      <3> DEFINE s == SetToSeq({Job("fini", x) : x \in registry})
      <3>1. s \in Seq(Jobs) /\ NoPostFini(s)
        BY FinisType DEF IInv, TypeOK
      <3>2. inbox' \in {inbox, inbox \o <<>>, inbox \o s} /\ batch' = batch
        BY Zenon, <1>1 DEF Gate, IOPost
      <3> HIDE DEF s
      <3>3. inbox \o <<>> = inbox
        BY ConcatEmptySeq DEF IInv, TypeOK
      <3>4. inbox \o s \in Seq(Jobs) /\ (NoPostFini(inbox) => NoPostFini(inbox \o s))
        BY <3>1, PostProperties DEF IInv, TypeOK
      <3> QED BY <3>2, <3>3, <3>4 DEF IInv, TypeOK
    <2>1. TypeOK'
      BY <1>1, <2>0 DEF Gate, IOPost, server, client, timing, IInv, TypeOK
    <2>2. RegisteredFires' /\ TimerLife' /\ PostTimerLife'
      BY <1>1, <2>0 DEF Gate, Busy, IOPost, server, client, timing, IInv, TypeOK,
         RegisteredFires, TimerLife, PostTimerLife, Progress, InCall
    <2>3. Progress' /\ Counted'
      BY <1>1, <2>0 DEF Gate, Busy, IOPost, server, client, timing, IInv, TypeOK,
         RegisteredFires, TimerLife, Progress, Counted, InCall
    <2> QED BY <2>1, <2>2, <2>3 DEF IInv
  <1>2. CASE FinPost
    <2>0. inbox' \in Seq(Jobs)
      BY <1>2, TimersFacts, JobFacts, PostProperties DEF FinPost, IOPost, IInv, TypeOK
    <2>1. TypeOK' /\ RegisteredFires' /\ TimerLife' /\ Progress' /\ Counted' /\ PostTimerLife'
      BY <1>2, <2>0 DEF FinPost, IOPost, server, client, timing, IInv, TypeOK,
         RegisteredFires, TimerLife, Progress, Counted, PostTimerLife, InCall
    <2> QED BY <2>1 DEF IInv
  <1>3. CASE Swap
    <2>0. /\ inbox' \in Seq(Jobs) /\ batch' \in Seq(Jobs)
          /\ NoPostFini(inbox')
          /\ NoPostFini(inbox) => NoPostFini(batch')
      BY <1>3, TimersFacts, JobFacts, EmptySeq DEF Swap, NoPostFini, IInv, TypeOK
    <2>1. TypeOK' /\ RegisteredFires' /\ TimerLife' /\ Progress' /\ Counted' /\ PostTimerLife'
      BY <1>3, <2>0 DEF Swap, server, client, timing, IInv, TypeOK, RegisteredFires,
         TimerLife, Progress, Counted, PostTimerLife, InCall
    <2> QED BY <2>1 DEF IInv
  <1>4. CASE RunWait
    <2>0. /\ batch' \in Seq(Jobs)
          /\ Head(batch).on \in AllTimers
          /\ NoPostFini(batch) => NoPostFini(batch')
      BY <1>4, TimersFacts, JobFacts, PopProperties DEF RunWait, Runs, Popped, IInv, TypeOK
    <2>1. TypeOK'
      <3>1. CASE tstat[Head(batch).on] = "init"
        <4>1. /\ tstat' \in [AllTimers -> {"null", "init", "begin", "common", "end"}]
              /\ armed' \subseteq AllTimers
          <5>1. /\ tstat \in [AllTimers -> {"null", "init", "begin", "common", "end"}]
                /\ armed \subseteq AllTimers
            BY DEF IInv, TypeOK
          <5>2. /\ tstat' = [tstat EXCEPT ![Head(batch).on] = "begin"]
                /\ armed' = armed \cup {Head(batch).on}
            BY <1>4, <3>1 DEF RunWait
          <5> QED BY ONLY <2>0, <5>1, <5>2
        <4>2. registry' \subseteq Timers
          BY <1>4, <2>0, <3>1 DEF RunWait, IInv, TypeOK, AllTimers
        <4> QED BY <1>4, <2>0, <3>1, <4>1, <4>2 DEF RunWait, server, client, IInv, TypeOK
      <3>2. CASE tstat[Head(batch).on] # "init"
        BY <1>4, <2>0, <3>2 DEF RunWait, Runs, Popped, server, client, timing, IInv, TypeOK
      <3> QED BY <3>1, <3>2
    <2>2. RegisteredFires'
      <3>1. CASE tstat[Head(batch).on] = "init"
        BY <1>4, <2>0, <3>1, TimersFacts DEF RunWait, IInv, TypeOK, RegisteredFires,
           TimerLife
      <3>2. CASE tstat[Head(batch).on] # "init"
        BY <1>4, <3>2 DEF RunWait, timing, IInv, RegisteredFires
      <3> QED BY <3>1, <3>2
    <2>3. TimerLife'
      BY <1>4, <2>0, TimersFacts DEF RunWait, Runs, Popped, server, client, timing, IInv,
         TimerLife, TypeOK
    <2>4. Progress'
      BY <1>4, <2>0 DEF RunWait, Runs, Popped, server, client, timing, IInv, Progress
    <2>5. Counted'
      BY <1>4, <2>0, TimersFacts DEF RunWait, Runs, Popped, server, client, timing, IInv,
         Counted, TypeOK
    <2>6. PostTimerLife'
      BY <1>4, <2>0, TimersFacts DEF RunWait, Runs, Popped, server, client, timing, IInv,
         PostTimerLife, TypeOK, InCall
    <2> QED BY <2>1, <2>2, <2>3, <2>4, <2>5, <2>6 DEF IInv
  <1>5. CASE RunFini
    <2>0. /\ batch' \in Seq(Jobs)
          /\ Head(batch).on \in AllTimers
          /\ NoPostFini(batch) => NoPostFini(batch')
          /\ NoPostFini(batch) => Head(batch).on # PostTimer
      BY <1>5, TimersFacts, JobFacts, PopProperties DEF RunFini, Runs, Popped, IInv, TypeOK
    <2>1. TypeOK' /\ RegisteredFires' /\ TimerLife' /\ Progress' /\ Counted' /\ PostTimerLife'
      BY <1>5, <2>0 DEF RunFini, Runs, Popped, server, client, IInv, TypeOK,
         RegisteredFires, TimerLife, Progress, Counted, PostTimerLife, InCall
    <2> QED BY <2>1 DEF IInv
  <1>6. CASE RunStop
    <2>0. /\ batch' \in Seq(Jobs)
          /\ Head(batch).on \in AllTimers
          /\ NoPostFini(batch) => NoPostFini(batch')
      BY <1>6, TimersFacts, JobFacts, PopProperties DEF RunStop, Runs, Popped, IInv, TypeOK
    <2>1. TypeOK' /\ RegisteredFires' /\ TimerLife' /\ Progress' /\ Counted' /\ PostTimerLife'
      BY <1>6, <2>0 DEF RunStop, Runs, Popped, client, timing, IInv, TypeOK,
         RegisteredFires, TimerLife, Progress, Counted, PostTimerLife, InCall
    <2> QED BY <2>1 DEF IInv
  <1>7. CASE RunStartInit
    <2>0. Head(batch).on \in AllTimers
      BY <1>7, TimersFacts, JobFacts, PopProperties DEF RunStartInit, Runs, IInv, TypeOK
    <2>1. TypeOK' /\ RegisteredFires' /\ TimerLife' /\ Progress'
      BY <1>7, <2>0 DEF RunStartInit, Runs, Popped, queue, server, client, IInv, TypeOK,
         RegisteredFires, TimerLife, Progress
    <2>2. Counted'
      BY <1>7, <2>0, TimersFacts DEF RunStartInit, Runs, Popped, queue, server, client,
         IInv, Counted, TypeOK, Progress
    <2>3. PostTimerLife'
      BY <1>7, <2>0, TimersFacts DEF RunStartInit, Runs, Popped, queue, server, client,
         IInv, PostTimerLife, TypeOK, Progress, InCall
    <2> QED BY <2>1, <2>2, <2>3 DEF IInv
  <1>8. CASE RunStartWait
    <2>0. /\ batch' \in Seq(Jobs)
          /\ Head(batch).on \in AllTimers
          /\ NoPostFini(batch) => NoPostFini(batch')
          /\ inbox' \in Seq(Jobs)
          /\ NoPostFini(inbox) => NoPostFini(inbox')
      <3>1. batch' \in Seq(Jobs) /\ (NoPostFini(batch) => NoPostFini(batch'))
        BY <1>8, PopProperties DEF RunStartWait, Runs, Popped, IInv, TypeOK
      <3> DEFINE j == Job("wait", Head(batch).on)
      <3>2. j \in Jobs /\ j # Job("fini", PostTimer) /\ Head(batch).on \in AllTimers
        BY <1>8, PopProperties, JobFacts DEF RunStartWait, Runs, IInv, TypeOK
      <3>3. inbox' = inbox \/ inbox' = Append(inbox, j)
        BY <1>8, ConcatEmptySeq, AppendIsConcat DEF RunStartWait, IOPost, IInv, TypeOK
      <3> HIDE DEF j
      <3> QED BY <3>1, <3>2, <3>3, OnePosted DEF IInv, TypeOK
    <2>1. TypeOK' /\ RegisteredFires' /\ TimerLife' /\ Progress' /\ Counted' /\ PostTimerLife'
      BY <1>8, <2>0 DEF RunStartWait, IOPost, Runs, Popped, server, client, timing, IInv,
         TypeOK, RegisteredFires, TimerLife, Progress, Counted, PostTimerLife, InCall
    <2> QED BY <2>1 DEF IInv
  <1>9. CASE EndDrain
    <2>1. TypeOK' /\ RegisteredFires' /\ TimerLife' /\ Progress' /\ Counted' /\ PostTimerLife'
      BY <1>9 DEF EndDrain, queue, server, client, timing, IInv, TypeOK, RegisteredFires,
         TimerLife, Progress, Counted, PostTimerLife, InCall
    <2> QED BY <2>1 DEF IInv
  <1>10. CASE Return
    <2>1. TypeOK'
      BY <1>10, TimersFacts DEF Return, queue, server, client, IInv, TypeOK
    <2>2. RegisteredFires'
      BY <1>10, TimersFacts DEF Return, queue, server, client, IInv, RegisteredFires, TypeOK
    <2>3. TimerLife'
      BY <1>10, TimersFacts DEF Return, queue, server, client, IInv, TimerLife, TypeOK,
         Progress
    <2>4. Progress'
      BY <1>10 DEF Return, queue, server, client, IInv, Progress
    <2>5. Counted'
      BY <1>10, TimersFacts DEF Return, queue, server, client, IInv, Counted, TypeOK,
         PostTimerLife, InCall
    <2>6. PostTimerLife'
      BY <1>10, TimersFacts DEF Return, queue, server, client, IInv, PostTimerLife, TypeOK,
         InCall
    <2> QED BY <2>1, <2>2, <2>3, <2>4, <2>5, <2>6 DEF IInv
  <1> QED BY <1>1, <1>2, <1>3, <1>4, <1>5, <1>6, <1>7, <1>8, <1>9, <1>10

\* The steps of the event loop.
LEMMA LoopKeepsIInv ==
    ASSUME IInv,
           \/ LoopHead
           \/ LoopEndPass
           \/ FirePost
           \/ FirePostEnd
           \/ EndRelease
           \/ EndDel
           \/ \E t \in Timers : Fire(t)
           \/ \E t \in Timers : FireThrows(t)
    PROVE  IInv'
  <1>1. CASE LoopHead
    <2>1. TypeOK' /\ RegisteredFires' /\ TimerLife' /\ Progress' /\ Counted' /\ PostTimerLife'
      BY <1>1 DEF LoopHead, queue, server, client, timing, IInv, TypeOK, RegisteredFires,
         TimerLife, Progress, Counted, PostTimerLife, InCall
    <2> QED BY <2>1 DEF IInv
  <1>2. CASE LoopEndPass
    <2>1. TypeOK' /\ RegisteredFires' /\ TimerLife' /\ Progress' /\ Counted' /\ PostTimerLife'
      BY <1>2 DEF LoopEndPass, queue, server, client, timing, IInv, TypeOK,
         RegisteredFires, TimerLife, Progress, Counted, PostTimerLife, InCall
    <2> QED BY <2>1 DEF IInv
  <1>3. CASE FirePost
    <2>1. TypeOK' /\ TimerLife' /\ Progress' /\ Counted' /\ PostTimerLife'
      BY <1>3 DEF FirePost, queue, server, client, IInv, TypeOK, TimerLife, Progress,
         Counted, PostTimerLife, InCall
    <2>2. RegisteredFires'
      BY <1>3, TimersFacts DEF FirePost, queue, server, client, IInv, RegisteredFires,
         TypeOK
    <2> QED BY <2>1, <2>2 DEF IInv
  <1>4. CASE FirePostEnd
    <2>1. TypeOK' /\ TimerLife' /\ Progress' /\ Counted' /\ PostTimerLife'
      BY <1>4 DEF FirePostEnd, queue, client, IInv, TypeOK, TimerLife, Progress, Counted,
         PostTimerLife, InCall
    <2>2. RegisteredFires'
      BY <1>4, TimersFacts DEF FirePostEnd, queue, client, IInv, RegisteredFires, TypeOK
    <2> QED BY <2>1, <2>2 DEF IInv
  <1>5. CASE EndRelease
    <2>1. TypeOK'
      BY <1>5 DEF EndRelease, queue, client, IInv, TypeOK, Progress, Counted
    <2>2. RegisteredFires' /\ Progress' /\ PostTimerLife'
      BY <1>5 DEF EndRelease, queue, client, IInv, RegisteredFires, Progress,
         PostTimerLife, InCall
    <2>3. TimerLife'
      BY <1>5, TimersFacts DEF EndRelease, queue, client, IInv, TimerLife, TypeOK
    <2>4. Counted'
      BY <1>5, TimersFacts DEF EndRelease, queue, client, IInv, Counted, TypeOK, Progress
    <2> QED BY <2>1, <2>2, <2>3, <2>4 DEF IInv
  <1>6. CASE EndDel
    <2>1. TypeOK' /\ RegisteredFires' /\ TimerLife' /\ Progress' /\ Counted' /\ PostTimerLife'
      BY <1>6 DEF EndDel, queue, server, client, timing, IInv, TypeOK, RegisteredFires,
         TimerLife, Progress, Counted, PostTimerLife, InCall
    <2> QED BY <2>1 DEF IInv
  <1>7. ASSUME NEW t \in Timers, Fire(t) PROVE IInv'
    <2>1. TypeOK' /\ RegisteredFires' /\ Progress'
      BY <1>7 DEF Fire, Hears, queue, server, client, IInv, TypeOK, RegisteredFires,
         Progress
    <2>2. TimerLife'
      BY <1>7, TimersFacts DEF Fire, Hears, queue, server, client, IInv, TimerLife, TypeOK,
         RegisteredFires
    <2>3. Counted'
      BY <1>7, TimersFacts DEF Fire, Hears, queue, server, client, IInv, Counted, TypeOK
    <2>4. PostTimerLife'
      BY <1>7, TimersFacts DEF Fire, Hears, queue, server, client, IInv, PostTimerLife,
         TypeOK, InCall
    <2> QED BY <2>1, <2>2, <2>3, <2>4 DEF IInv
  <1>8. ASSUME NEW t \in Timers, FireThrows(t) PROVE IInv'
    <2>1. TypeOK' /\ RegisteredFires' /\ Progress' /\ Counted' /\ PostTimerLife'
      BY <1>8 DEF FireThrows, Hears, queue, server, client, IInv, TypeOK, RegisteredFires,
         Progress, Counted, PostTimerLife, InCall
    <2>2. TimerLife'
      BY <1>8 DEF FireThrows, Hears, queue, server, client, IInv, TimerLife, TypeOK
    <2> QED BY <2>1, <2>2 DEF IInv
  <1> QED BY <1>1, <1>2, <1>3, <1>4, <1>5, <1>6, <1>7, <1>8

-----------------------------------------------------------------------------
(* The theorems *)

LEMMA StepIInv == IInv /\ [Next]_vars => IInv'
  <1> SUFFICES ASSUME IInv, [Next]_vars PROVE IInv'
    OBVIOUS
  <1>1. CASE Next
    <2>1. CASE AppStep
      BY <2>1, AppKeepsIInv DEF AppStep
    <2>2. CASE IOStep
      BY <2>2, PostKeepsIInv, LoopKeepsIInv DEF IOStep, RunJob
    <2> QED BY <1>1, <2>1, <2>2 DEF Next
  <1>2. CASE UNCHANGED vars
    BY <1>2 DEF vars, IInv, TypeOK, RegisteredFires, TimerLife, Progress, Counted,
                PostTimerLife, InCall, NoPostFini
  <1> QED BY <1>1, <1>2

\* Everything has its type in every behaviour, and a timer is registered
\* exactly as long as its event is pending or its callback has thrown
\* (Add_Timer, Del_Timer and event_add in impl_timer.cpp).
THEOREM InvHolds == Spec => []Inv
  <1>1. IInv => Inv
    BY DEF IInv, Inv
  <1> QED BY <1>1, InitIInv, StepIInv, PTL DEF Spec

\* The IO thread never uses a server that has been deleted, whatever timers
\* there are: timer_clock's last Release comes before the owner's, which waits
\* for the thread.
THEOREM ServerAliveHolds == Spec => []ServerAlive
  <1>1. IInv => ServerAlive
    BY DEF IInv, Progress, Counted, ServerAlive
  <1> QED BY <1>1, InitIInv, StepIInv, PTL DEF Spec

\* No step undoes a Fini, that of the post timer included, although its first
\* timer_clock writes m_status after the callback: real_fini of it is only ever
\* posted by a real_post that the callback itself has finished.
THEOREM FiniIsFinalHolds == Spec => FiniIsFinal
  <1> DEFINE Kept == /\ \A t \in AllTimers : tstat[t] = "end" => tstat'[t] \in {"end", "null"}
                     /\ \A t \in Timers : heard[t] = "end" => heard'[t] = "end"
  <1>1. IInv /\ [Next]_vars => [Kept]_vars
    <2> SUFFICES ASSUME IInv, Next PROVE Kept
      OBVIOUS
    <2>1. CASE UNCHANGED <<tstat, heard>>
      BY <2>1
    <2>2. CASE AppInit
      BY <2>2, TimersFacts DEF AppInit, IInv, TypeOK, Progress
    <2>3. CASE RunWait
      BY <2>3 DEF RunWait, timing, IInv, TypeOK
    <2>4. CASE RunFini
      BY <2>4 DEF RunFini, IInv, TypeOK
    <2>5. CASE RunStartInit
      BY <2>5 DEF RunStartInit, IInv, TypeOK, TimerLife
    <2>6. CASE Return
      BY <2>6, TimersFacts DEF Return, IInv, TypeOK, PostTimerLife
    <2>7. CASE EndRelease
      BY <2>7, TimersFacts DEF EndRelease, IInv, TypeOK
    <2>8. ASSUME NEW t \in Timers, Fire(t) \/ FireThrows(t) PROVE Kept
      BY <2>8 DEF Fire, FireThrows, Hears, IInv, TypeOK, TimerLife
    <2> QED BY <2>1, <2>2, <2>3, <2>4, <2>5, <2>6, <2>7, <2>8
            DEF Next, AppStep, IOStep, RunJob, AppRun, AppFlag, AppStop, AppRelease,
                AppReleaseUnjoined, AppStartTimer, AppFiniTimer, Gate, FinPost, Swap,
                RunStop, RunStartWait, EndDrain, LoopHead, LoopEndPass, FirePost,
                FirePostEnd, EndDel, timing
  <1> QED BY <1>1, InitIInv, StepIInv, PTL DEF Spec, FiniIsFinal

-----------------------------------------------------------------------------
(* What was begun before the server's Fini is ended before the server is       *)

\* A queue has a job of this kind.
Some(q, kind) == \E i \in DOMAIN q : q[i] \in kind
Waiting(kind) == Some(batch, kind) \/ Some(inbox, kind)

Stops == {j \in Jobs : j.op = "stop"}
Starts(E) == {Job("start", t) : t \in E}
Waits == {j \in Jobs : j.op = "wait"}

\* No start of one of these timers comes after a stop.
StopLast(q, E) ==
    \A i, j \in DOMAIN q : i < j /\ q[i] \in Stops => q[j] \notin Starts(E)

\* The early starts are posted before the one stop, and are run before it is.
Ordered ==
    /\ calls.early \subseteq calls.start
    /\ Waiting(Stops) => calls.stop
    /\ app # "created" /\ ~calls.stop => binit
    /\ StopLast(batch, calls.early) /\ StopLast(inbox, calls.early)
    /\ Some(batch, Stops) => ~Some(inbox, Starts(calls.early))
    /\ app # "created" /\ ~binit => ~Waiting(Starts(calls.early))
    /\ iopc # "drain" => batch = <<>>
    /\ Some(inbox, Waits) => haspost

\* A timer that has called back is registered until it hears timer_end, one that
\* has been initialised waits for its real_wait, and one that waits for nothing
\* and is not registered was ended or Fini'd before it ran.
Ended(t) == heard[t] = "end" \/ (t \in calls.fini /\ heard[t] = "none")

TimerRight(t) ==
    /\ heard[t] # "none" => t \in registry \/ heard[t] = "end"
    /\ tstat[t] \in {"begin", "common"} => t \in registry
    /\ Waiting({Job("fini", t)}) => t \in calls.fini \cup registry \/ heard[t] = "end"
    /\ t \in bound => tstat[t] = "init" \/ t \in registry \/ Ended(t)
    /\ t \in bound /\ tstat[t] = "init" =>
          Waiting({Job("wait", t)}) \/ Waiting({Job("start", t)})
    /\ t \in calls.early => t \in bound \/ Waiting({Job("start", t)})

TimersRight == \A t \in Timers : TimerRight(t)

\* The server has nothing left to do, and ends.
Ending ==
    \/ iopc = "finpost" \/ ~NoPostFini(inbox) \/ ~NoPostFini(batch)
    \/ tstat[PostTimer] = "end" \/ (app # "created" /\ status = "null")

Done(t) == t \in bound \ registry /\ tstat[t] \in {"null", "end"} /\ Ended(t)

EndsLast == Ending => calls.stop /\ \A t \in calls.early : Done(t)

EarlyInv == Ordered /\ TimersRight /\ EndsLast

LEMMA KindFacts ==
    /\ \A op, t, b, u : Job(op, t) = Job(b, u) <=> op = b /\ t = u
    /\ \A op, t, E : Job(op, t) \in Starts(E) <=> op = "start" /\ t \in E
    /\ \A j, E : j \in Starts(E) => j.op = "start" /\ j = Job("start", j.on) /\ j.on \in E
    /\ \A j : j \in Stops => j.op = "stop"
    /\ \A j : j \in Waits => j.op = "wait"
    /\ \A j \in Jobs : (j.op = "stop" => j \in Stops) /\ (j.op = "wait" => j \in Waits)
    /\ \A op, t : Job(op, t).op = op /\ Job(op, t).on = t
  <1>1. \A op, t : Job(op, t).op = op /\ Job(op, t).on = t
    BY DEF Job
  <1>2. \A op, t, b, u : Job(op, t) = Job(b, u) <=> op = b /\ t = u
    BY <1>1
  <1>3. \A op, t, E : Job(op, t) \in Starts(E) <=> op = "start" /\ t \in E
    BY <1>2 DEF Starts
  <1>4. \A j, E : j \in Starts(E) => j.op = "start" /\ j = Job("start", j.on) /\ j.on \in E
    BY <1>1 DEF Starts
  <1> QED BY <1>1, <1>2, <1>3, <1>4 DEF Stops, Waits

\* What an empty queue, a longer one and a shorter one have.
LEMMA NoJobs == \A kind, E : ~Some(<<>>, kind) /\ StopLast(<<>>, E) /\ NoPostFini(<<>>)
  <1>1. DOMAIN <<>> = {}
    BY EmptySeq
  <1> QED BY <1>1 DEF Some, StopLast, NoPostFini

LEMMA JobsPosted ==
    ASSUME NEW q \in Seq(Jobs), NEW s \in Seq(Jobs)
    PROVE  /\ \A kind : Some(q \o s, kind) <=> Some(q, kind) \/ Some(s, kind)
           /\ \A E : StopLast(q, E) /\ ~Some(s, Starts(E)) => StopLast(q \o s, E)
  <1> DEFINE r == q \o s
  <1>1. /\ DOMAIN r = 1..(Len(q) + Len(s))
        /\ \A i \in 1..(Len(q) + Len(s)) : r[i] = IF i <= Len(q) THEN q[i] ELSE s[i - Len(q)]
        /\ Len(q) \in Nat /\ DOMAIN q = 1..Len(q)
        /\ Len(s) \in Nat /\ DOMAIN s = 1..Len(s)
    <2>1. r \in Seq(Jobs) /\ Len(r) = Len(q) + Len(s)
      BY ConcatProperties
    <2>2. DOMAIN r = 1..(Len(q) + Len(s))
      BY <2>1, LenProperties
    <2> QED BY <2>2, ConcatProperties, LenProperties
  <1> HIDE DEF r
  <1>2. \A i \in DOMAIN q : i \in DOMAIN r /\ r[i] = q[i]
    BY <1>1
  <1>3. \A i \in DOMAIN s : Len(q) + i \in DOMAIN r /\ r[Len(q) + i] = s[i]
    BY <1>1
  <1>4. \A i \in DOMAIN r : i \in DOMAIN q \/ (i - Len(q) \in DOMAIN s /\ r[i] = s[i - Len(q)])
    BY <1>1
  <1>5. ASSUME NEW kind PROVE Some(r, kind) <=> Some(q, kind) \/ Some(s, kind)
    BY <1>2, <1>3, <1>4 DEF Some
  <1>6. ASSUME NEW E, StopLast(q, E), ~Some(s, Starts(E)) PROVE StopLast(r, E)
    <2> SUFFICES ASSUME NEW i \in DOMAIN r, NEW j \in DOMAIN r, i < j, r[i] \in Stops
                 PROVE  r[j] \notin Starts(E)
      BY DEF StopLast
    <2>1. CASE j \in DOMAIN q
      <3>1. i \in DOMAIN q
        BY <1>1, <2>1
      <3> QED BY <1>2, <1>6, <2>1, <3>1 DEF StopLast
    <2>2. CASE j \notin DOMAIN q
      BY <1>4, <1>6, <2>2 DEF Some
    <2> QED BY <2>1, <2>2
  <1> QED BY <1>5, <1>6 DEF r

LEMMA OneJobPosted ==
    ASSUME NEW q \in Seq(Jobs), NEW e \in Jobs
    PROVE  /\ \A kind : Some(Append(q, e), kind) <=> Some(q, kind) \/ e \in kind
           /\ \A E : /\ StopLast(q, E)
                     /\ e \in Starts(E) => ~Some(q, Stops)
                     => StopLast(Append(q, e), E)
  <1> DEFINE r == Append(q, e)
             n == Len(q) + 1
  <1>1. /\ DOMAIN r = 1..n /\ r[n] = e /\ n \in DOMAIN r
        /\ \A i \in DOMAIN q : i \in DOMAIN r /\ r[i] = q[i] /\ i < n
        /\ \A i \in DOMAIN r : i = n \/ i \in DOMAIN q
    <2>1. Len(q) \in Nat /\ DOMAIN q = 1..Len(q)
      BY LenProperties
    <2>2. r \in Seq(Jobs) /\ Len(r) = n /\ r[n] = e /\ \A i \in 1..Len(q) : r[i] = q[i]
      BY AppendProperties
    <2>3. DOMAIN r = 1..n
      BY <2>2, LenProperties
    <2> QED BY <2>1, <2>2, <2>3
  <1>2. \A i, j \in DOMAIN r : i < j => i \in DOMAIN q
    <2>1. Len(q) \in Nat /\ DOMAIN q = 1..Len(q)
      BY LenProperties
    <2> HIDE DEF r
    <2> QED BY <1>1, <2>1
  <1> HIDE DEF r, n
  <1>3. ASSUME NEW kind PROVE Some(r, kind) <=> Some(q, kind) \/ e \in kind
    BY <1>1 DEF Some
  <1>4. ASSUME NEW E, StopLast(q, E), e \in Starts(E) => ~Some(q, Stops)
        PROVE  StopLast(r, E)
    <2> SUFFICES ASSUME NEW i \in DOMAIN r, NEW j \in DOMAIN r, i < j, r[i] \in Stops
                 PROVE  r[j] \notin Starts(E)
      BY DEF StopLast
    <2>1. i \in DOMAIN q /\ r[i] = q[i]
      BY <1>1, <1>2
    <2>2. CASE j = n
      BY <1>1, <1>4, <2>1, <2>2 DEF Some
    <2>3. CASE j \in DOMAIN q
      BY <1>1, <1>4, <2>1, <2>3 DEF StopLast
    <2> QED BY <1>1, <2>2, <2>3
  <1> QED BY <1>3, <1>4 DEF r

LEMMA OneJobPopped ==
    ASSUME NEW q \in Seq(Jobs), q # <<>>
    PROVE  /\ \A kind : Some(q, kind) <=> Head(q) \in kind \/ Some(Tail(q), kind)
           /\ \A E : StopLast(q, E) => /\ StopLast(Tail(q), E)
                                       /\ Head(q) \in Stops => ~Some(Tail(q), Starts(E))
  <1> DEFINE r == Tail(q)
  <1>1. /\ Len(q) \in Nat \ {0} /\ DOMAIN q = 1..Len(q) /\ Head(q) = q[1]
        /\ DOMAIN r = 1..(Len(q) - 1)
        /\ \A i \in DOMAIN r : r[i] = q[i + 1]
    <2>1. Len(q) \in Nat \ {0} /\ DOMAIN q = 1..Len(q)
      BY LenProperties, EmptySeq
    <2>2. /\ r \in Seq(Jobs) /\ Len(r) = Len(q) - 1 /\ Head(q) = q[1]
          /\ \A i \in 1..Len(r) : r[i] = q[i + 1]
      BY HeadTailProperties
    <2>3. DOMAIN r = 1..Len(r)
      BY <2>2, LenProperties
    <2> QED BY <2>1, <2>2, <2>3
  <1> HIDE DEF r
  <1>2. /\ 1 \in DOMAIN q
        /\ \A i \in DOMAIN r : i + 1 \in DOMAIN q /\ 1 < i + 1
        /\ \A i \in DOMAIN q : i = 1 \/ (i - 1 \in DOMAIN r /\ r[i - 1] = q[i])
        /\ \A i, j \in DOMAIN r : i < j => i + 1 < j + 1
    BY <1>1
  <1>3. ASSUME NEW kind PROVE Some(q, kind) <=> Head(q) \in kind \/ Some(r, kind)
    BY <1>1, <1>2 DEF Some
  <1>4. ASSUME NEW E, StopLast(q, E)
        PROVE  StopLast(r, E) /\ (Head(q) \in Stops => ~Some(r, Starts(E)))
    BY <1>1, <1>2, <1>4 DEF StopLast, Some
  <1> QED BY <1>3, <1>4 DEF r

LEMMA GateJobs ==
    ASSUME registry \subseteq Timers
    PROVE  LET s == SetToSeq({Job("fini", t) : t \in registry})
           IN  /\ s \in Seq(Jobs)
               /\ \A kind : Some(s, kind) => \E t \in registry : Job("fini", t) \in kind
               /\ \A t : Some(s, {Job("fini", t)}) => t \in registry
  <1> DEFINE F == {Job("fini", t) : t \in registry}
             f == [t \in registry |-> Job("fini", t)]
  <1>1. IsFiniteSet(registry)
    BY TimersAssumption, FS_Subset
  <1>2. f \in Surjection(registry, F)
    BY DEF Surjection
  <1>3. IsFiniteSet(F)
    BY <1>1, <1>2, FS_Surjection
  <1>4. SetToSeq(F) \in Seq(F)
    <2> HIDE DEF F, f
    <2> QED BY <1>3, SetToSeqType
  <1>5. SetToSeq(F) \in Seq(Jobs)
    BY FinisType
  <1>6. \A i \in DOMAIN SetToSeq(F) : SetToSeq(F)[i] \in F
    <2> HIDE DEF F, f
    <2> QED BY <1>4, LenProperties, ElementOfSeq
  <1>7. \A kind : Some(SetToSeq(F), kind) => \E t \in registry : Job("fini", t) \in kind
    <2> SUFFICES ASSUME NEW kind, NEW i \in DOMAIN SetToSeq(F), SetToSeq(F)[i] \in kind
                 PROVE  \E t \in registry : Job("fini", t) \in kind
      BY DEF Some
    <2>1. PICK t \in registry : SetToSeq(F)[i] = Job("fini", t)
      BY <1>6
    <2> QED BY <2>1
  <1>8. \A t : Some(SetToSeq(F), {Job("fini", t)}) => t \in registry
    <2> SUFFICES ASSUME NEW t, Some(SetToSeq(F), {Job("fini", t)}) PROVE t \in registry
      OBVIOUS
    <2>1. PICK u \in registry : Job("fini", u) \in {Job("fini", t)}
      BY <1>7
    <2> QED BY <2>1, KindFacts
  <1> QED BY <1>5, <1>7, <1>8

\* What each step does to the queues, to the calls and to binit.
LEMMA QuietOrdered ==
    ASSUME IInv, Ordered,
           UNCHANGED <<inbox, batch, calls, binit>>,
           haspost => haspost',
           app' # "created" => app # "created", iopc' = "drain" => iopc = "drain",
           iopc = "drain" /\ iopc' # "drain" => batch = <<>>
    PROVE  Ordered'
  <1>1. /\ \A kind : Some(inbox', kind) <=> Some(inbox, kind)
        /\ \A kind : Waiting(kind)' <=> Waiting(kind)
    BY DEF Waiting
  <1> QED BY <1>1 DEF Ordered, StopLast

LEMMA PushOrdered ==
    ASSUME IInv, Ordered, NEW op \in {"start", "fini", "stop"}, NEW t \in AllTimers,
           inbox' = Append(inbox, Job(op, t)), UNCHANGED <<batch, haspost, iopc, app, binit>>,
           app # "created",
           calls'.early \subseteq calls'.start,
           op = "start" => \/ calls'.early = calls.early /\ t \notin calls.early
                           \/ ~calls.stop /\ calls'.early = calls.early \cup {t},
           op # "start" => calls'.early = calls.early,
           calls.stop => calls'.stop, op = "stop" => calls'.stop,
           op # "stop" => calls'.stop = calls.stop
    PROVE  Ordered'
  <1> DEFINE e == Job(op, t)
  <1>1. e \in Jobs /\ inbox \in Seq(Jobs)
    BY JobFacts DEF IInv, TypeOK
  <1>2. /\ \A kind : Some(inbox', kind) <=> Some(inbox, kind) \/ e \in kind
        /\ \A E : StopLast(inbox, E) /\ (e \in Starts(E) => ~Some(inbox, Stops)) => StopLast(inbox', E)
    BY <1>1, OneJobPosted
  <1>3. /\ \A E : e \in Starts(E) <=> op = "start" /\ t \in E
        /\ e \in Stops => op = "stop"
        /\ e \notin Waits
    BY KindFacts
  <1> HIDE DEF e
  <1>4. Waiting(Stops)' => calls'.stop
    BY <1>2, <1>3 DEF Ordered, Waiting
  <1>5. app' # "created" /\ ~calls'.stop => binit'
    BY DEF Ordered
  <1>6. CASE calls'.early = calls.early
    <2>1. StopLast(inbox', calls.early) /\ StopLast(batch', calls.early)
      <3>1. StopLast(inbox, calls.early) /\ StopLast(batch, calls.early)
        BY DEF Ordered
      <3>2. e \in Starts(calls.early) => ~Some(inbox, Stops)
        BY <1>3, <1>6 DEF Ordered, Waiting
      <3>3. batch' = batch
        OBVIOUS
      <3> QED BY <1>2, <3>1, <3>2, <3>3
    <2>2. /\ Some(batch', Stops) => ~Some(inbox', Starts(calls.early))
          /\ app' # "created" /\ ~binit' => ~Waiting(Starts(calls.early))'
      BY <1>2, <1>3, <1>6 DEF Ordered, Waiting
    <2> QED BY <1>2, <1>3, <1>4, <1>5, <1>6, <2>1, <2>2 DEF Ordered
  <1>7. CASE op = "start" /\ ~calls.stop
    <2>1. ~Some(batch, Stops) /\ ~Some(inbox', Stops)
      BY <1>2, <1>3, <1>7 DEF Ordered, Waiting
    <2>2. \A E : StopLast(batch, E) /\ StopLast(inbox', E)
      BY <2>1 DEF StopLast, Some
    <2>3. binit
      BY <1>7 DEF Ordered
    <2> QED BY <1>2, <1>3, <1>4, <1>5, <2>1, <2>2, <2>3 DEF Ordered
  <1> QED BY <1>6, <1>7

LEMMA PostOrdered ==
    ASSUME IInv, Ordered, NEW s \in Seq(Jobs), NEW E, E = calls.early,
           ~Some(s, Stops), ~Some(s, Starts(E)),
           inbox' = inbox \o s, haspost => haspost', Some(s, Waits) => haspost',
           UNCHANGED <<calls, app, binit>>, app # "created",
           \/ batch' = batch /\ (iopc' # "drain" => batch = <<>>)
           \/ /\ batch # <<>> /\ batch' = Tail(batch) /\ Head(batch) \notin Stops
              /\ iopc' = "drain"
    PROVE  Ordered'
  <1>1. inbox \in Seq(Jobs) /\ batch \in Seq(Jobs)
    BY DEF IInv, TypeOK
  <1>2. /\ \A kind : Some(inbox', kind) <=> Some(inbox, kind) \/ Some(s, kind)
        /\ StopLast(inbox, E) => StopLast(inbox', E)
    BY <1>1, JobsPosted
  <1>3. /\ \A kind : Some(batch', kind) => Some(batch, kind)
        /\ StopLast(batch, E) => StopLast(batch', E)
    <2>1. CASE batch' = batch
      BY <2>1
    <2>2. CASE batch # <<>> /\ batch' = Tail(batch)
      BY <1>1, <2>2, OneJobPopped
    <2> QED BY <2>1, <2>2
  <1>4. calls' = calls /\ app' = app /\ binit' = binit
    OBVIOUS
  <1>5. Waiting(Stops)' => Waiting(Stops)
    BY <1>2, <1>3 DEF Waiting
  <1>6. Waiting(Starts(E))' => Waiting(Starts(E))
    BY <1>2, <1>3 DEF Waiting
  <1>7. Some(batch', Stops) => ~Some(inbox', Starts(E))
    BY <1>2, <1>3 DEF Ordered
  <1>8. Some(inbox', Waits) => haspost'
    BY <1>2 DEF Ordered
  <1>9. iopc' # "drain" => batch' = <<>>
    OBVIOUS
  <1> QED BY <1>2, <1>3, <1>4, <1>5, <1>6, <1>7, <1>8, <1>9 DEF Ordered

LEMMA StepOrdered ==
    ASSUME IInv, Ordered, [Next]_vars
    PROVE  Ordered'
  <1>0. /\ inbox \in Seq(Jobs) /\ batch \in Seq(Jobs) /\ registry \subseteq Timers
        /\ <<>> \in Seq(Jobs) /\ \A kind : ~Some(<<>>, kind)
        /\ inbox \o <<>> = inbox
    BY NoJobs, ConcatEmptySeq DEF IInv, TypeOK
  <1>1. CASE AppRun \/ AppFlag \/ AppRelease \/ AppReleaseUnjoined
    <2>1. /\ UNCHANGED <<inbox, batch, calls, binit>> /\ (haspost => haspost')
          /\ (app' # "created" => app # "created") /\ (iopc' = "drain" => iopc = "drain")
          /\ (iopc = "drain" /\ iopc' # "drain" => batch = <<>>)
      <3>1. UNCHANGED <<inbox, batch, calls, binit>> /\ (app' # "created" => app # "created")
        BY <1>1 DEF AppRun, AppFlag, AppRelease, AppReleaseUnjoined, queue, server, IInv, Progress
      <3>2. haspost => haspost'
        BY <1>1, Zenon DEF AppRun, AppFlag, AppRelease, AppReleaseUnjoined, queue
      <3>3. /\ iopc' = "drain" => iopc = "drain"
            /\ iopc = "drain" /\ iopc' # "drain" => batch = <<>>
        BY <1>1 DEF AppRun, AppFlag, AppRelease, AppReleaseUnjoined, queue, IInv, Progress
      <3> QED BY <3>1, <3>2, <3>3
    <2> QED BY <2>1, QuietOrdered
  <1>2. CASE EndDrain \/ Return \/ LoopHead \/ LoopEndPass \/ FirePost \/ FirePostEnd
             \/ EndRelease \/ EndDel \/ \E t \in Timers : Fire(t) \/ FireThrows(t)
    <2>1. /\ UNCHANGED <<inbox, batch, calls, binit>> /\ (haspost => haspost')
          /\ (app' # "created" => app # "created") /\ (iopc' = "drain" => iopc = "drain")
          /\ (iopc = "drain" /\ iopc' # "drain" => batch = <<>>)
      BY <1>2 DEF EndDrain, Return, LoopHead, LoopEndPass, FirePost, FirePostEnd, EndRelease, EndDel,
                  Fire, FireThrows, queue, server, client, Ordered, IInv, Progress
    <2> QED BY <2>1, QuietOrdered
  <1>3. CASE AppInit
    <2>1. /\ inbox' = Append(inbox, Job("wait", PostTimer)) /\ binit' = TRUE /\ haspost' = TRUE
          /\ UNCHANGED <<batch, iopc, calls>>
      BY <1>3 DEF AppInit
    <2>2. Job("wait", PostTimer) \in Jobs
      BY JobFacts, TimersFacts
    <2>3. /\ Job("wait", PostTimer) \notin Stops
          /\ \A E : Job("wait", PostTimer) \notin Starts(E)
      BY KindFacts
    <2>4. /\ \A kind : Some(inbox', kind) <=> Some(inbox, kind) \/ Job("wait", PostTimer) \in kind
          /\ \A E : StopLast(inbox, E) => StopLast(inbox', E)
      BY <1>0, <2>1, <2>2, <2>3, OneJobPosted
    <2> QED BY <2>1, <2>3, <2>4 DEF Ordered, Waiting
  <1>4. CASE AppStop
    <2>1. /\ inbox' = Append(inbox, Job("stop", PostTimer)) /\ app # "created"
          /\ UNCHANGED <<batch, haspost, iopc, app, binit>>
          /\ calls'.early = calls.early /\ calls'.start = calls.start /\ calls'.stop = TRUE
      BY <1>4 DEF AppStop, AppPush, server, IInv, TypeOK
    <2>2. calls'.early \subseteq calls'.start
      BY <2>1 DEF Ordered
    <2> QED BY <2>1, <2>2, TimersFacts, PushOrdered
  <1>5. ASSUME NEW t \in Timers, AppStartTimer(t) PROVE Ordered'
    <2>1. /\ inbox' = Append(inbox, Job("start", t)) /\ app # "created" /\ t \notin calls.start
          /\ UNCHANGED <<batch, haspost, iopc, app, binit>>
          /\ calls'.early = IF calls.stop THEN calls.early ELSE calls.early \cup {t}
          /\ calls'.start = calls.start \cup {t} /\ calls'.stop = calls.stop
      BY <1>5 DEF AppStartTimer, AppPush, server, IInv, TypeOK
    <2>2. calls'.early \subseteq calls'.start /\ t \notin calls.early
      BY <2>1 DEF Ordered
    <2> QED BY <2>1, <2>2, TimersFacts, PushOrdered
  <1>6. ASSUME NEW t \in Timers, AppFiniTimer(t) PROVE Ordered'
    <2>1. /\ inbox' = Append(inbox, Job("fini", t)) /\ app # "created"
          /\ UNCHANGED <<batch, haspost, iopc, app, binit>>
          /\ calls'.early = calls.early /\ calls'.start = calls.start /\ calls'.stop = calls.stop
      BY <1>6 DEF AppFiniTimer, AppPush, server, IInv, TypeOK
    <2>2. calls'.early \subseteq calls'.start
      BY <2>1 DEF Ordered
    <2> QED BY <2>1, <2>2, TimersFacts, PushOrdered
  <1>7. CASE Gate
    <2>1. /\ UNCHANGED <<batch, calls, app, binit>> /\ app # "created" /\ iopc' # "drain" /\ batch = <<>>
      BY <1>7 DEF Gate, server, client, IInv, Progress, Ordered
    <2> DEFINE s == SetToSeq({Job("fini", t) : t \in registry})
    <2>2. s \in Seq(Jobs) /\ ~Some(s, Stops) /\ ~Some(s, Waits) /\ \A E : ~Some(s, Starts(E))
      BY <1>0, GateJobs, KindFacts
    <2> HIDE DEF s
    <2>3. (haspost => haspost') /\ (inbox' = inbox \o <<>> \/ inbox' = inbox \o s)
      BY <1>0, <1>7 DEF Gate, IOPost, s
    <2> QED BY <1>0, <2>1, <2>2, <2>3, PostOrdered
  <1>8. CASE FinPost
    <2>1. /\ UNCHANGED <<batch, calls, app, binit>> /\ app # "created" /\ iopc' # "drain" /\ batch = <<>>
      BY <1>8 DEF FinPost, server, client, IInv, Progress, Ordered
    <2> DEFINE s == <<Job("fini", PostTimer)>>
    <2>2. s \in Seq(Jobs) /\ ~Some(s, Stops) /\ ~Some(s, Waits) /\ \A E : ~Some(s, Starts(E))
      <3>1. Job("fini", PostTimer) \in Jobs
        BY JobFacts, TimersFacts
      <3>2. DOMAIN s = {1} /\ s[1] = Job("fini", PostTimer) /\ s \in Seq(Jobs)
        BY <3>1
      <3> HIDE DEF s
      <3> QED BY <3>2, KindFacts DEF Some
    <2>3. (haspost => haspost') /\ (inbox' = inbox \o <<>> \/ inbox' = inbox \o s)
      BY <1>8 DEF FinPost, IOPost
    <2> HIDE DEF s
    <2> QED BY <1>0, <2>1, <2>2, <2>3, PostOrdered
  <1>9. CASE Swap
    <2>1. /\ batch' = inbox /\ inbox' = <<>> /\ batch = <<>> /\ iopc' = "drain"
          /\ UNCHANGED <<calls, app, binit>>
      BY <1>9 DEF Swap, server, client, Ordered
    <2>2. \A kind : ~Some(inbox', kind) /\ (Waiting(kind)' <=> Waiting(kind))
      BY <1>0, <2>1 DEF Waiting
    <2>3. \A E : StopLast(inbox', E)
      BY <2>1, NoJobs
    <2> QED BY <2>1, <2>2, <2>3 DEF Ordered
  <1>10. CASE RunWait \/ RunFini
    <2>1. /\ UNCHANGED <<inbox, haspost, calls, app, binit>> /\ app # "created" /\ iopc' = "drain"
          /\ batch # <<>> /\ batch' = Tail(batch) /\ Head(batch) \notin Stops
      BY <1>10, KindFacts DEF RunWait, RunFini, Runs, Popped, server, client, IInv, Progress
    <2> QED BY <1>0, <2>1, PostOrdered
  <1>11. CASE RunStop
    <2>1. /\ UNCHANGED <<inbox, haspost, calls, app>> /\ app # "created" /\ iopc' = "drain"
          /\ batch # <<>> /\ batch' = Tail(batch) /\ Head(batch).op = "stop"
      BY <1>11 DEF RunStop, Runs, Popped, client, IInv, Progress
    <2>2. Head(batch) \in Stops
      BY <1>0, <2>1, PopProperties, KindFacts
    <2>3. /\ \A kind : Some(batch, kind) <=> Head(batch) \in kind \/ Some(batch', kind)
          /\ \A E : StopLast(batch, E) => StopLast(batch', E) /\ ~Some(batch', Starts(E))
      BY <1>0, <2>1, <2>2, OneJobPopped
    <2>4. calls.stop /\ ~Some(inbox, Starts(calls.early)) /\ ~Some(batch', Starts(calls.early))
      BY <2>2, <2>3 DEF Ordered, Waiting
    <2> QED BY <2>1, <2>3, <2>4 DEF Ordered, Waiting
  <1>12. CASE RunStartInit
    <2>1. UNCHANGED <<inbox, batch, haspost, iopc, calls, app, binit>> /\ app # "created" /\ iopc = "drain"
      BY <1>12 DEF RunStartInit, Runs, queue, server, client, IInv, Progress
    <2> QED BY <2>1, QuietOrdered
  <1>13. CASE RunStartWait
    <2> DEFINE s == <<Job("wait", Head(batch).on)>>
    <2>1. /\ UNCHANGED <<calls, app, binit>> /\ app # "created" /\ iopc' = "drain"
          /\ batch # <<>> /\ batch' = Tail(batch) /\ Head(batch) \notin Stops
      BY <1>13, KindFacts DEF RunStartWait, Runs, Popped, server, client, IInv, Progress
    <2>2. s \in Seq(Jobs) /\ ~Some(s, Stops) /\ s # <<>> /\ \A E : ~Some(s, Starts(E))
      <3>1. Job("wait", Head(batch).on) \in Jobs
        BY <1>0, <2>1, JobFacts, PopProperties
      <3>2. DOMAIN s = {1} /\ s[1] = Job("wait", Head(batch).on) /\ s \in Seq(Jobs) /\ s # <<>>
        BY <3>1
      <3> HIDE DEF s
      <3> QED BY <3>2, KindFacts DEF Some
    <2>3. (haspost => haspost') /\ (inbox' = inbox \o <<>> \/ (inbox' = inbox \o s /\ haspost'))
      BY <1>13, <2>2 DEF RunStartWait, IOPost
    <2> HIDE DEF s
    <2> QED BY <1>0, <2>1, <2>2, <2>3, PostOrdered
  <1>14. CASE UNCHANGED vars
    <2>1. UNCHANGED <<inbox, batch, haspost, iopc, calls, app, binit>>
      BY <1>14 DEF vars
    <2>2. \A kind : Waiting(kind)' <=> Waiting(kind)
      BY <2>1 DEF Waiting
    <2> QED BY <2>1, <2>2 DEF Ordered
  <1> QED BY <1>1, <1>2, <1>3, <1>4, <1>5, <1>6, <1>7, <1>8, <1>9, <1>10, <1>11, <1>12, <1>13, <1>14
          DEF Next, AppStep, IOStep, RunJob

\* A step that does nothing to a timer and takes none of its jobs.
LEMMA OtherTimer ==
    ASSUME NEW t \in Timers, TimerRight(t),
           heard'[t] = heard[t], tstat'[t] = tstat[t],
           t \in bound' <=> t \in bound, t \in registry' <=> t \in registry,
           calls.fini \subseteq calls'.fini,
           t \in calls'.early => t \in calls.early \/ Waiting({Job("start", t)})',
           Waiting({Job("fini", t)})' =>
                Waiting({Job("fini", t)}) \/ t \in calls'.fini \cup registry \/ heard[t] = "end",
           t \notin bound /\ Waiting({Job("start", t)}) => Waiting({Job("start", t)})',
           tstat[t] = "init" =>
               (Waiting({Job("wait", t)}) \/ Waiting({Job("start", t)}) =>
                   Waiting({Job("wait", t)})' \/ Waiting({Job("start", t)})')
    PROVE  TimerRight(t)'
  <1> DEFINE s == Waiting({Job("start", t)})
             w == Waiting({Job("wait", t)})
             f == Waiting({Job("fini", t)})
  <1>1. /\ heard'[t] # "none" => t \in registry' \/ heard'[t] = "end"
        /\ tstat'[t] \in {"begin", "common"} => t \in registry'
        /\ t \in bound' => tstat'[t] = "init" \/ t \in registry' \/ Ended(t)'
    BY DEF TimerRight, Ended
  <1>2. f' => t \in calls'.fini \cup registry' \/ heard'[t] = "end"
    BY DEF TimerRight
  <1>3. t \in bound' /\ tstat'[t] = "init" => w' \/ s'
    BY DEF TimerRight
  <1>4. t \in calls'.early => t \in bound' \/ s'
    BY DEF TimerRight
  <1> QED BY <1>1, <1>2, <1>3, <1>4 DEF TimerRight

LEMMA KeepTimers ==
    ASSUME TimersRight, UNCHANGED <<registry, heard>>,
           \A t \in Timers : tstat'[t] = tstat[t] /\ (t \in bound' <=> t \in bound),
           calls.fini \subseteq calls'.fini,
           \A t \in Timers :
               /\ t \in calls'.early => t \in calls.early \/ Waiting({Job("start", t)})'
               /\ Waiting({Job("fini", t)})' =>
                    Waiting({Job("fini", t)}) \/ t \in calls'.fini \cup registry \/ heard[t] = "end"
               /\ Waiting({Job("start", t)}) => Waiting({Job("start", t)})'
               /\ Waiting({Job("wait", t)}) => Waiting({Job("wait", t)})'
    PROVE  TimersRight'
  <1> SUFFICES ASSUME NEW t \in Timers PROVE TimerRight(t)'
    BY DEF TimersRight
  <1>1. TimerRight(t)
    BY DEF TimersRight
  <1>2. /\ heard'[t] = heard[t] /\ tstat'[t] = tstat[t]
        /\ (t \in bound' <=> t \in bound) /\ (t \in registry' <=> t \in registry)
    OBVIOUS
  <1> QED BY <1>1, OtherTimer

LEMMA QueuesKeepTimers ==
    ASSUME TimersRight, UNCHANGED <<bound, registry, heard, inbox, batch, calls>>,
           \A t \in Timers : tstat'[t] = tstat[t]
    PROVE  TimersRight'
  <1>1. \A kind : Waiting(kind)' <=> Waiting(kind)
    BY DEF Waiting
  <1> QED BY <1>1, KeepTimers

LEMMA PushKeepsTimers ==
    ASSUME IInv, TimersRight, NEW op \in {"wait", "start", "fini", "stop"}, NEW u \in AllTimers,
           inbox' = Append(inbox, Job(op, u)), batch' = batch,
           UNCHANGED <<registry, heard>>,
           \A t \in Timers : tstat'[t] = tstat[t] /\ (t \in bound' <=> t \in bound),
           calls.fini \subseteq calls'.fini, op = "fini" => u \in calls'.fini,
           op = "start" => calls'.early \subseteq calls.early \cup {u},
           op # "start" => calls'.early = calls.early
    PROVE  TimersRight'
  <1>1. Job(op, u) \in Jobs /\ inbox \in Seq(Jobs)
    BY JobFacts DEF IInv, TypeOK
  <1>2. \A kind : Waiting(kind)' <=> Waiting(kind) \/ Job(op, u) \in kind
    BY <1>1, OneJobPosted DEF Waiting
  <1>3. \A b, t : Job(op, u) \in {Job(b, t)} <=> op = b /\ u = t
    BY KindFacts
  <1>4. \A b, t : Waiting({Job(b, t)})' <=> Waiting({Job(b, t)}) \/ (op = b /\ u = t)
    BY <1>2, <1>3
  <1> QED BY <1>4, KeepTimers

LEMMA PostKeepsTimers ==
    ASSUME IInv, TimersRight, NEW s \in Seq(Jobs), inbox' = inbox \o s, batch' = batch,
           \A t \in Timers : Some(s, {Job("fini", t)}) => t \in registry,
           UNCHANGED <<bound, registry, heard, tstat, calls>>
    PROVE  TimersRight'
  <1>1. inbox \in Seq(Jobs)
    BY DEF IInv, TypeOK
  <1>2. \A kind : Waiting(kind)' <=> Waiting(kind) \/ Some(s, kind)
    BY <1>1, JobsPosted DEF Waiting
  <1> QED BY <1>2, KeepTimers

\* A job that is run: of another timer, or of none.
LEMMA PopKeepsTimers ==
    ASSUME IInv, TimersRight, batch # <<>>, batch' = Tail(batch),
           NEW s \in Seq(Jobs), inbox' = inbox \o s, NEW u, u = Head(batch).on,
           \A t \in Timers : ~Some(s, {Job("fini", t)}), UNCHANGED calls,
           \A t \in Timers \ {u} : /\ heard'[t] = heard[t] /\ tstat'[t] = tstat[t]
                                   /\ t \in bound' <=> t \in bound
                                   /\ t \in registry' <=> t \in registry,
           u \in Timers => TimerRight(u)'
    PROVE  TimersRight'
  <1>1. inbox \in Seq(Jobs) /\ batch \in Seq(Jobs)
    BY DEF IInv, TypeOK
  <1>2. \A kind : Head(batch) \notin kind => (Waiting(kind)' <=> Waiting(kind) \/ Some(s, kind))
    BY <1>1, JobsPosted, OneJobPopped DEF Waiting
  <1>3. \A op, t : t # u => Head(batch) \notin {Job(op, t)}
    BY KindFacts
  <1>4. \A op, t : t # u => (Waiting({Job(op, t)})' <=> Waiting({Job(op, t)}) \/ Some(s, {Job(op, t)}))
    BY <1>2, <1>3
  <1>5. ASSUME NEW t \in Timers, t # u PROVE TimerRight(t)'
    <2>1. TimerRight(t)
      BY DEF TimersRight
    <2>2. /\ Waiting({Job("start", t)}) => Waiting({Job("start", t)})'
          /\ Waiting({Job("wait", t)}) => Waiting({Job("wait", t)})'
          /\ Waiting({Job("fini", t)})' => Waiting({Job("fini", t)})
      BY <1>4, <1>5
    <2>3. /\ heard'[t] = heard[t] /\ tstat'[t] = tstat[t]
          /\ (t \in bound' <=> t \in bound) /\ (t \in registry' <=> t \in registry)
      BY <1>5
    <2> QED BY <2>1, <2>2, <2>3, OtherTimer
  <1> QED BY <1>5 DEF TimersRight

LEMMA AppTimersRight ==
    ASSUME IInv, TimersRight, AppStep
    PROVE  TimersRight'
  <1>1. CASE AppRun \/ AppFlag \/ AppRelease \/ AppReleaseUnjoined
    <2>1. UNCHANGED <<bound, registry, heard, inbox, batch, calls, tstat>>
      BY <1>1 DEF AppRun, AppFlag, AppRelease, AppReleaseUnjoined, queue, timing
    <2> QED BY <2>1, QueuesKeepTimers
  <1>2. CASE AppInit
    <2>1. /\ inbox' = Append(inbox, Job("wait", PostTimer)) /\ batch' = batch
          /\ UNCHANGED <<registry, heard, calls>>
      BY <1>2 DEF AppInit
    <2>2. \A t \in Timers : tstat'[t] = tstat[t] /\ (t \in bound' <=> t \in bound)
      BY <1>2, TimersFacts DEF AppInit, IInv, TypeOK
    <2> QED BY <2>1, <2>2, TimersFacts, PushKeepsTimers
  <1>3. CASE AppStop
    <2>1. /\ inbox' = Append(inbox, Job("stop", PostTimer)) /\ batch' = batch
          /\ UNCHANGED <<registry, heard, tstat, bound>>
          /\ calls'.fini = calls.fini /\ calls'.early = calls.early
      BY <1>3 DEF AppStop, AppPush, timing, IInv, TypeOK
    <2> QED BY <2>1, TimersFacts, PushKeepsTimers
  <1>4. ASSUME NEW u \in Timers, AppStartTimer(u) PROVE TimersRight'
    <2>1. /\ inbox' = Append(inbox, Job("start", u)) /\ batch' = batch
          /\ UNCHANGED <<registry, heard, tstat, bound>>
          /\ calls'.fini = calls.fini /\ calls'.early \subseteq calls.early \cup {u}
      BY <1>4 DEF AppStartTimer, AppPush, timing, IInv, TypeOK
    <2> QED BY <2>1, TimersFacts, PushKeepsTimers
  <1>5. ASSUME NEW u \in Timers, AppFiniTimer(u) PROVE TimersRight'
    <2>1. /\ inbox' = Append(inbox, Job("fini", u)) /\ batch' = batch
          /\ UNCHANGED <<registry, heard, tstat, bound>>
          /\ calls'.fini = calls.fini \cup {u} /\ calls'.early = calls.early
      BY <1>5 DEF AppFiniTimer, AppPush, timing, IInv, TypeOK
    <2> QED BY <2>1, TimersFacts, PushKeepsTimers
  <1> QED BY <1>1, <1>2, <1>3, <1>4, <1>5 DEF AppStep

LEMMA PostTimersRight ==
    ASSUME IInv, Ordered, TimersRight, Gate \/ FinPost \/ Swap
    PROVE  TimersRight'
  <1>0. /\ inbox \in Seq(Jobs) /\ registry \subseteq Timers
        /\ <<>> \in Seq(Jobs) /\ \A kind : ~Some(<<>>, kind) /\ inbox \o <<>> = inbox
    BY NoJobs, ConcatEmptySeq DEF IInv, TypeOK
  <1>1. CASE Gate
    <2>1. UNCHANGED <<batch, bound, registry, heard, tstat, calls>>
      BY <1>1 DEF Gate, client, timing
    <2> DEFINE s == SetToSeq({Job("fini", t) : t \in registry})
    <2>2. s \in Seq(Jobs) /\ \A t : Some(s, {Job("fini", t)}) => t \in registry
      BY <1>0, GateJobs
    <2> HIDE DEF s
    <2>3. inbox' = inbox \o <<>> \/ inbox' = inbox \o s
      BY <1>0, <1>1 DEF Gate, IOPost, s
    <2> QED BY <1>0, <2>1, <2>2, <2>3, PostKeepsTimers
  <1>2. CASE FinPost
    <2>1. UNCHANGED <<batch, bound, registry, heard, tstat, calls>>
      BY <1>2 DEF FinPost, client, timing
    <2> DEFINE s == <<Job("fini", PostTimer)>>
    <2>2. s \in Seq(Jobs) /\ \A t \in Timers : ~Some(s, {Job("fini", t)})
      <3>1. Job("fini", PostTimer) \in Jobs
        BY JobFacts, TimersFacts
      <3>2. DOMAIN s = {1} /\ s[1] = Job("fini", PostTimer) /\ s \in Seq(Jobs)
        BY <3>1
      <3> HIDE DEF s
      <3> QED BY <3>2, KindFacts, TimersFacts DEF Some
    <2>3. inbox' = inbox \o <<>> \/ inbox' = inbox \o s
      BY <1>0, <1>2 DEF FinPost, IOPost
    <2> HIDE DEF s
    <2> QED BY <1>0, <2>1, <2>2, <2>3, PostKeepsTimers
  <1>3. CASE Swap
    <2>1. /\ batch' = inbox /\ inbox' = <<>> /\ UNCHANGED <<bound, registry, heard, tstat, calls>>
      BY <1>3 DEF Swap, client, timing
    <2>2. batch = <<>>
      BY <1>3 DEF Swap, Ordered
    <2>3. \A kind : Waiting(kind)' <=> Waiting(kind)
      BY <1>0, <2>1, <2>2 DEF Waiting
    <2> QED BY <2>1, <2>3, KeepTimers
  <1> QED BY <1>1, <1>2, <1>3

\* What a job does to its own timer.
LEMMA JobTimersRight ==
    ASSUME IInv, Ordered, TimersRight, RunJob
    PROVE  TimersRight'
  <1>u. PICK u : u = Head(batch).on
    OBVIOUS
  <1> DEFINE w == Waiting({Job("wait", u)})
             s == Waiting({Job("start", u)})
             f == Waiting({Job("fini", u)})
  <1>0. /\ inbox \in Seq(Jobs) /\ <<>> \in Seq(Jobs) /\ \A kind : ~Some(<<>>, kind)
        /\ inbox \o <<>> = inbox
    BY NoJobs, ConcatEmptySeq DEF IInv, TypeOK
  <1>1. /\ batch # <<>> /\ batch \in Seq(Jobs) /\ u \in AllTimers
        /\ Head(batch) = Job(Head(batch).op, u)
    BY PopProperties, <1>u DEF IInv, TypeOK, RunJob, RunWait, RunFini, RunStop, RunStartInit, RunStartWait, Runs
  <1>2. /\ \A kind : Some(batch, kind) <=> Head(batch) \in kind \/ Some(Tail(batch), kind)
        /\ \A b : Head(batch) \in {Job(b, u)} <=> b = Head(batch).op
    BY <1>1, OneJobPopped, KindFacts
  <1>3. ASSUME u \in Timers
        PROVE  /\ TimerRight(u)
               /\ tstat[u] # "null" => u \in bound
    BY <1>3 DEF TimersRight, IInv, TimerLife, AllTimers
  <1>4. CASE RunWait
    <2>1. /\ batch' = Tail(batch) /\ inbox' = inbox /\ Head(batch).op = "wait"
          /\ UNCHANGED <<calls, bound, heard>>
      BY <1>4 DEF RunWait, Runs, Popped, client, timing
    <2>2. CASE tstat[u] # "init"
      <3>1. UNCHANGED <<tstat, registry>>
        BY <1>4, <1>u, <2>2 DEF RunWait, timing
      <3>2. (f' => f) /\ (s' <=> s)
        BY <1>2, <2>1 DEF Waiting
      <3>3. ASSUME u \in Timers PROVE TimerRight(u)'
        BY <1>3, <2>1, <2>2, <3>1, <3>2, <3>3, OtherTimer
      <3> QED BY <1>0, <1>1, <2>1, <3>1, <3>3, PopKeepsTimers, <1>u
    <2>3. CASE tstat[u] = "init"
      <3>1. /\ tstat' = [tstat EXCEPT ![u] = "begin"] /\ registry' = registry \cup ({u} \ {PostTimer})
        BY <1>4, <1>u, <2>3 DEF RunWait
      <3>2. /\ u \in Timers => tstat'[u] = "begin" /\ u \in registry'
            /\ \A t \in Timers \ {u} : tstat'[t] = tstat[t] /\ (t \in registry' <=> t \in registry)
        BY <3>1, TimersFacts DEF IInv, TypeOK
      <3>3. ASSUME u \in Timers PROVE TimerRight(u)'
        BY <1>3, <2>1, <2>3, <3>2, <3>3 DEF TimerRight
      <3> QED BY <1>0, <1>1, <2>1, <3>2, <3>3, PopKeepsTimers, <1>u
    <2> QED BY <2>2, <2>3
  <1>5. CASE RunFini
    <2>1. /\ batch' = Tail(batch) /\ inbox' = inbox /\ Head(batch).op = "fini"
          /\ UNCHANGED <<calls, bound, heard, registry>>
          /\ tstat' = IF tstat[u] = "null" THEN tstat ELSE [tstat EXCEPT ![u] = "end"]
      BY <1>5, <1>u DEF RunFini, Runs, Popped, client
    <2>2. /\ \A t \in Timers \ {u} : tstat'[t] = tstat[t]
          /\ u \in Timers => tstat'[u] = IF tstat[u] = "null" THEN tstat[u] ELSE "end"
      BY <2>1, TimersFacts DEF IInv, TypeOK
    <2>3. (f' => f) /\ (s' <=> s) /\ (w' <=> w) /\ f
      BY <1>2, <2>1 DEF Waiting
    <2>4. ASSUME u \in Timers PROVE TimerRight(u)'
      <3>1. CASE tstat[u] = "null"
        BY <1>3, <2>1, <2>2, <2>3, <2>4, <3>1, OtherTimer
      <3>2. CASE tstat[u] # "null"
        <4>1. u \in bound /\ u \in bound' /\ tstat'[u] = "end"
          BY <1>3, <2>1, <2>2, <2>4, <3>2
        <4>2. u \in registry \/ Ended(u)
          BY <1>3, <2>3, <2>4, <4>1 DEF TimerRight, Ended
        <4>3. (Ended(u) <=> Ended(u)') /\ (u \in registry' <=> u \in registry)
          BY <2>1 DEF Ended
        <4> HIDE DEF w, s, f
        <4> QED BY <1>3, <2>1, <2>3, <2>4, <4>1, <4>2, <4>3 DEF TimerRight, w, s, f
      <3> QED BY <3>1, <3>2
    <2> QED BY <1>0, <1>1, <2>1, <2>2, <2>4, PopKeepsTimers, <1>u
  <1>6. CASE RunStop
    <2>1. /\ batch' = Tail(batch) /\ inbox' = inbox /\ Head(batch).op = "stop"
          /\ UNCHANGED <<calls, bound, heard, registry, tstat>>
      BY <1>6 DEF RunStop, Runs, Popped, client, timing
    <2>2. (f' => f) /\ (s' <=> s) /\ (w' <=> w)
      BY <1>2, <2>1 DEF Waiting
    <2>3. ASSUME u \in Timers PROVE TimerRight(u)'
      BY <1>3, <2>1, <2>2, <2>3, OtherTimer
    <2> QED BY <1>0, <1>1, <2>1, <2>3, PopKeepsTimers, <1>u
  <1>7. CASE RunStartInit
    <2>1. /\ UNCHANGED <<inbox, batch, calls, heard, registry>> /\ Head(batch).op = "start"
          /\ u \notin bound /\ bound' = bound \cup {u} /\ tstat' = [tstat EXCEPT ![u] = "init"]
      BY <1>7, <1>u DEF RunStartInit, Runs, queue, client
    <2>2. /\ u \in Timers => tstat'[u] = "init" /\ u \in bound'
          /\ \A t \in Timers \ {u} : tstat'[t] = tstat[t] /\ (t \in bound' <=> t \in bound)
      BY <2>1, TimersFacts DEF IInv, TypeOK
    <2>3. \A kind : Waiting(kind)' <=> Waiting(kind)
      BY <2>1 DEF Waiting
    <2>4. ASSUME u \in Timers PROVE TimerRight(u)'
      <3>1. s'
        BY <1>2, <2>1, <2>3 DEF Waiting
      <3>2. f' <=> f
        BY <2>3
      <3> HIDE DEF w, s, f
      <3> QED BY <1>3, <2>1, <2>2, <2>4, <3>1, <3>2 DEF TimerRight, w, s, f
    <2>5. ASSUME NEW t \in Timers, t # u PROVE TimerRight(t)'
      <3>1. TimerRight(t) /\ heard'[t] = heard[t] /\ tstat'[t] = tstat[t]
            /\ (t \in bound' <=> t \in bound) /\ (t \in registry' <=> t \in registry)
        BY <2>1, <2>2, <2>5 DEF TimersRight
      <3> QED BY <2>1, <2>3, <3>1, OtherTimer
    <2> QED BY <2>4, <2>5 DEF TimersRight
  <1>8. CASE RunStartWait
    <2> DEFINE q == IF tstat[u] = "init" THEN <<Job("wait", u)>> ELSE <<>>
    <2>1. /\ batch' = Tail(batch) /\ inbox' = inbox \o q /\ Head(batch).op = "start"
          /\ UNCHANGED <<calls, bound, heard, registry, tstat>> /\ u \in bound
      BY <1>8, <1>u DEF RunStartWait, IOPost, Runs, Popped, client, timing
    <2>2. /\ q \in Seq(Jobs) /\ \A kind : Some(q, kind) <=> tstat[u] = "init" /\ Job("wait", u) \in kind
      <3>1. Job("wait", u) \in Jobs
        BY <1>1, JobFacts
      <3> DEFINE p == <<Job("wait", u)>>
      <3>2. DOMAIN p = {1} /\ p[1] = Job("wait", u) /\ p \in Seq(Jobs)
        BY <3>1
      <3> HIDE DEF p
      <3>3. \A kind : Some(p, kind) <=> Job("wait", u) \in kind
        BY <3>2 DEF Some
      <3>4. (tstat[u] = "init" => q = p) /\ (tstat[u] # "init" => q = <<>>)
        BY DEF p
      <3> HIDE DEF q
      <3> QED BY <1>0, <3>2, <3>3, <3>4
    <2> HIDE DEF q
    <2>3. \A kind : Some(inbox', kind) <=> Some(inbox, kind) \/ Some(q, kind)
      BY <1>0, <2>1, <2>2, JobsPosted
    <2>4. (f' => f) /\ (tstat[u] = "init" => w')
      BY <1>2, <2>1, <2>2, <2>3, KindFacts DEF Waiting
    <2>5. ASSUME u \in Timers PROVE TimerRight(u)'
      BY <1>3, <2>1, <2>4, <2>5, OtherTimer
    <2>6. \A t \in Timers : ~Some(q, {Job("fini", t)})
      BY <2>2, KindFacts
    <2> QED BY <1>0, <1>1, <2>1, <2>2, <2>5, <2>6, PopKeepsTimers, <1>u
  <1> QED BY <1>4, <1>5, <1>6, <1>7, <1>8 DEF RunJob

LEMMA StepTimersRight ==
    ASSUME IInv, Ordered, TimersRight, [Next]_vars
    PROVE  TimersRight'
  <1>1. CASE AppStep \/ Gate \/ FinPost \/ Swap \/ RunJob
    BY <1>1, AppTimersRight, PostTimersRight, JobTimersRight
  <1>2. CASE EndDrain \/ Return \/ LoopHead \/ LoopEndPass \/ FirePost \/ FirePostEnd
             \/ EndRelease \/ EndDel \/ UNCHANGED vars
    <2>1. /\ UNCHANGED <<bound, registry, heard, inbox, batch, calls>>
          /\ \E v : tstat' = tstat \/ tstat' = [tstat EXCEPT ![PostTimer] = v]
      BY <1>2, Zenon DEF EndDrain, Return, LoopHead, LoopEndPass, FirePost, FirePostEnd, EndRelease,
                         EndDel, vars, queue, server, client, timing
    <2>2. \A t \in Timers : tstat'[t] = tstat[t]
      BY <2>1, TimersFacts DEF IInv, TypeOK
    <2> QED BY <2>1, <2>2, QueuesKeepTimers
  <1>3. ASSUME NEW u \in Timers, Fire(u) \/ FireThrows(u)
        PROVE  TimersRight'
    <2>1. /\ UNCHANGED <<bound, inbox, batch, calls>>
          /\ \A t \in Timers \ {u} : /\ heard'[t] = heard[t] /\ tstat'[t] = tstat[t]
                                     /\ (t \in registry' <=> t \in registry)
      BY <1>3, TimersFacts DEF Fire, FireThrows, Hears, queue, client, IInv, TypeOK
    <2>2. u \in registry /\ u \in bound /\ tstat[u] \in {"begin", "common", "end"}
      BY <1>3, TimersFacts DEF Fire, FireThrows, IInv, RegisteredFires, TimerLife
    <2>3. \/ heard'[u] = "end" /\ tstat'[u] = "null"
          \/ u \in registry' /\ tstat'[u] # "init"
      BY <1>3, <2>2, TimersFacts DEF Fire, FireThrows, Hears, IInv, TypeOK
    <2>4. \A kind : Waiting(kind)' <=> Waiting(kind)
      BY <2>1 DEF Waiting
    <2>5. TimerRight(u)'
      BY <2>1, <2>2, <2>3 DEF TimerRight, Ended
    <2>6. ASSUME NEW t \in Timers, t # u PROVE TimerRight(t)'
      <3>1. TimerRight(t) /\ heard'[t] = heard[t] /\ tstat'[t] = tstat[t]
            /\ (t \in bound' <=> t \in bound) /\ (t \in registry' <=> t \in registry)
        BY <2>1, <2>6 DEF TimersRight
      <3> QED BY <2>1, <2>4, <3>1, OtherTimer
    <2> QED BY <2>5, <2>6 DEF TimersRight
  <1> QED BY <1>1, <1>2, <1>3 DEF Next, IOStep

\* What is done stays done, and what was called early is settled by the stop.
LEMMA DoneStays ==
    ASSUME IInv, [Next]_vars, NEW t \in Timers, Done(t)
    PROVE  Done(t)'
  <1>1. t \in AllTimers /\ t # PostTimer /\ t \notin armed /\ t \in bound /\ t \notin registry
        /\ tstat[t] \in {"null", "end"} /\ t \in DOMAIN tstat /\ t \in DOMAIN heard
    BY TimersFacts DEF Done, IInv, RegisteredFires, TypeOK
  <1>2. calls.fini \subseteq calls'.fini
    <2>1. CASE UNCHANGED calls
      BY <2>1
    <2>2. CASE AppStop
      BY <2>2 DEF AppStop, IInv, TypeOK
    <2>3. ASSUME NEW u \in Timers, AppStartTimer(u) \/ AppFiniTimer(u)
          PROVE  calls.fini \subseteq calls'.fini
      <3>1. CASE AppStartTimer(u)
        BY <3>1 DEF AppStartTimer, IInv, TypeOK
      <3>2. CASE AppFiniTimer(u)
        BY <3>2 DEF AppFiniTimer, IInv, TypeOK
      <3> QED BY <2>3, <3>1, <3>2
    <2> QED BY <2>1, <2>2, <2>3 DEF Next, AppStep, IOStep, RunJob, AppInit, AppRun, AppFlag, AppRelease,
               AppReleaseUnjoined, Gate, FinPost, Swap, RunWait, RunFini, RunStop, RunStartInit, RunStartWait,
               EndDrain, Return, LoopHead, LoopEndPass, FirePost, FirePostEnd, EndRelease, EndDel, Fire,
               FireThrows, client, vars
  <1>3. heard'[t] = heard[t] /\ t \in bound' /\ t \notin registry' /\ tstat'[t] \in {"null", "end"}
    <2>1. CASE UNCHANGED <<heard, bound, registry, tstat>>
      BY <1>1, <2>1
    <2>2. CASE AppInit
      BY <1>1, <2>2 DEF AppInit
    <2>3. CASE RunWait
      BY <1>1, <2>3 DEF RunWait, timing
    <2>4. CASE RunFini
      BY <1>1, <2>4 DEF RunFini
    <2>5. CASE RunStartInit
      BY <1>1, <2>5 DEF RunStartInit
    <2>6. CASE Return
      BY <1>1, <2>6 DEF Return
    <2>7. CASE EndRelease
      BY <1>1, <2>7 DEF EndRelease
    <2>8. ASSUME NEW u \in Timers, Fire(u) \/ FireThrows(u)
          PROVE  heard'[t] = heard[t] /\ t \in bound' /\ t \notin registry' /\ tstat'[t] \in {"null", "end"}
      BY <1>1, <2>8 DEF Fire, FireThrows, Hears
    <2> QED BY <2>1, <2>2, <2>3, <2>4, <2>5, <2>6, <2>7, <2>8
            DEF Next, AppStep, IOStep, RunJob, AppRun, AppFlag, AppStop, AppRelease, AppReleaseUnjoined,
                AppStartTimer, AppFiniTimer, Gate, FinPost, Swap, RunStop, RunStartWait, EndDrain, LoopHead,
                LoopEndPass, FirePost, FirePostEnd, EndDel, timing, vars
  <1> QED BY <1>2, <1>3 DEF Done, Ended

LEMMA EarlyStays ==
    ASSUME IInv, [Next]_vars, calls.stop
    PROVE  calls'.stop /\ calls'.early = calls.early
  <1>1. CASE UNCHANGED calls
    BY <1>1
  <1>2. CASE AppStop
    BY <1>2 DEF AppStop
  <1>3. ASSUME NEW u \in Timers, AppStartTimer(u) \/ AppFiniTimer(u)
        PROVE  calls'.stop /\ calls'.early = calls.early
    BY <1>3 DEF AppStartTimer, AppFiniTimer, IInv, TypeOK
  <1> QED BY <1>1, <1>2, <1>3 DEF Next, AppStep, IOStep, RunJob, AppInit, AppRun, AppFlag, AppRelease,
             AppReleaseUnjoined, Gate, FinPost, Swap, RunWait, RunFini, RunStop, RunStartInit, RunStartWait,
             EndDrain, Return, LoopHead, LoopEndPass, FirePost, FirePostEnd, EndRelease, EndDel, Fire,
             FireThrows, client, vars

\* Nothing but a gate that finds nothing left to do begins the end.
LEMMA EndingStarts ==
    ASSUME IInv, [Next]_vars, Ending'
    PROVE  Ending \/ (Gate /\ ~Busy)
  <1> SUFFICES ASSUME ~Ending, ~(Gate /\ ~Busy) PROVE FALSE
    OBVIOUS
  <1>0. /\ NoPostFini(inbox) /\ NoPostFini(batch) /\ iopc # "finpost"
        /\ tstat[PostTimer] # "end" /\ (app # "created" => status # "null")
        /\ inbox \in Seq(Jobs) /\ batch \in Seq(Jobs)
        /\ <<>> \in Seq(Jobs) /\ NoPostFini(<<>>)
    BY NoJobs DEF Ending, IInv, TypeOK
  <1>1. ASSUME NEW op \in {"wait", "start", "fini", "stop"}, NEW t \in AllTimers,
               Job(op, t) # Job("fini", PostTimer)
        PROVE  NoPostFini(Append(inbox, Job(op, t)))
    BY <1>0, <1>1, JobFacts, OnePosted
  <1>2. NoPostFini(inbox')
    <2>1. CASE UNCHANGED inbox
      BY <1>0, <2>1
    <2>2. CASE AppInit
      BY <1>1, <2>2, JobFacts, TimersFacts DEF AppInit
    <2>3. CASE AppStop
      BY <1>1, <2>3, JobFacts, TimersFacts DEF AppStop, AppPush
    <2>4. ASSUME NEW u \in Timers, AppStartTimer(u) \/ AppFiniTimer(u) PROVE NoPostFini(inbox')
      <3>1. PICK op \in {"start", "fini"} : inbox' = Append(inbox, Job(op, u))
        BY <2>4 DEF AppStartTimer, AppFiniTimer, AppPush
      <3> QED BY <1>1, <3>1, JobFacts, TimersFacts
    <2>5. CASE Gate
      <3> DEFINE s == SetToSeq({Job("fini", t) : t \in registry})
      <3>1. s \in Seq(Jobs) /\ NoPostFini(s)
        BY FinisType DEF IInv, TypeOK
      <3>2. inbox' \in {inbox, inbox \o <<>>, inbox \o s}
        BY Zenon, <2>5 DEF Gate, IOPost
      <3> HIDE DEF s
      <3> QED BY <1>0, <3>1, <3>2, PostProperties
    <2>6. CASE Swap
      BY <1>0, <2>6 DEF Swap
    <2>7. CASE RunStartWait
      <3>1. Job("wait", Head(batch).on) \in Jobs /\ Job("wait", Head(batch).on) # Job("fini", PostTimer)
        BY <1>0, <2>7, JobFacts, PopProperties DEF RunStartWait, Runs
      <3>2. inbox' = inbox \o <<>> \/ inbox' = inbox \o <<Job("wait", Head(batch).on)>>
        BY <2>7 DEF RunStartWait, IOPost
      <3>3. Append(inbox, Job("wait", Head(batch).on)) = inbox \o <<Job("wait", Head(batch).on)>>
        BY <1>0, <3>1, AppendIsConcat
      <3> QED BY <1>0, <3>1, <3>2, <3>3, OnePosted, PostProperties
    <2>8. CASE FinPost
      BY <1>0, <2>8 DEF FinPost
    <2> QED BY <2>1, <2>2, <2>3, <2>4, <2>5, <2>6, <2>7, <2>8
            DEF Next, AppStep, IOStep, RunJob, AppRun, AppFlag, AppRelease, AppReleaseUnjoined, RunWait, RunFini,
                RunStop, RunStartInit, EndDrain, Return, LoopHead, LoopEndPass, FirePost, FirePostEnd,
                EndRelease, EndDel, Fire, FireThrows, queue, vars
  <1>3. NoPostFini(batch')
    <2>1. batch' \in {batch, inbox} \/ (batch # <<>> /\ batch' = Tail(batch))
      BY DEF Next, AppStep, IOStep, RunJob, AppInit, AppRun, AppFlag, AppStop, AppRelease, AppReleaseUnjoined,
             AppStartTimer, AppFiniTimer, AppPush, Gate, FinPost, Swap, RunWait, RunFini, RunStop, RunStartInit,
             RunStartWait, Runs, Popped, EndDrain, Return, LoopHead, LoopEndPass, FirePost, FirePostEnd,
             EndRelease, EndDel, Fire, FireThrows, queue, vars
    <2> QED BY <1>0, <2>1, PopProperties
  <1>4. tstat'[PostTimer] # "end"
    <2>1. CASE UNCHANGED tstat
      BY <1>0, <2>1
    <2>2. CASE AppInit \/ RunWait \/ RunStartInit \/ Return \/ EndRelease
      BY <1>0, <2>2, TimersFacts DEF AppInit, RunWait, RunStartInit, Return, EndRelease, timing, IInv, TypeOK
    <2>3. CASE RunFini
      <3>1. Head(batch).on # PostTimer
        BY <1>0, <2>3, PopProperties DEF RunFini, Runs
      <3> QED BY <1>0, <2>3, <3>1, TimersFacts DEF RunFini, IInv, TypeOK
    <2>4. ASSUME NEW u \in Timers, Fire(u) PROVE tstat'[PostTimer] # "end"
      BY <1>0, <2>4, TimersFacts DEF Fire, IInv, TypeOK
    <2> QED BY <2>1, <2>2, <2>3, <2>4
            DEF Next, AppStep, IOStep, RunJob, AppRun, AppFlag, AppStop, AppRelease, AppReleaseUnjoined,
                AppStartTimer, AppFiniTimer, Gate, FinPost, Swap, RunStop, RunStartWait, EndDrain, LoopHead,
                LoopEndPass, FirePost, FirePostEnd, EndDel, FireThrows, timing, vars
  <1>5. iopc' # "finpost" /\ (app' # "created" => status' # "null")
    BY <1>0 DEF Next, AppStep, IOStep, RunJob, AppInit, AppRun, AppFlag, AppStop, AppRelease, AppReleaseUnjoined,
           AppStartTimer, AppFiniTimer, Gate, FinPost, Swap, RunWait, RunFini, RunStop, RunStartInit,
           RunStartWait, EndDrain, Return, LoopHead, LoopEndPass, FirePost, FirePostEnd,
           EndRelease, EndDel, Fire, FireThrows, server, client, vars
  <1> QED BY <1>2, <1>3, <1>4, <1>5 DEF Ending

\* The gate that finds nothing left to do has seen everything.
LEMMA GateSeesAll ==
    ASSUME IInv, Ordered, TimersRight, Gate, ~Busy
    PROVE  calls.stop /\ \A t \in calls.early : t \in Timers /\ Done(t)
  <1>1. /\ ~binit /\ registry = {} /\ ~haspost /\ app # "created"
    BY DEF Gate, Busy, IInv, Progress
  <1>2. batch = <<>> /\ ~Some(inbox, Waits) /\ ~Waiting(Starts(calls.early)) /\ calls.stop
    BY <1>1 DEF Gate, Ordered
  <1>3. ASSUME NEW t \in calls.early PROVE t \in Timers /\ Done(t)
    <2>1. t \in Timers /\ TimerRight(t)
      BY DEF IInv, TypeOK, TimersRight
    <2>2. tstat[t] \in {"null", "init", "begin", "common", "end"}
      BY <2>1, TimersFacts DEF IInv, TypeOK
    <2>3. Job("wait", t) \in Waits /\ Job("start", t) \in Starts(calls.early)
      BY <2>1, TimersFacts, JobFacts, KindFacts
    <2>4. ~Waiting({Job("wait", t)}) /\ ~Waiting({Job("start", t)})
      BY <1>2, <2>3, NoJobs DEF Waiting, Some
    <2> QED BY <1>1, <2>1, <2>2, <2>4 DEF TimerRight, Done
  <1> QED BY <1>2, <1>3

LEMMA StepEarlyInv == IInv /\ EarlyInv /\ [Next]_vars => EarlyInv'
  <1> SUFFICES ASSUME IInv, EarlyInv, [Next]_vars PROVE EarlyInv'
    OBVIOUS
  <1>1. Ordered' /\ TimersRight'
    BY StepOrdered, StepTimersRight DEF EarlyInv
  <1>2. ASSUME Ending' PROVE calls'.stop /\ \A t \in calls'.early : Done(t)'
    <2>1. calls.stop /\ \A t \in calls.early : t \in Timers /\ Done(t)
      <3>1. CASE Ending
        BY <3>1 DEF EarlyInv, EndsLast, IInv, TypeOK
      <3>2. CASE Gate /\ ~Busy
        BY <3>2, GateSeesAll DEF EarlyInv
      <3> QED BY <1>2, <3>1, <3>2, EndingStarts
    <2> QED BY <2>1, EarlyStays, DoneStays
  <1> QED BY <1>1, <1>2 DEF EarlyInv, EndsLast

LEMMA InitEarlyInv == Init => EarlyInv
  <1> SUFFICES ASSUME Init PROVE EarlyInv
    OBVIOUS
  <1>1. /\ inbox = <<>> /\ batch = <<>> /\ calls = [start |-> {}, early |-> {}, fini |-> {}, stop |-> FALSE]
        /\ app = "created" /\ iopc = "unstarted" /\ registry = {} /\ bound = {}
        /\ tstat = [t \in AllTimers |-> "null"] /\ heard = [t \in Timers |-> "none"]
    BY DEF Init
  <1>2. calls.early = {} /\ calls.start = {}
    BY <1>1
  <1>3. \A kind : ~Some(inbox, kind) /\ ~Waiting(kind)
    BY <1>1, NoJobs DEF Waiting
  <1>4. \A E : StopLast(inbox, E) /\ StopLast(batch, E)
    BY <1>1, NoJobs
  <1>5. Ordered
    BY <1>1, <1>2, <1>3, <1>4 DEF Ordered, Waiting
  <1>6. TimersRight
    BY <1>1, <1>2, <1>3, TimersFacts DEF TimersRight, TimerRight
  <1>7. ~Ending
    BY <1>1, NoJobs, TimersFacts DEF Ending
  <1> QED BY <1>5, <1>6, <1>7 DEF EarlyInv, EndsLast

\* When the server has finished, no timer started before its Fini is left behind:
\* the gate ends the server only when nothing is registered and nothing waits to
\* be run, which it reads from m_haspostdata, and a start posted before the stop
\* is run before it.
THEOREM EarlyTimersEndedHolds == Spec => []EarlyTimersEnded
  <1>1. IInv /\ EarlyInv => EarlyTimersEnded
    <2> SUFFICES ASSUME IInv, EarlyInv, app # "created", status = "null", NEW t \in calls.early
                 PROVE  t \notin registry \cup armed /\ Ended(t)
      BY DEF EarlyTimersEnded, Ended
    <2>1. t \in Timers /\ Done(t)
      BY DEF EarlyInv, EndsLast, Ending, IInv, TypeOK
    <2> QED BY <2>1 DEF Done, IInv, RegisteredFires
  <1> QED BY <1>1, InitIInv, StepIInv, InitEarlyInv, StepEarlyInv, PTL DEF Spec

=============================================================================
