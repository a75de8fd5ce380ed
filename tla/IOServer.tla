------------------------------ MODULE IOServer ------------------------------
(***************************************************************************)
(* The life of one CIOServer (source/net/impl_ioserver.cpp), its post      *)
(* timer and the CTimers (source/net/impl_timer.cpp) registered with it,   *)
(* from Init to the return of Run and the last Release.                    *)
(*                                                                         *)
(* Two threads: the application thread, which initialises the server,      *)
(* starts and ends timers, calls Fini and at last releases the server; and *)
(* the IO thread inside CIOServer::Run.  The pair of post queues is the    *)
(* mailbox that PostQueue.tla implements when no job throws, split at the  *)
(* swap: inbox is being filled, batch is being drained.                    *)
(*                                                                         *)
(* A user's On_Timer may throw: the exception leaves timer_clock before    *)
(* the event is added again, and event_base_loop (external) before it has  *)
(* reset its running_loop.  Run catches it and calls event_base_loop again,*)
(* which takes the call for a reentrant one and returns without handling   *)
(* an event, now and ever after.                                           *)
(*                                                                         *)
(* Bounds: every user timer is started once and Fini'd once by the         *)
(* application (the server Fini's it again at every tick when it closes).  *)
(***************************************************************************)
EXTENDS Naturals, Sequences, FiniteSets, SequencesExt

CONSTANTS
    Timers,           \* the user's timers
    PostTimer,        \* m_posttimer
    Throwing          \* the timers whose callback may throw

AllTimers == Timers \cup {PostTimer}

ASSUME TimersAssumption == IsFiniteSet(Timers)
ASSUME PostTimerAssumption == PostTimer \notin Timers
ASSUME ThrowingAssumption == Throwing \subseteq Timers

VARIABLES
    status,           \* CIOServer::m_status: "null" or "common"
    binit,            \* CIOServer::m_binit
    inbox, batch,     \* the queue posters fill, and the queue being drained
    haspost,          \* m_haspostdata
    iopc,             \* where the IO thread is
    ctx,              \* why real_post(false) was called: "run", "begin" or "ok"
    tstat,            \* CTimer::m_status of every timer
    bound,            \* the timers whose m_io is set (never reset)
    armed,            \* the timers whose libevent event is pending
    registry,         \* m_timers
    refs,             \* the server's reference count
    app,              \* "created", "inited", "started", then "released" or "unjoined"
    inpost,           \* the application thread is between push and flag in Post
    calls,            \* what the application has called: timers started, Fini'd, server Fini
    heard,            \* history: the last On_Timer a user's callback got, per timer
    thrown            \* the timers whose callback has thrown

vars == <<status, binit, inbox, batch, haspost, iopc, ctx, tstat, bound, armed,
          registry, refs, app, inpost, calls, heard, thrown>>

queue == <<inbox, batch, haspost>>
server == <<status, binit, refs>>
client == <<app, inpost, calls>>
timing == <<tstat, bound, armed, registry, heard, thrown>>

Job(op, t) == [op |-> op, on |-> t]

Init ==
    /\ status = "null"
    /\ binit = FALSE
    /\ inbox = <<>>
    /\ batch = <<>>
    /\ haspost = FALSE
    /\ iopc = "unstarted"
    /\ ctx = "run"
    /\ tstat = [t \in AllTimers |-> "null"]
    /\ bound = {}
    /\ armed = {}
    /\ registry = {}
    /\ refs = 1
    /\ app = "created"
    /\ inpost = FALSE
    /\ calls = [start |-> {}, early |-> {}, fini |-> {}, stop |-> FALSE]
    /\ heard = [t \in Timers |-> "none"]
    /\ thrown = {}

-----------------------------------------------------------------------------
(* Post.  The application's Post is two steps, so that the IO thread may    *)
(* read m_haspostdata in between; what needs m_postmutex waits for it.      *)

AppPush(job) ==
    /\ ~inpost
    /\ inbox' = Append(inbox, job)
    /\ inpost' = TRUE
    /\ UNCHANGED <<batch, haspost>>

AppFlag ==
    /\ inpost
    /\ haspost' = TRUE
    /\ inpost' = FALSE
    /\ UNCHANGED <<inbox, batch, iopc, ctx, app, calls, server, timing>>

\* Post by the IO thread.
IOPost(jobs) ==
    /\ jobs # <<>> => ~inpost
    /\ inbox' = inbox \o jobs
    /\ haspost' = (haspost \/ jobs # <<>>)

-----------------------------------------------------------------------------
(* The application thread *)

\* Mutant: CTimer::Init does not retain its callback.
AppInitUnretained ==
    /\ app = "created"
    /\ app' = "inited"
    /\ tstat' = [tstat EXCEPT ![PostTimer] = "init"]
    /\ bound' = bound \cup {PostTimer}
    /\ inbox' = Append(inbox, Job("wait", PostTimer))
    /\ haspost' = TRUE
    /\ status' = "common"
    /\ binit' = TRUE
    /\ UNCHANGED <<refs, batch, iopc, ctx, armed, registry, inpost, calls, heard, thrown>>

\* CIOServer::Init: the post timer is created, its callback is the server
\* itself (Retain), and its real_wait is the first job.
AppInit ==
    /\ app = "created"
    /\ app' = "inited"
    /\ tstat' = [tstat EXCEPT ![PostTimer] = "init"]
    /\ bound' = bound \cup {PostTimer}
    /\ refs' = refs + 1
    /\ inbox' = Append(inbox, Job("wait", PostTimer))
    /\ haspost' = TRUE
    /\ status' = "common"
    /\ binit' = TRUE
    /\ UNCHANGED <<batch, iopc, ctx, armed, registry, inpost, calls, heard, thrown>>

\* The thread that runs CIOServer::Run is started; Run calls real_post(false).
AppRun ==
    /\ app = "inited"
    /\ app' = "started"
    /\ binit /\ status # "null"
    /\ iopc' = "gate"
    /\ ctx' = "run"
    /\ UNCHANGED <<inpost, calls, queue, server, timing>>

\* A client posts a job that will Init and Async_Wait its timer on the IO
\* thread, as CTcpSocketClient::postin_connect does.
AppStartTimer(t) ==
    /\ app \in {"inited", "started"}
    /\ t \notin calls.start
    /\ AppPush(Job("start", t))
    /\ calls' = [calls EXCEPT !.start = @ \cup {t},
                              !.early = IF calls.stop THEN @ ELSE @ \cup {t}]
    /\ UNCHANGED <<iopc, ctx, app, server, timing>>

\* CTimer::Fini, which any thread may call.
AppFiniTimer(t) ==
    /\ app \in {"inited", "started"}
    /\ t \notin calls.fini
    /\ tstat[t] # "null"
    /\ AppPush(Job("fini", t))
    /\ calls' = [calls EXCEPT !.fini = @ \cup {t}]
    /\ UNCHANGED <<iopc, ctx, app, server, timing>>

\* CIOServer::Fini.
AppStop ==
    /\ app \in {"inited", "started"}
    /\ ~calls.stop
    /\ binit /\ status # "null"
    /\ AppPush(Job("stop", PostTimer))
    /\ calls' = [calls EXCEPT !.stop = TRUE]
    /\ UNCHANGED <<iopc, ctx, app, server, timing>>

\* The owner's last Release, after CThreadIO::WaitForFinish has joined the thread.
AppRelease ==
    /\ app = "started"
    /\ ~inpost
    /\ calls.stop
    /\ iopc = "exited"
    /\ app' = "released"
    /\ refs' = refs - 1
    /\ UNCHANGED <<status, binit, iopc, ctx, inpost, calls, queue, timing>>

\* An owner that polls IsFinshed, as test/test.cpp does, releases before Run has
\* returned.
AppReleaseUnjoined ==
    /\ app = "started"
    /\ ~inpost
    /\ calls.stop
    /\ status = "null" /\ iopc # "exited"
    /\ app' = "unjoined"
    /\ refs' = refs - 1
    /\ UNCHANGED <<status, binit, iopc, ctx, inpost, calls, queue, timing>>

-----------------------------------------------------------------------------
(* The IO thread: real_post(false) *)

\* Mutant: registered timers do not keep the server running.
BusyWithoutTimers == binit \/ haspost

\* Lines 367-395: is anything left to do?  If the server is closing, every
\* registered timer is Fini'd (again).  m_haspostdata is read unlocked.
Busy == binit \/ registry # {} \/ haspost

\* Mutant: the registered timers are not Fini'd.
GateKeepsTimers ==
    /\ iopc = "gate"
    /\ iopc' = IF Busy THEN "swap" ELSE "finpost"
    /\ UNCHANGED <<inbox, haspost, batch, ctx, server, client, timing>>

Gate ==
    /\ iopc = "gate"
    /\ IF Busy
       THEN /\ IOPost(IF binit THEN <<>> ELSE SetToSeq({Job("fini", t) : t \in registry}))
            /\ iopc' = "swap"
       ELSE /\ iopc' = "finpost"
            /\ UNCHANGED <<inbox, haspost>>
    /\ UNCHANGED <<batch, ctx, server, client, timing>>

\* m_posttimer->Fini(), and real_post returns without draining.
FinPost ==
    /\ iopc = "finpost"
    /\ IOPost(IF tstat[PostTimer] = "null" THEN <<>> ELSE <<Job("fini", PostTimer)>>)
    /\ iopc' = "ret"
    /\ UNCHANGED <<batch, ctx, server, client, timing>>

Swap ==
    /\ iopc = "swap"
    /\ ~inpost
    /\ batch' = inbox
    /\ inbox' = <<>>
    /\ haspost' = FALSE
    /\ iopc' = "drain"
    /\ UNCHANGED <<ctx, server, client, timing>>

Runs(op) == iopc = "drain" /\ batch # <<>> /\ Head(batch).op = op
Popped == batch' = Tail(batch)

\* CTimer::real_wait: register and arm, unless the status has moved on.
RunWait ==
    /\ Runs("wait")
    /\ Popped
    /\ LET t == Head(batch).on IN
         IF tstat[t] # "init" THEN UNCHANGED timing
         ELSE /\ tstat' = [tstat EXCEPT ![t] = "begin"]
              /\ armed' = armed \cup {t}
              /\ registry' = registry \cup ({t} \ {PostTimer})
              /\ UNCHANGED <<bound, heard, thrown>>
    /\ UNCHANGED <<inbox, haspost, iopc, ctx, server, client>>

\* CTimer::real_fini.
RunFini ==
    /\ Runs("fini")
    /\ Popped
    /\ LET t == Head(batch).on IN
         tstat' = IF tstat[t] = "null" THEN tstat ELSE [tstat EXCEPT ![t] = "end"]
    /\ UNCHANGED <<inbox, haspost, iopc, ctx, bound, armed, registry, heard, thrown, server, client>>

\* CIOServer::real_fini.
RunStop ==
    /\ Runs("stop")
    /\ Popped
    /\ binit' = IF status = "null" THEN binit ELSE FALSE
    /\ UNCHANGED <<inbox, haspost, iopc, ctx, status, refs, client, timing>>

\* The client's job calls CTimer::Init ...
RunStartInit ==
    /\ Runs("start")
    /\ LET t == Head(batch).on IN
         /\ t \notin bound
         /\ tstat' = [tstat EXCEPT ![t] = "init"]
         /\ bound' = bound \cup {t}
    /\ UNCHANGED <<iopc, ctx, armed, registry, heard, thrown, queue, server, client>>

\* ... and then CTimer::Async_Wait, which posts real_wait.
RunStartWait ==
    /\ Runs("start")
    /\ LET t == Head(batch).on IN
         /\ t \in bound
         /\ IOPost(IF tstat[t] = "init" THEN <<Job("wait", t)>> ELSE <<>>)
    /\ Popped
    /\ UNCHANGED <<iopc, ctx, server, client, timing>>

EndDrain ==
    /\ iopc = "drain"
    /\ batch = <<>>
    /\ iopc' = "ret"
    /\ UNCHANGED <<ctx, queue, server, client, timing>>

\* Mutant: m_status = status_common whatever the callback did.
ReturnAlwaysCommon ==
    /\ iopc = "ret"
    /\ IF ctx = "run"
       THEN iopc' = "head" /\ UNCHANGED <<tstat, armed>>
       ELSE /\ iopc' = "pass"
            /\ armed' = armed \cup {PostTimer}
            /\ tstat' = [tstat EXCEPT ![PostTimer] = "common"]
    /\ UNCHANGED <<ctx, bound, registry, heard, thrown, queue, server, client>>

\* real_post returns to Run, or to the post timer's timer_clock, which sets
\* status_common after the timer_begin callback and arms the event again.
Return ==
    /\ iopc = "ret"
    /\ IF ctx = "run"
       THEN iopc' = "head" /\ UNCHANGED <<tstat, armed>>
       ELSE /\ iopc' = "pass"
            /\ armed' = armed \cup {PostTimer}
            /\ tstat' = IF ctx = "begin" THEN [tstat EXCEPT ![PostTimer] = "common"]
                                         ELSE tstat
    /\ UNCHANGED <<ctx, bound, registry, heard, thrown, queue, server, client>>

-----------------------------------------------------------------------------
(* The IO thread: the event loop and timer_clock *)

\* event_base::running_loop as Run's call finds it: set, when an exception has
\* left an earlier call.
running_loop == thrown # {}

\* while (m_status == status_common) event_base_loop(...), which returns at
\* once when it seems to be running.
LoopHead ==
    /\ iopc = "head"
    /\ iopc' = IF status # "common" THEN "exited"
               ELSE IF running_loop THEN "head" ELSE "pass"
    /\ UNCHANGED <<ctx, queue, server, client, timing>>

LoopEndPass ==
    /\ iopc = "pass"
    /\ iopc' = "head"
    /\ UNCHANGED <<ctx, queue, server, client, timing>>

\* The post timer's event, timer_begin or timer_ok: On_Timer calls real_post.
FirePost ==
    /\ iopc = "pass"
    /\ PostTimer \in armed
    /\ tstat[PostTimer] # "end"
    /\ armed' = armed \ {PostTimer}
    /\ ctx' = IF tstat[PostTimer] = "begin" THEN "begin" ELSE "ok"
    /\ iopc' = "gate"
    /\ UNCHANGED <<tstat, bound, registry, heard, thrown, queue, server, client>>

\* The post timer's event after its real_fini: On_Timer(timer_end) calls
\* real_post(true), which ends the loop.
FirePostEnd ==
    /\ iopc = "pass"
    /\ PostTimer \in armed
    /\ tstat[PostTimer] = "end"
    /\ armed' = armed \ {PostTimer}
    /\ status' = "null"
    /\ iopc' = "endrelease"
    /\ UNCHANGED <<binit, refs, ctx, tstat, bound, registry, heard, thrown, queue, client>>

\* timer_clock goes on: m_cb->Release(), where m_cb is the server ...
EndRelease ==
    /\ iopc = "endrelease"
    /\ tstat' = [tstat EXCEPT ![PostTimer] = "null"]
    /\ refs' = refs - 1
    /\ iopc' = "enddel"
    /\ UNCHANGED <<status, binit, ctx, bound, armed, registry, heard, thrown, queue, client>>

\* ... then m_io->Del_Event and m_io->Del_Timer, where m_io is the server too.
EndDel ==
    /\ iopc = "enddel"
    /\ iopc' = "pass"
    /\ UNCHANGED <<ctx, queue, server, client, timing>>

\* On_Timer with timer_begin, timer_end or timer_ok.
Hears(t) ==
    heard' = [heard EXCEPT ![t] = CASE tstat[t] = "begin" -> "begin"
                                    [] tstat[t] = "end"   -> "end"
                                    [] OTHER              -> "ok"]

\* Mutant: timer_end re-arms like the other callbacks.
FireRearms(t) ==
    /\ iopc = "pass"
    /\ t \in armed
    /\ Hears(t)
    /\ tstat' = [tstat EXCEPT ![t] = "common"]
    /\ UNCHANGED <<iopc, ctx, armed, registry, bound, thrown, queue, server, client>>

\* Mutant: timer_end forgets Del_Timer.
FireKeepsRegistered(t) ==
    /\ iopc = "pass"
    /\ t \in armed
    /\ Hears(t)
    /\ IF tstat[t] = "end"
       THEN /\ tstat' = [tstat EXCEPT ![t] = "null"]
            /\ armed' = armed \ {t}
       ELSE /\ tstat' = [tstat EXCEPT ![t] = "common"]
            /\ UNCHANGED armed
    /\ UNCHANGED <<iopc, ctx, bound, registry, thrown, queue, server, client>>

\* A user timer's event: timer_clock calls back and arms again, or after
\* timer_end unregisters the timer and drops the callback.
Fire(t) ==
    /\ iopc = "pass"
    /\ t \in armed
    /\ Hears(t)
    /\ IF tstat[t] = "end"
       THEN /\ tstat' = [tstat EXCEPT ![t] = "null"]
            /\ armed' = armed \ {t}
            /\ registry' = registry \ {t}
       ELSE /\ tstat' = [tstat EXCEPT ![t] = "common"]
            /\ UNCHANGED <<armed, registry>>
    /\ UNCHANGED <<iopc, ctx, bound, thrown, queue, server, client>>

\* The callback throws: nothing of timer_clock that comes after it is done, and
\* the catch of Run is reached.
FireThrows(t) ==
    /\ iopc = "pass"
    /\ t \in armed \cap Throwing
    /\ Hears(t)
    /\ armed' = armed \ {t}
    /\ thrown' = thrown \cup {t}
    /\ iopc' = "head"
    /\ UNCHANGED <<ctx, tstat, bound, registry, queue, server, client>>

-----------------------------------------------------------------------------
AppStep ==
    \/ AppInit \/ AppRun \/ AppFlag \/ AppStop \/ AppRelease \/ AppReleaseUnjoined
    \/ \E t \in Timers : AppStartTimer(t) \/ AppFiniTimer(t)

RunJob == RunWait \/ RunFini \/ RunStop \/ RunStartInit \/ RunStartWait

IOStep ==
    \/ Gate \/ FinPost \/ Swap \/ RunJob \/ EndDrain \/ Return
    \/ LoopHead \/ LoopEndPass \/ FirePost \/ FirePostEnd \/ EndRelease \/ EndDel
    \/ \E t \in Timers : Fire(t) \/ FireThrows(t)

Next == AppStep \/ IOStep

Spec == Init /\ [][Next]_vars

\* The IO thread keeps running; every pass of event_base_loop handles the
\* events that are due, and a pending timer falls due again and again, so an
\* armed event is not passed over for ever as long as the loop can be entered;
\* a thread inside Post leaves it;
\* the owner starts the IO thread.
Fairness ==
    /\ WF_vars(IOStep)
    /\ SF_vars(FirePost)
    /\ SF_vars(FirePostEnd)
    /\ \A t \in Timers : SF_vars(Fire(t) \/ FireThrows(t))
    /\ WF_vars(AppFlag)
    /\ WF_vars(AppInit)
    /\ WF_vars(AppRun)

FairSpec == Spec /\ Fairness

-----------------------------------------------------------------------------
(* Properties *)

Jobs == {Job(op, t) : op \in {"wait", "fini", "start", "stop"}, t \in AllTimers}

TypeOK ==
    /\ status \in {"null", "common"}
    /\ binit \in BOOLEAN
    /\ inbox \in Seq(Jobs)
    /\ batch \in Seq(Jobs)
    /\ haspost \in BOOLEAN
    /\ iopc \in {"unstarted", "gate", "finpost", "swap", "drain", "ret", "head",
                 "pass", "endrelease", "enddel", "exited"}
    /\ ctx \in {"run", "begin", "ok"}
    /\ tstat \in [AllTimers -> {"null", "init", "begin", "common", "end"}]
    /\ bound \subseteq AllTimers
    /\ armed \subseteq AllTimers
    /\ registry \subseteq Timers
    /\ refs \in 0..2
    /\ app \in {"created", "inited", "started", "released", "unjoined"}
    /\ inpost \in BOOLEAN
    /\ calls \in [start: SUBSET Timers, early: SUBSET Timers, fini: SUBSET Timers,
                  stop: BOOLEAN]
    /\ heard \in [Timers -> {"none", "begin", "ok", "end"}]
    /\ thrown \subseteq Throwing

\* The registry, which keeps the server running, never waits for a timer whose
\* event is gone: a registered timer has its event pending, and the other way
\* round.  Only a timer whose callback has thrown is left registered without.
RegisteredFires ==
    /\ thrown \subseteq registry
    /\ \A t \in Timers : t \in armed <=> t \in registry \ thrown

\* Everything has its type, and registry and pending events agree.
Inv == TypeOK /\ RegisteredFires

\* The IO thread never touches a server whose count has reached zero, from
\* the start of Run to its return, the tail of the post timer's timer_clock
\* included (impl_timer.cpp:159-172 releases the server and uses it again).
\* An owner that does not join the thread is excepted: its Release may come
\* before the IO thread's last uses.
ServerAlive ==
    (iopc \notin {"unstarted", "exited"} /\ app # "unjoined") => refs > 0

\* When the server has finished, every timer whose start was posted before
\* CIOServer::Fini was called has been through its life: it has heard
\* timer_end and is unregistered, or it was Fini'd before it was running and
\* was never armed.  Nothing the gate did not see can be left behind.
EarlyTimersEnded ==
    (app # "created" /\ status = "null") =>
        \A t \in calls.early :
            /\ t \notin registry \cup armed
            /\ heard[t] = "end" \/ (t \in calls.fini /\ heard[t] = "none")

\* A Fini is never undone: once real_fini has set status_end only timer_end
\* follows, also for the post timer, whose timer_clock overwrites m_status
\* after its first callback (impl_timer.cpp:133-135); and after timer_end there
\* is no further callback (timer.h:44).
FiniIsFinal ==
    [][/\ \A t \in AllTimers : tstat[t] = "end" => tstat'[t] \in {"end", "null"}
       /\ \A t \in Timers : heard[t] = "end" => heard'[t] = "end"]_vars

\* After CIOServer::Fini the loop ends and Run returns, whatever timers run,
\* unless a callback has thrown: then, and only then, it never does.
StopFinishes ==
    /\ calls.stop ~> (iopc = "exited" \/ thrown # {})
    /\ [](thrown # {} => iopc # "exited")

\* A timer that has called back and is Fini'd hears timer_end, unless the
\* server was told to finish before the timer was started.  One callback that
\* throws is enough to except all timers: the event loop never runs again.
FiniedTimerEnds ==
    \A t \in Timers :
        (t \in calls.fini /\ t \in calls.early /\ heard[t] # "none")
            ~> (heard[t] = "end" \/ thrown # {})

=============================================================================
