------------------------------ MODULE MsTimer ------------------------------
(***************************************************************************)
(* One CMsTimer (net-qyfh/mstimer.h) with the CTimer it makes              *)
(* (source/net/impl_timer.cpp), shared by several users: who holds which   *)
(* of the two objects, from the constructor to the end of both.            *)
(*                                                                         *)
(* The two hold each other: the CMsTimer has created the timer, the timer  *)
(* retains the CMsTimer as its callback from Init until it has called      *)
(* On_Timer(timer_end).  Start is called on the IO thread, as timer.h      *)
(* demands of Async_Wait; Stop and Release on any thread.                  *)
(*                                                                         *)
(* The server is here its mailbox and the phases of its end, which         *)
(* IOServer.tla has in detail: "open", "closing" while registered timers   *)
(* are Fini'd, "ending" once nothing was registered, "gone".               *)
(*                                                                         *)
(* Bound: Calls, how often Start and Stop are called in all.               *)
(***************************************************************************)
EXTENDS Naturals, Sequences, FiniteSets, SequencesExt

CONSTANTS
    Users,            \* those who hold the CMsTimer
    Calls             \* how many calls of Start and Stop there are

ASSUME UsersAssumption == IsFiniteSet(Users) /\ Users # {}
ASSUME CallsAssumption == Calls \in Nat

VARIABLES
    holders,          \* the users who have not yet released the CMsTimer
    mrefs,            \* the count of the CMsTimer, destroyed at 0
    trefs,            \* the count of the CTimer, destroyed at 0
    tstat,            \* CTimer::m_status
    hasio,            \* CTimer::m_io is set (never reset)
    hascb,            \* CTimer::m_cb is set
    queue,            \* what is posted to the IO thread and not yet run
    starting,         \* the IO thread is in Start, between Init and Async_Wait
    stopping,         \* the users in Fini, between the test of m_status and Post
    armed,            \* the event of the timer is pending
    registered,       \* the timer is in CIOServer::m_timers
    ending,           \* timer_clock has called On_Timer(timer_end) and goes on
    phase,            \* how far the server is
    calls,            \* the calls of Start and Stop so far
    finied,           \* history: real_fini has run with effect
    heard             \* history: the last On_Timer

vars == <<holders, mrefs, trefs, tstat, hasio, hascb, queue, starting, stopping,
          armed, registered, ending, phase, calls, finied, heard>>

counts == <<mrefs, trefs>>
timer == <<tstat, hasio, hascb>>
event == <<armed, registered, ending, heard>>

\* The constructor, and a reference for every user.
Init ==
    /\ holders = Users
    /\ mrefs = Cardinality(Users)
    /\ trefs = 1
    /\ tstat = "null"
    /\ hasio = FALSE
    /\ hascb = FALSE
    /\ queue = <<>>
    /\ starting = FALSE
    /\ stopping = {}
    /\ armed = FALSE
    /\ registered = FALSE
    /\ ending = FALSE
    /\ phase = "open"
    /\ calls = 0
    /\ finied = FALSE
    /\ heard = "none"

Alive == mrefs > 0

-----------------------------------------------------------------------------
(* The users *)

CanCall ==
    /\ calls < Calls
    /\ calls' = calls + 1

\* The IO thread is between two jobs or events.
Idle == ~starting /\ ~ending /\ phase # "gone"

\* Mutant: CTimer::Init does not retain its callback.
StartInitUnretained(u) ==
    /\ u \in holders /\ Idle /\ CanCall
    /\ starting' = TRUE
    /\ IF hasio \/ hascb \/ tstat # "null" THEN UNCHANGED timer
       ELSE tstat' = "init" /\ hasio' = TRUE /\ hascb' = TRUE
    /\ UNCHANGED <<counts, holders, queue, stopping, event, phase, finied>>

\* Start: CTimer::Init, whose result Start does not look at ...
StartInit(u) ==
    /\ u \in holders /\ Idle /\ CanCall
    /\ starting' = TRUE
    /\ IF hasio \/ hascb \/ tstat # "null"
       THEN UNCHANGED <<mrefs, timer>>
       ELSE tstat' = "init" /\ hasio' = TRUE /\ hascb' = TRUE /\ mrefs' = mrefs + 1
    /\ UNCHANGED <<trefs, holders, queue, stopping, event, phase, finied>>

\* ... and CTimer::Async_Wait.
StartWait ==
    /\ starting
    /\ starting' = FALSE
    /\ IF tstat = "init"
       THEN trefs' = trefs + 1 /\ queue' = Append(queue, "wait")
       ELSE UNCHANGED <<trefs, queue>>
    /\ UNCHANGED <<mrefs, holders, timer, stopping, event, phase, calls, finied>>

\* Stop: CTimer::Fini finds a timer that is not in status_null ...
StopTest(u) ==
    /\ u \in holders \ stopping /\ CanCall
    /\ tstat # "null" /\ hasio
    /\ stopping' = stopping \cup {u}
    /\ UNCHANGED <<counts, holders, timer, queue, starting, event, phase, finied>>

\* ... and posts real_fini, however the status has changed since.
StopPost(u) ==
    /\ u \in stopping
    /\ stopping' = stopping \ {u}
    /\ trefs' = trefs + 1
    /\ queue' = Append(queue, "fini")
    /\ UNCHANGED <<mrefs, holders, timer, starting, event, phase, calls, finied>>

\* Release, by a user who calls nothing afterwards; the last one destroys the
\* CMsTimer, which releases the timer.
UserRelease(u) ==
    /\ u \in holders \ stopping
    /\ ~starting
    /\ holders' = holders \ {u}
    /\ mrefs' = mrefs - 1
    /\ trefs' = IF mrefs = 1 THEN trefs - 1 ELSE trefs
    /\ UNCHANGED <<timer, queue, starting, stopping, event, phase, calls, finied>>

-----------------------------------------------------------------------------
(* The IO thread *)

Runs(job) ==
    /\ Idle
    /\ queue # <<>> /\ Head(queue) = job
    /\ queue' = Tail(queue)

\* Mutant: real_wait arms whatever real_fini has done before.
RunWaitAnyway ==
    /\ Runs("wait")
    /\ tstat' = "begin" /\ armed' = TRUE /\ registered' = TRUE
    /\ UNCHANGED <<counts, holders, hasio, hascb, starting, stopping, ending, heard,
                   phase, calls, finied>>

\* CTimer::real_wait: CIOServer::Add_Timer retains the timer, the guard releases
\* it; unless real_fini was faster, and then only the guard does.
RunWait ==
    /\ Runs("wait")
    /\ IF tstat = "init"
       THEN /\ tstat' = "begin" /\ armed' = TRUE /\ registered' = TRUE
            /\ trefs' = (trefs + 1) - 1
       ELSE /\ trefs' = trefs - 1
            /\ UNCHANGED <<tstat, armed, registered>>
    /\ UNCHANGED <<mrefs, holders, hasio, hascb, starting, stopping, ending, heard,
                   phase, calls, finied>>

\* CTimer::real_fini.
RunFini ==
    /\ Runs("fini")
    /\ trefs' = trefs - 1
    /\ IF tstat = "null" THEN UNCHANGED <<tstat, finied>>
       ELSE tstat' = "end" /\ finied' = TRUE
    /\ UNCHANGED <<mrefs, holders, hasio, hascb, starting, stopping, event, phase, calls>>

\* timer_clock with timer_begin and timer_ok.
Tick ==
    /\ Idle /\ armed
    /\ tstat \in {"begin", "common"}
    /\ heard' = IF tstat = "begin" THEN "begin" ELSE "ok"
    /\ tstat' = "common"
    /\ UNCHANGED <<counts, holders, hasio, hascb, queue, starting, stopping, armed,
                   registered, ending, phase, calls, finied>>

\* timer_clock with timer_end: the callback ...
EndCallback ==
    /\ Idle /\ armed
    /\ tstat = "end"
    /\ heard' = "end"
    /\ armed' = FALSE
    /\ ending' = TRUE
    /\ UNCHANGED <<counts, holders, timer, queue, starting, stopping, registered,
                   phase, calls, finied>>

\* Mutant: the callback is not released and not forgotten.
EndTimerKeepsCallback ==
    /\ ending
    /\ ending' = FALSE
    /\ tstat' = "null" /\ registered' = FALSE
    /\ trefs' = trefs - 1
    /\ UNCHANGED <<mrefs, holders, hasio, hascb, queue, starting, stopping, armed,
                   heard, phase, calls, finied>>

\* ... then m_cb->Release(), which may destroy the CMsTimer and with it the
\* creator's reference to the timer that is running, and Del_Timer, which
\* releases the reference of the registry.
EndTimer ==
    /\ ending
    /\ ending' = FALSE
    /\ tstat' = "null" /\ hascb' = FALSE /\ registered' = FALSE
    /\ mrefs' = mrefs - 1
    /\ trefs' = (IF mrefs = 1 THEN trefs - 1 ELSE trefs) - 1
    /\ UNCHANGED <<holders, hasio, queue, starting, stopping, armed, heard, phase,
                   calls, finied>>

-----------------------------------------------------------------------------
(* The server: the gate of real_post, see IOServer.tla *)

Closes ==
    /\ Idle
    /\ phase = "open"
    /\ phase' = "closing"
    /\ UNCHANGED <<counts, holders, timer, queue, starting, stopping, event, calls, finied>>

\* Every tick of a server that closes calls Fini for what is registered.  What
\* is posted there is drained before the next tick.
Sweep ==
    /\ Idle
    /\ phase = "closing" /\ registered
    /\ ~Contains(queue, "fini")
    /\ tstat # "null"
    /\ trefs' = trefs + 1
    /\ queue' = Append(queue, "fini")
    /\ UNCHANGED <<mrefs, holders, timer, starting, stopping, event, phase, calls, finied>>

\* Nothing registered and nothing posted: the post timer is Fini'd ...
Finishes ==
    /\ Idle
    /\ phase = "closing" /\ ~registered /\ queue = <<>>
    /\ phase' = "ending"
    /\ UNCHANGED <<counts, holders, timer, queue, starting, stopping, event, calls, finied>>

\* ... and ends the loop soon after, whatever has been posted since.
Goes ==
    /\ Idle
    /\ phase = "ending"
    /\ phase' = "gone"
    /\ UNCHANGED <<counts, holders, timer, queue, starting, stopping, event, calls, finied>>

-----------------------------------------------------------------------------
IOStep ==
    \/ StartWait \/ RunWait \/ RunFini \/ Tick \/ EndCallback \/ EndTimer
    \/ Sweep \/ Finishes \/ Goes

UserStep == \E u \in Users : StartInit(u) \/ StopTest(u) \/ StopPost(u) \/ UserRelease(u)

Next == IOStep \/ UserStep \/ Closes

Spec == Init /\ [][Next]_vars

\* The IO thread runs on; a pending event is not passed over for ever and
\* neither are the jobs, which every tick of the server drains; a thread inside
\* Fini leaves it.
Fairness ==
    /\ WF_vars(StartWait) /\ WF_vars(EndTimer)
    /\ SF_vars(RunWait) /\ SF_vars(RunFini) /\ SF_vars(EndCallback)
    /\ SF_vars(Sweep) /\ SF_vars(Finishes) /\ SF_vars(Goes)
    /\ \A u \in Users : WF_vars(StopPost(u))

FairSpec == Spec /\ Fairness

-----------------------------------------------------------------------------
(* Properties *)

One(condition) == IF condition THEN 1 ELSE 0

TypeOK ==
    /\ holders \subseteq Users
    /\ mrefs \in Nat /\ trefs \in Nat
    /\ tstat \in {"null", "init", "begin", "common", "end"}
    /\ hasio \in BOOLEAN /\ hascb \in BOOLEAN
    /\ queue \in Seq({"wait", "fini"})
    /\ starting \in BOOLEAN
    /\ stopping \subseteq holders
    /\ armed \in BOOLEAN /\ registered \in BOOLEAN /\ ending \in BOOLEAN
    /\ phase \in {"open", "closing", "ending", "gone"}
    /\ calls \in 0..Calls
    /\ finied \in BOOLEAN
    /\ heard \in {"none", "begin", "ok", "end"}

\* The counts are exactly what holds the two objects: users and the timer's
\* m_cb the CMsTimer; the CMsTimer, the jobs and the registry the timer.
RefsBalanced ==
    /\ mrefs = Cardinality(holders) + One(hascb)
    /\ trefs = One(Alive) + Len(queue) + One(registered)

\* An event that can come finds the timer, registered, and its callback alive,
\* and so does the rest of timer_clock after On_Timer(timer_end).
CallbackAlive == armed \/ ending => hascb /\ registered

\* Types, counts and the life of the callback.
Inv == TypeOK /\ RefsBalanced /\ CallbackAlive

\* One life: after timer_end, or after a Fini that came before the timer ran,
\* no Start, however often it is called, and no job that is still queued makes
\* the timer tick again.
OneLife ==
    [][heard = "end" \/ (tstat = "end" /\ ~armed) => ~armed']_vars

\* A timer that runs and is stopped, or whose server closes, lets go of its
\* callback, so that (RefsBalanced) both objects are destroyed once the users
\* and jobs have let go; unless it was started behind the back of a server that
\* had already found nothing left to wait for.
StoppedLetsGo ==
    (registered /\ phase \in {"open", "closing"} /\ (finied \/ phase = "closing"))
        ~> ~hascb

=============================================================================
