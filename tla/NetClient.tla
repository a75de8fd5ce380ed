----------------------------- MODULE NetClient -----------------------------
(***************************************************************************)
(* A connection CNetIO makes (net-qyfh/qyfhnet.h): a CTcpSocketClient      *)
(* (net-qyfh/socketclient.h) with its connecter (CTcpSocket), its          *)
(* reconnect timer and its heartbeat timer (CTimer), over two threads: the *)
(* client's IO thread and the main thread, which holds it in m_clients.    *)
(* CNetIO::Stop closes the IO thread's server, which then Fini's whatever  *)
(* is registered at every tick.                                            *)
(*                                                                         *)
(* As in NetServer, CTcpSocket and CTimer are reduced to what their own    *)
(* modules show of them, heartbeats and Send are left out, and the count   *)
(* kept here is the client's.  CNetIO makes a client for one Connect.      *)
(*                                                                         *)
(* Bounds: no data arrives while the main thread has MaxMain posts to      *)
(* handle, and the reconnect timer, which expires every ten seconds, does  *)
(* not expire before both threads have handled what was posted to them     *)
(* (libevent runs the 1 ms post timer first when both are due).            *)
(***************************************************************************)
EXTENDS Naturals, Sequences, FiniteSets

CONSTANT MaxMain

ASSUME MaxMainAssumption == MaxMain \in Nat

Timers == {"reconnect", "timeout"}

VARIABLES
    jobs,             \* the mailbox of the IO thread
    main,             \* the mailbox of the main thread: "up", "msg" or "down"
    io,               \* the IO thread's server: "running", "closing" or "over"
    sstat,            \* CTcpSocket::m_status; the socket is in m_tcpsockets unless "null"
    binit,            \* CTcpSocket::m_binit
    ccb,              \* the socket holds the client as m_ccb
    recv,             \* the buffer in m_wait_recv: "none", "head", "body" or "empty"
    busing, status,   \* CTcpSocketClient::m_busing, m_status
    tstat,            \* CTimer::m_status of both timers
    armed,            \* the timers that are registered and have their event pending
    refs,             \* the client's reference count
    held,             \* CNetIO has the client in m_clients, and its creation reference
    told,             \* history: the last event the main thread has handled
    ignored           \* history: Close came before postin_connect had run

socket == <<sstat, binit, ccb, recv>>
client == <<busing, status>>
timers == <<tstat, armed>>
owner == <<refs, held>>
vars == <<jobs, main, io, socket, client, timers, owner, told, ignored>>

\* CNetIO::Connect has made the client and posted postin_connect.
Init ==
    /\ jobs = <<"connect">>
    /\ main = <<>>
    /\ io = "running"
    /\ sstat = "null"
    /\ binit = FALSE
    /\ ccb = FALSE
    /\ recv = "none"
    /\ busing = FALSE
    /\ status = "closed"
    /\ tstat = [t \in Timers |-> "null"]
    /\ armed = {}
    /\ refs = 2
    /\ held = TRUE
    /\ told = "none"
    /\ ignored = FALSE

One(b) == IF b THEN 1 ELSE 0
If(b, s) == IF b THEN s ELSE <<>>

FiniOf(t) == IF t = "reconnect" THEN "rfini" ELSE "tfini"
WaitOf(t) == IF t = "reconnect" THEN "rwait" ELSE "twait"
SocketFini == If(binit, <<"sfini">>)
TimerFini(t) == If(tstat[t] # "null", <<FiniOf(t)>>)

-----------------------------------------------------------------------------
(* The main thread *)

\* mainio_client_on_status, mainio_client_on_message.
MainHears ==
    /\ main # <<>>
    /\ told' = Head(main)
    /\ main' = Tail(main)
    /\ UNCHANGED <<jobs, io, socket, client, timers, owner, ignored>>

\* Mutant: the client is not released when it has nothing to close.
UserCloseKeeps ==
    /\ held
    /\ held' = FALSE
    /\ jobs' = jobs \o If(busing, <<"close">>)
    /\ refs' = refs
    /\ ignored' = ~busing
    /\ UNCHANGED <<main, io, socket, client, timers, told>>

\* CNetIO::Close: CTcpSocketClient::Close, which posts postin_close if the
\* client is busy, then Release and erase.
UserClose ==
    /\ held
    /\ held' = FALSE
    /\ jobs' = jobs \o If(busing, <<"close">>)
    /\ refs' = refs - 1 + One(busing)
    /\ ignored' = ~busing
    /\ UNCHANGED <<main, io, socket, client, timers, told>>

\* CNetIO::Stop, carried out by CIOServer::real_fini.
Stop ==
    /\ io = "running"
    /\ io' = "closing"
    /\ UNCHANGED <<jobs, main, socket, client, timers, owner, told, ignored>>

\* The gate of real_post finds nothing registered and nothing posted: Run ends,
\* and what is posted later is never run.
Finish ==
    /\ io = "closing"
    /\ sstat = "null" /\ armed = {} /\ jobs = <<>>
    /\ io' = "over"
    /\ UNCHANGED <<jobs, main, socket, client, timers, owner, told, ignored>>

\* Every tick of a closing server; one that finds the Fini of the last one
\* still waiting adds nothing new.
Waiting(op) == \E i \in DOMAIN jobs : jobs[i] = op

Sweep ==
    /\ io = "closing"
    /\ LET again == If(sstat # "null" /\ binit /\ ~Waiting("sfini"), <<"sfini">>)
                    \o If("reconnect" \in armed /\ ~Waiting("rfini"), <<"rfini">>)
                    \o If("timeout" \in armed /\ ~Waiting("tfini"), <<"tfini">>)
       IN  again # <<>> /\ jobs' = jobs \o again
    /\ UNCHANGED <<main, io, socket, client, timers, owner, told, ignored>>

-----------------------------------------------------------------------------
(* The IO thread: jobs *)

Runs(op) == io # "over" /\ jobs # <<>> /\ Head(jobs) = op

\* Mutant: On_Close does not reset m_status.
CloseLinkStillBusy ==
    /\ sstat' = "null"
    /\ recv' = "none"
    /\ main' = IF ccb THEN Append(main, "down") ELSE main
    /\ UNCHANGED client

\* on_inter_close and On_Close.
CloseLink ==
    /\ sstat' = "null"
    /\ recv' = "none"
    /\ IF ccb THEN status' = "closed" /\ main' = Append(main, "down")
              ELSE UNCHANGED <<status, main>>
    /\ UNCHANGED busing

\* postin_connect when the host has no address.
ConnectNoHost ==
    /\ Runs("connect")
    /\ refs' = refs - 1
    /\ jobs' = Tail(jobs)
    /\ UNCHANGED <<main, io, socket, client, timers, held, told, ignored>>

\* postin_connect, on a new client: the socket and both timers are initialised
\* (one reference each) and started; the job's reference is released.
Connect ==
    /\ Runs("connect")
    /\ binit' = TRUE
    /\ ccb' = TRUE
    /\ tstat' = [t \in Timers |-> "init"]
    /\ busing' = TRUE
    /\ status' = "connecting"
    /\ refs' = refs + 2
    /\ jobs' = Tail(jobs) \o <<"open", "rwait", "twait">>
    /\ UNCHANGED <<main, io, sstat, recv, armed, held, told, ignored>>

\* CTcpSocket::real_connect: ignored after real_fini, fails at once, or starts.
OpenFinied ==
    /\ Runs("open") /\ ~binit
    /\ jobs' = Tail(jobs)
    /\ UNCHANGED <<main, io, socket, client, timers, owner, told, ignored>>

OpenFails ==
    /\ Runs("open") /\ binit
    /\ CloseLink
    /\ jobs' = Tail(jobs)
    /\ UNCHANGED <<io, binit, ccb, timers, owner, told, ignored>>

OpenStarts ==
    /\ Runs("open") /\ binit
    /\ sstat' = "connect"
    /\ jobs' = Tail(jobs)
    /\ UNCHANGED <<main, io, binit, ccb, recv, client, timers, owner, told, ignored>>

\* Mutant: the reconnect timer is not ended.
PostinCloseKeepsTrying ==
    /\ Runs("close")
    /\ busing' = FALSE
    /\ refs' = refs - 1
    /\ jobs' = Tail(jobs) \o SocketFini \o TimerFini("timeout")
    /\ UNCHANGED <<main, io, socket, status, timers, held, told, ignored>>

\* postin_close.
PostinClose ==
    /\ Runs("close")
    /\ busing' = FALSE
    /\ refs' = refs - 1
    /\ jobs' = Tail(jobs) \o SocketFini \o TimerFini("timeout") \o TimerFini("reconnect")
    /\ UNCHANGED <<main, io, socket, status, timers, held, told, ignored>>

\* Mutant: a socket that is still connecting is not closed.
RealFiniCommonOnly ==
    /\ Runs("sfini") /\ binit
    /\ IF sstat # "common" THEN UNCHANGED <<sstat, recv, client, main>>
                           ELSE CloseLink
    /\ binit' = FALSE
    /\ ccb' = FALSE
    /\ refs' = refs - 1
    /\ jobs' = Tail(jobs)
    /\ UNCHANGED <<io, timers, held, told, ignored>>

\* CTcpSocket::real_fini.
RealFini ==
    /\ Runs("sfini") /\ binit
    /\ IF sstat = "null" THEN UNCHANGED <<sstat, recv, client, main>>
                         ELSE CloseLink
    /\ binit' = FALSE
    /\ ccb' = FALSE
    /\ refs' = refs - 1
    /\ jobs' = Tail(jobs)
    /\ UNCHANGED <<io, timers, held, told, ignored>>

RealFiniAgain ==
    /\ Runs("sfini") /\ ~binit
    /\ jobs' = Tail(jobs)
    /\ UNCHANGED <<main, io, socket, client, timers, owner, told, ignored>>

\* CTimer::real_wait.
TimerWait(t) ==
    /\ Runs(WaitOf(t))
    /\ IF tstat[t] = "init"
       THEN tstat' = [tstat EXCEPT ![t] = "on"] /\ armed' = armed \cup {t}
       ELSE UNCHANGED timers
    /\ jobs' = Tail(jobs)
    /\ UNCHANGED <<main, io, socket, client, owner, told, ignored>>

\* CTimer::real_fini.
TimerRealFini(t) ==
    /\ Runs(FiniOf(t))
    /\ tstat' = IF tstat[t] = "null" THEN tstat ELSE [tstat EXCEPT ![t] = "end"]
    /\ jobs' = Tail(jobs)
    /\ UNCHANGED <<main, io, socket, client, armed, owner, told, ignored>>

-----------------------------------------------------------------------------
(* The IO thread: events *)

IsOK == busing /\ status = "connected"

\* reconnect(): CTcpSocket::Connect posts real_connect.  A host whose name does
\* not resolve this time is tried again at the next expiry.
Reconnects == busing /\ status = "closed" /\ sstat = "null" /\ binit

Reconnect ==
    /\ "reconnect" \in armed /\ tstat["reconnect"] # "end"
    /\ io # "over" /\ jobs = <<>> /\ main = <<>>
    /\ Reconnects
    /\ jobs' = <<"open">>
    /\ UNCHANGED <<main, io, socket, client, timers, owner, told, ignored>>

\* timer_clock after real_fini: On_Timer does not look at its errid, so the last
\* expiry of the reconnect timer reconnects too; then the client is released.
TimerEnds(t) ==
    /\ t \in armed /\ tstat[t] = "end"
    /\ \E resolved \in BOOLEAN :
         jobs' = jobs \o If(t = "reconnect" /\ Reconnects /\ resolved, <<"open">>)
    /\ tstat' = [tstat EXCEPT ![t] = "null"]
    /\ armed' = armed \ {t}
    /\ refs' = refs - 1
    /\ UNCHANGED <<main, io, socket, client, held, told, ignored>>

\* Mutant: the main thread is told only if the client is still busy.
ConnectedIfBusy ==
    /\ sstat = "connect"
    /\ sstat' = "common"
    /\ IF ccb
       THEN /\ status' = "connected"
            /\ main' = IF busing THEN Append(main, "up") ELSE main
            /\ recv' = IF busing THEN "head" ELSE recv
       ELSE UNCHANGED <<status, main, recv>>
    /\ UNCHANGED <<jobs, io, binit, ccb, busing, timers, owner, told, ignored>>

\* on_inter_send of the connecting socket: On_Connect(tcp_ok).
Connected ==
    /\ sstat = "connect"
    /\ sstat' = "common"
    /\ IF ccb
       THEN /\ status' = "connected"
            /\ main' = Append(main, "up")
            /\ recv' = IF busing THEN "head" ELSE recv
       ELSE UNCHANGED <<status, main, recv>>
    /\ UNCHANGED <<jobs, io, binit, ccb, busing, timers, owner, told, ignored>>

\* on_inter_send: the connect has timed out.
ConnectTimeout ==
    /\ sstat = "connect"
    /\ CloseLink
    /\ UNCHANGED <<jobs, io, binit, ccb, timers, owner, told, ignored>>

\* On_Recv of a whole head.
RecvHead ==
    /\ recv = "head"
    /\ \E body \in {"body", "empty"} : recv' = IF IsOK THEN body ELSE "none"
    /\ UNCHANGED <<jobs, main, io, sstat, binit, ccb, client, timers,
                   owner, told, ignored>>

\* On_Recv of a whole body.
RecvBody ==
    /\ recv = "body"
    /\ Len(main) < MaxMain
    /\ main' = Append(main, "msg")
    /\ recv' = IF IsOK THEN "head" ELSE "none"
    /\ UNCHANGED <<jobs, io, sstat, binit, ccb, client, timers, owner,
                   told, ignored>>

\* on_inter_recv closes: the peer (external) is gone, or the body is empty.
RecvCloses ==
    /\ recv # "none"
    /\ CloseLink
    /\ UNCHANGED <<jobs, io, binit, ccb, timers, owner, told, ignored>>

-----------------------------------------------------------------------------
RunJob ==
    \/ ConnectNoHost \/ Connect \/ OpenFinied \/ OpenFails \/ OpenStarts
    \/ PostinClose \/ RealFini \/ RealFiniAgain
    \/ \E t \in Timers : TimerWait(t) \/ TimerRealFini(t)

Event ==
    \/ Reconnect \/ Connected \/ ConnectTimeout \/ RecvHead \/ RecvBody \/ RecvCloses
    \/ \E t \in Timers : TimerEnds(t)

Next == MainHears \/ UserClose \/ Stop \/ Sweep \/ Finish \/ RunJob \/ Event

Spec == Init /\ [][Next]_vars

\* Both threads drain their mailboxes, a closing server sweeps at every tick,
\* armed timers expire, a host resolves in the end, and a connecting socket
\* becomes writable or times out.  Peers and users owe nothing.
Fairness ==
    /\ WF_vars(MainHears)
    /\ WF_vars(RunJob)
    /\ WF_vars(Sweep)
    /\ WF_vars(Finish)
    /\ SF_vars(Reconnect)
    /\ \A t \in Timers : WF_vars(TimerEnds(t))
    /\ WF_vars(Connected \/ ConnectTimeout)

FairSpec == Spec /\ Fairness

-----------------------------------------------------------------------------
(* Properties *)

TypeOK ==
    /\ jobs \in Seq({"connect", "open", "close", "sfini", "rwait", "twait", "rfini", "tfini"})
    /\ main \in Seq({"up", "msg", "down"})
    /\ io \in {"running", "closing", "over"}
    /\ sstat \in {"null", "connect", "common"}
    /\ binit \in BOOLEAN /\ ccb \in BOOLEAN
    /\ recv \in {"none", "head", "body", "empty"}
    /\ busing \in BOOLEAN
    /\ status \in {"closed", "connecting", "connected"}
    /\ tstat \in [Timers -> {"null", "init", "on", "end"}]
    /\ armed \subseteq Timers
    /\ refs \in Nat
    /\ held \in BOOLEAN
    /\ told \in {"none", "up", "msg", "down"}
    /\ ignored \in BOOLEAN

\* A client is counted once for CNetIO, for its socket, for each timer and for
\* every job of its own.
RefsBalanced ==
    refs = One(held) + One(ccb) + Cardinality({t \in Timers : tstat[t] # "null"})
           + Cardinality({i \in DOMAIN jobs : jobs[i] \in {"connect", "close"}})

\* Everything has its type, and the client is destroyed exactly when CNetIO,
\* its socket, its timers and its jobs have let go of it.
Inv == TypeOK /\ RefsBalanced

\* What the main thread has heard and will hear of the connection.
Story == <<told>> \o main

Follows == {<<"none", "up">>, <<"none", "down">>, <<"down", "down">>, <<"down", "up">>,
            <<"up", "msg">>, <<"msg", "msg">>, <<"up", "down">>, <<"msg", "down">>}

\* Over any number of connections, the main thread hears of each one that it is
\* up, then of its messages, then that it is down, and of a failed attempt that
\* it is down; and what it will have heard is what the IO thread knows.
EventsInOrder ==
    /\ \A i \in 1..(Len(Story) - 1) : <<Story[i], Story[i + 1]>> \in Follows
    /\ status = "connected" <=> Story[Len(Story)] \in {"up", "msg"}

\* A message lives as long as the client through which its buffer is destroyed
\* (socketclient.h:299-303).
OwnerOutlivesMessages ==
    (recv # "none" \/ \E i \in DOMAIN main : main[i] = "msg") => refs > 0

\* A client that the user closes ends: its socket, its timers and the client
\* itself.  The exceptions are a Close that came before postin_connect had run
\* (m_busing was still false, nothing was closed, and the client lives on) and
\* one that the IO thread was over before it could run.
ClosedEnds ==
    (~held /\ ~ignored) ~> (io = "over" \/ (refs = 0 /\ sstat = "null" /\ armed = {}))

\* A client that has not been closed gets over every failure: whenever it has
\* no connection it makes another attempt.
KeepsTrying ==
    (busing /\ sstat = "null")
        ~> (sstat # "null" \/ Waiting("open") \/ ~busing \/ io # "running")

\* No client keeps its closing server running, although its last expiry may
\* reconnect while it is being ended: the IO thread finishes.
StopEnds == io = "closing" ~> io = "over"

=============================================================================
