----------------------------- MODULE NetServer -----------------------------
(***************************************************************************)
(* The connections CNetIO accepts (net-qyfh/qyfhnet.h): a CTcpSocketServer *)
(* (net-qyfh/socketserver.h) each, with its accepter (CTcpSocket) and its  *)
(* heartbeat timer (CTimer), over three threads: the listener's IO thread, *)
(* which accepts; the server's IO thread, which owns the socket; and the   *)
(* main thread, which owns the map of servers.  Each IO thread is a FIFO   *)
(* mailbox (Mailbox.tla, implemented by PostQueue) and its events.         *)
(*                                                                         *)
(* CTcpSocket and CTimer are reduced to what their own modules show of     *)
(* them: one descriptor and one registration per socket, callbacks in      *)
(* order, a FIFO of jobs; the count kept here is the server's.  Heartbeats *)
(* only carry ids to the main thread, so a timer matters for its start and *)
(* its end.  Send cannot be instantiated (async_send names undeclared      *)
(* variables) and Stop is in IOServer.                                     *)
(*                                                                         *)
(* Bounds: every connection is accepted once, its peer sends Messages[c]   *)
(* messages, and the user closes it at most once.                          *)
(***************************************************************************)
EXTENDS Naturals, Sequences, FiniteSets

CONSTANTS
    Conns,            \* the connections, named as their server and socket
    Messages          \* how many messages the peer of a connection sends

ASSUME MessagesAssumption == Messages \in [Conns -> Nat]

VARIABLES
    accepting,        \* how far the listener's thread is with a connection
    jobs,             \* the mailbox of the server's thread: [op, on] records
    main,             \* the mailbox of the main thread
    sstat,            \* CTcpSocket::m_status
    binit,            \* CTcpSocket::m_binit
    acb,              \* the sockets that hold their server as m_acb
    recv,             \* the buffer in m_wait_recv: "none", "head", "body" or "empty"
    busing, status,   \* CTcpSocketServer::m_busing, m_status
    known,            \* the servers whose m_socket is set
    tstat,            \* CTimer::m_status: "null", "init", "on" or "end"
    armed,            \* the timers whose event is pending
    refs,             \* the server's reference count
    filed,            \* who has the creation reference: see FiledOK
    sent,             \* how many messages have arrived
    told,             \* history: the last event the main thread has handled
    refused,          \* history: turned down by m_can_accept_cb
    overtaken,        \* history: real_fini ran before on_inter_accept_accept
    closed            \* history: the user has called CNetIO::Close

socket == <<sstat, binit, acb, recv>>
server == <<busing, status, known>>
timer == <<tstat, armed>>
history == <<refused, overtaken, closed>>
vars == <<accepting, jobs, main, socket, server, timer, refs, filed, sent,
          told, history>>

Init ==
    /\ accepting = [c \in Conns |-> "no"]
    /\ jobs = <<>>
    /\ main = <<>>
    /\ sstat = [c \in Conns |-> "null"]
    /\ binit = [c \in Conns |-> FALSE]
    /\ acb = {}
    /\ recv = [c \in Conns |-> "none"]
    /\ busing = {}
    /\ status = [c \in Conns |-> "closed"]
    /\ known = {}
    /\ tstat = [c \in Conns |-> "null"]
    /\ armed = {}
    /\ refs = [c \in Conns |-> 0]
    /\ filed = [c \in Conns |-> "none"]
    /\ sent = [c \in Conns |-> 0]
    /\ told = [c \in Conns |-> "none"]
    /\ refused = {}
    /\ overtaken = {}
    /\ closed = {}

Job(op, c) == [op |-> op, on |-> c]
One(b) == IF b THEN 1 ELSE 0
If(b, s) == IF b THEN s ELSE <<>>

-----------------------------------------------------------------------------
(* The listener's thread, in on_inter_listen_accept *)

\* on_listen_accept creates the server; BeConnected makes it the callback of
\* the new socket and posts postin_beconnected, each with a reference.
Accept(c) ==
    /\ accepting[c] = "no"
    /\ \A d \in Conns : accepting[d] \in {"no", "done"}
    /\ accepting' = [accepting EXCEPT ![c] = "tell"]
    /\ filed' = [filed EXCEPT ![c] = "creator"]
    /\ binit' = [binit EXCEPT ![c] = TRUE]
    /\ acb' = acb \cup {c}
    /\ refs' = [refs EXCEPT ![c] = 3]
    /\ jobs' = Append(jobs, Job("beconnected", c))
    /\ UNCHANGED <<main, sstat, recv, server, timer, sent, told, history>>

\* ... then mainio_listener_accept is posted to the main thread ...
TellMain(c) ==
    /\ accepting[c] = "tell"
    /\ accepting' = [accepting EXCEPT ![c] = "pass"]
    /\ main' = Append(main, Job("accept", c))
    /\ UNCHANGED <<jobs, socket, server, timer, refs, filed, sent, told, history>>

\* ... then the listener's thread asks whether m_type still is type_accepter;
\* real_fini, on the server's thread, may have set it to null ...
FindsAccepter(c) ==
    /\ accepting[c] = "pass"
    /\ binit[c]
    /\ accepting' = [accepting EXCEPT ![c] = "post"]
    /\ UNCHANGED <<jobs, main, socket, server, timer, refs, filed, sent, told, history>>

\* ... in which case the descriptor is closed and nothing is posted ...
TurnsAway(c) ==
    /\ accepting[c] = "pass"
    /\ ~binit[c]
    /\ accepting' = [accepting EXCEPT ![c] = "done"]
    /\ UNCHANGED <<jobs, main, socket, server, timer, refs, filed, sent, told, history>>

\* ... and at last on_inter_accept_accept is posted to the server's thread.
Pass(c) ==
    /\ accepting[c] = "post"
    /\ accepting' = [accepting EXCEPT ![c] = "done"]
    /\ jobs' = Append(jobs, Job("accept", c))
    /\ UNCHANGED <<main, socket, server, timer, refs, filed, sent, told, history>>

-----------------------------------------------------------------------------
(* The main thread.  Close tests m_busing here and posts postin_close.      *)

CloseJobs(c) == If(c \in busing, <<Job("close", c)>>)

MainRuns(op, c) == main # <<>> /\ Head(main) = Job(op, c)
MainPopped == main' = Tail(main)
Tells(c, e) == told' = [told EXCEPT ![c] = e]

\* mainio_listener_accept: m_can_accept_cb says no.  Close and Release.
MainRefuses(c) ==
    /\ MainRuns("accept", c)
    /\ jobs' = jobs \o CloseJobs(c)
    /\ refs' = [refs EXCEPT ![c] = @ - 1 + One(c \in busing)]
    /\ filed' = [filed EXCEPT ![c] = "dropped"]
    /\ refused' = refused \cup {c}
    /\ Tells(c, "accept")
    /\ MainPopped
    /\ UNCHANGED <<accepting, socket, server, timer, sent, overtaken, closed>>

\* m_can_accept_cb says yes: insert(GetSocketID(), server).  The id is 0 while
\* postin_beconnected has not run, and insert keeps what a key already has.
MainAdmits(c) ==
    /\ MainRuns("accept", c)
    /\ filed' = [filed EXCEPT ![c] =
                   IF c \in known THEN "id"
                   ELSE IF \E d \in Conns : filed[d] = "zero" THEN "lost" ELSE "zero"]
    /\ Tells(c, "accept")
    /\ MainPopped
    /\ UNCHANGED <<accepting, jobs, socket, server, timer, refs, sent, history>>

\* mainio_server_on_status(true) and mainio_server_on_message, which releases
\* the buffer.
MainHears(c) ==
    /\ \/ MainRuns("up", c) /\ Tells(c, "up")
       \/ MainRuns("msg", c) /\ Tells(c, "msg")
    /\ MainPopped
    /\ UNCHANGED <<accepting, jobs, socket, server, timer, refs, filed, sent,
                   history>>

\* Mutant: a closed server is erased and not released.
MainEndsUnreleased(c) ==
    /\ MainRuns("down", c)
    /\ IF filed[c] = "id"
       THEN /\ jobs' = jobs \o CloseJobs(c)
            /\ refs' = [refs EXCEPT ![c] = @ + One(c \in busing)]
            /\ filed' = [filed EXCEPT ![c] = "dropped"]
       ELSE UNCHANGED <<jobs, refs, filed>>
    /\ Tells(c, "down")
    /\ MainPopped
    /\ UNCHANGED <<accepting, socket, server, timer, sent, history>>

\* mainio_server_on_status(false): the server filed under the socket's id is
\* closed, released and erased.
MainEnds(c) ==
    /\ MainRuns("down", c)
    /\ IF filed[c] = "id"
       THEN /\ jobs' = jobs \o CloseJobs(c)
            /\ refs' = [refs EXCEPT ![c] = @ - 1 + One(c \in busing)]
            /\ filed' = [filed EXCEPT ![c] = "dropped"]
       ELSE UNCHANGED <<jobs, refs, filed>>
    /\ Tells(c, "down")
    /\ MainPopped
    /\ UNCHANGED <<accepting, socket, server, timer, sent, history>>

\* Mutant: Close also releases and erases, as it does for clients.
UserCloseErases(c) ==
    /\ told[c] \in {"up", "msg"}
    /\ c \notin closed
    /\ closed' = closed \cup {c}
    /\ IF filed[c] = "id"
       THEN /\ jobs' = jobs \o CloseJobs(c)
            /\ refs' = [refs EXCEPT ![c] = @ - 1 + One(c \in busing)]
            /\ filed' = [filed EXCEPT ![c] = "dropped"]
       ELSE UNCHANGED <<jobs, refs, filed>>
    /\ UNCHANGED <<accepting, main, socket, server, timer, sent, told, refused, overtaken>>

\* CNetIO::Close, with the id the status callback has told the user.
UserClose(c) ==
    /\ told[c] \in {"up", "msg"}
    /\ c \notin closed
    /\ closed' = closed \cup {c}
    /\ IF filed[c] = "id"
       THEN /\ jobs' = jobs \o CloseJobs(c)
            /\ refs' = [refs EXCEPT ![c] = @ + One(c \in busing)]
       ELSE UNCHANGED <<jobs, refs>>
    /\ UNCHANGED <<accepting, main, socket, server, timer, filed, sent, told, refused, overtaken>>

-----------------------------------------------------------------------------
(* The server's thread: jobs *)

Runs(op, c) == jobs # <<>> /\ Head(jobs) = Job(op, c)

\* ITcpSocket::Fini and ITimer::Fini.
SocketFini(c) == If(binit[c], <<Job("sfini", c)>>)
TimerFini(c) == If(tstat[c] # "null", <<Job("tfini", c)>>)

\* on_inter_close and On_Close: the buffers are given back, the main thread is
\* told, and the server Fini's its socket and its timer.
CloseLink(c, fini) ==
    /\ sstat' = [sstat EXCEPT ![c] = "null"]
    /\ recv' = [recv EXCEPT ![c] = "none"]
    /\ IF c \in acb
       THEN /\ status' = [status EXCEPT ![c] = "closed"]
            /\ main' = Append(main, Job("down", c))
            /\ jobs' = fini \o TimerFini(c)
       ELSE jobs' = fini /\ UNCHANGED <<status, main>>
    /\ UNCHANGED <<busing, known>>

\* postin_beconnected; it runs once, on a new server.  Init retains the server
\* for the timer, the job releases it.
BeConnected(c) ==
    /\ Runs("beconnected", c)
    /\ known' = known \cup {c}
    /\ tstat' = [tstat EXCEPT ![c] = "init"]
    /\ busing' = busing \cup {c}
    /\ status' = [status EXCEPT ![c] = "establishing"]
    /\ jobs' = Append(Tail(jobs), Job("twait", c))
    /\ UNCHANGED <<accepting, main, socket, armed, refs, filed, sent, told, history>>

\* on_inter_accept_accept.
AcceptAccept(c) ==
    /\ Runs("accept", c)
    /\ sstat' = [sstat EXCEPT ![c] = "connect"]
    /\ jobs' = Tail(jobs)
    /\ overtaken' = IF binit[c] THEN overtaken ELSE overtaken \cup {c}
    /\ UNCHANGED <<accepting, main, binit, acb, recv, server, timer, refs, filed,
                   sent, told, refused, closed>>

\* Mutant: the job's reference is kept when there is nothing to close.
PostinCloseKeeps(c) ==
    /\ Runs("close", c)
    /\ busing' = busing \ {c}
    /\ jobs' = Tail(jobs) \o SocketFini(c) \o TimerFini(c)
    /\ refs' = [refs EXCEPT ![c] = @ - One(binit[c])]
    /\ UNCHANGED <<accepting, main, socket, status, known, timer, filed, sent, told,
                   history>>

\* postin_close.
PostinClose(c) ==
    /\ Runs("close", c)
    /\ busing' = busing \ {c}
    /\ jobs' = Tail(jobs) \o SocketFini(c) \o TimerFini(c)
    /\ refs' = [refs EXCEPT ![c] = @ - 1]
    /\ UNCHANGED <<accepting, main, socket, status, known, timer, filed, sent, told,
                   history>>

\* Mutant: on_inter_close is not guarded by m_status.
RealFiniUnguarded(c) ==
    /\ Runs("sfini", c) /\ binit[c]
    /\ CloseLink(c, Tail(jobs))
    /\ binit' = [binit EXCEPT ![c] = FALSE]
    /\ acb' = acb \ {c}
    /\ refs' = [refs EXCEPT ![c] = @ - 1]
    /\ UNCHANGED <<accepting, timer, filed, sent, told, history>>

\* Mutant: a socket that is still connecting is not closed.
RealFiniCommonOnly(c) ==
    /\ Runs("sfini", c) /\ binit[c]
    /\ IF sstat[c] # "common"
       THEN jobs' = Tail(jobs) /\ UNCHANGED <<sstat, recv, server, main>>
       ELSE CloseLink(c, Tail(jobs))
    /\ binit' = [binit EXCEPT ![c] = FALSE]
    /\ acb' = acb \ {c}
    /\ refs' = [refs EXCEPT ![c] = @ - 1]
    /\ UNCHANGED <<accepting, timer, filed, sent, told, history>>

\* CTcpSocket::real_fini: m_binit is false already when On_Close calls Fini.
RealFini(c) ==
    /\ Runs("sfini", c) /\ binit[c]
    /\ IF sstat[c] = "null"
       THEN jobs' = Tail(jobs) /\ UNCHANGED <<sstat, recv, server, main>>
       ELSE CloseLink(c, Tail(jobs))
    /\ binit' = [binit EXCEPT ![c] = FALSE]
    /\ acb' = acb \ {c}
    /\ refs' = [refs EXCEPT ![c] = @ - 1]
    /\ UNCHANGED <<accepting, timer, filed, sent, told, history>>

RealFiniAgain(c) ==
    /\ Runs("sfini", c) /\ ~binit[c]
    /\ jobs' = Tail(jobs)
    /\ UNCHANGED <<accepting, main, socket, server, timer, refs, filed, sent, told,
                   history>>

\* CTimer::real_wait.
TimerWait(c) ==
    /\ Runs("twait", c)
    /\ IF tstat[c] = "init"
       THEN tstat' = [tstat EXCEPT ![c] = "on"] /\ armed' = armed \cup {c}
       ELSE UNCHANGED timer
    /\ jobs' = Tail(jobs)
    /\ UNCHANGED <<accepting, main, socket, server, refs, filed, sent, told, history>>

\* CTimer::real_fini.
TimerRealFini(c) ==
    /\ Runs("tfini", c)
    /\ tstat' = IF tstat[c] = "null" THEN tstat ELSE [tstat EXCEPT ![c] = "end"]
    /\ jobs' = Tail(jobs)
    /\ UNCHANGED <<accepting, main, socket, server, armed, refs, filed, sent, told,
                   history>>

-----------------------------------------------------------------------------
(* The server's thread: events *)

IsOK(c) == c \in busing /\ status[c] = "established"

\* timer_clock after real_fini: the timer lets go of the server.
TimerEnds(c) ==
    /\ c \in armed
    /\ tstat[c] = "end"
    /\ tstat' = [tstat EXCEPT ![c] = "null"]
    /\ armed' = armed \ {c}
    /\ refs' = [refs EXCEPT ![c] = @ - 1]
    /\ UNCHANGED <<accepting, jobs, main, socket, server, filed, sent, told, history>>

\* on_inter_send of the accepted socket: On_Connect(tcp_ok) tells the main
\* thread and asks for the first head.
Connected(c) ==
    /\ sstat[c] = "connect"
    /\ sstat' = [sstat EXCEPT ![c] = "common"]
    /\ IF c \in acb
       THEN /\ status' = [status EXCEPT ![c] = "established"]
            /\ main' = Append(main, Job("up", c))
            /\ recv' = IF c \in busing THEN [recv EXCEPT ![c] = "head"] ELSE recv
       ELSE UNCHANGED <<status, main, recv>>
    /\ UNCHANGED <<accepting, jobs, binit, acb, busing, known, timer, refs, filed, sent,
                   told, history>>

\* on_inter_send of a socket that is not writable for sf_connect_timeout.
ConnectTimeout(c) ==
    /\ sstat[c] = "connect"
    /\ CloseLink(c, jobs \o If(c \in acb, SocketFini(c)))
    /\ UNCHANGED <<accepting, binit, acb, timer, refs, filed, sent, told, history>>

\* On_Recv of a whole head: a buffer of msglen() bytes is queued, which may
\* be none.
RecvHead(c) ==
    /\ recv[c] = "head"
    /\ sent[c] < Messages[c]
    /\ \E body \in {"body", "empty"} :
         recv' = [recv EXCEPT ![c] = IF IsOK(c) THEN body ELSE "none"]
    /\ UNCHANGED <<accepting, jobs, main, sstat, binit, acb, server, timer, refs,
                   filed, sent, told, history>>

\* On_Recv of a whole body: the main thread gets it, with a reference.
RecvBody(c) ==
    /\ recv[c] = "body"
    /\ main' = Append(main, Job("msg", c))
    /\ sent' = [sent EXCEPT ![c] = @ + 1]
    /\ recv' = [recv EXCEPT ![c] = IF IsOK(c) THEN "head" ELSE "none"]
    /\ UNCHANGED <<accepting, jobs, sstat, binit, acb, server, timer, refs, filed,
                   told, history>>

\* on_inter_recv closes: the peer (external) has closed or reset the connection,
\* or the body has no byte to read.
RecvCloses(c) ==
    /\ recv[c] # "none"
    /\ CloseLink(c, jobs \o SocketFini(c))
    /\ UNCHANGED <<accepting, binit, acb, timer, refs, filed, sent, told, history>>

-----------------------------------------------------------------------------
ListenerLeaves(c) == TellMain(c) \/ FindsAccepter(c) \/ TurnsAway(c) \/ Pass(c)
ListenerStep(c) == Accept(c) \/ ListenerLeaves(c)

MainStep(c) == MainRefuses(c) \/ MainAdmits(c) \/ MainHears(c) \/ MainEnds(c)

ServerJob(c) ==
    \/ BeConnected(c) \/ AcceptAccept(c) \/ PostinClose(c)
    \/ RealFini(c) \/ RealFiniAgain(c) \/ TimerWait(c) \/ TimerRealFini(c)

ServerEvent(c) ==
    \/ TimerEnds(c) \/ Connected(c) \/ ConnectTimeout(c)
    \/ RecvHead(c) \/ RecvBody(c) \/ RecvCloses(c)

Next ==
    \E c \in Conns :
        ListenerStep(c) \/ MainStep(c) \/ UserClose(c)
            \/ ServerJob(c) \/ ServerEvent(c)

Spec == Init /\ [][Next]_vars

\* Every thread drains its mailbox, the listener's thread leaves its handler,
\* an armed timer expires, and an accepted socket becomes writable or times
\* out.  Peers and users owe nothing.
Fairness ==
    /\ WF_vars(\E c \in Conns : ListenerLeaves(c))
    /\ WF_vars(\E c \in Conns : MainStep(c))
    /\ WF_vars(\E c \in Conns : ServerJob(c))
    /\ \A c \in Conns : WF_vars(TimerEnds(c)) /\ WF_vars(Connected(c) \/ ConnectTimeout(c))

FairSpec == Spec /\ Fairness

-----------------------------------------------------------------------------
(* Properties *)

TypeOK ==
    /\ accepting \in [Conns -> {"no", "tell", "pass", "post", "done"}]
    /\ jobs \in Seq([op : {"beconnected", "accept", "close", "sfini", "twait", "tfini"},
                     on : Conns])
    /\ main \in Seq([op : {"accept", "up", "msg", "down"}, on : Conns])
    /\ sstat \in [Conns -> {"null", "connect", "common"}]
    /\ binit \in [Conns -> BOOLEAN]
    /\ acb \subseteq Conns
    /\ recv \in [Conns -> {"none", "head", "body", "empty"}]
    /\ busing \subseteq Conns /\ known \subseteq Conns
    /\ status \in [Conns -> {"closed", "establishing", "established"}]
    /\ tstat \in [Conns -> {"null", "init", "on", "end"}]
    /\ armed \subseteq Conns
    /\ refs \in [Conns -> Nat]
    \* The creation reference is with the listener's thread or the mailbox of
    \* main, in m_servers under the id or under 0, leaked, or released.
    /\ filed \in [Conns -> {"none", "creator", "id", "zero", "lost", "dropped"}]
    /\ sent \in [Conns -> Nat] /\ \A c \in Conns : sent[c] <= Messages[c]
    /\ told \in [Conns -> {"none", "accept", "up", "msg", "down"}]
    /\ refused \subseteq Conns /\ overtaken \subseteq Conns /\ closed \subseteq Conns

\* A server is counted once for whoever has its creation reference, for its
\* socket, for its timer and for every job of its own: it is destroyed exactly
\* when the three threads have all let go of it.
RefsBalanced ==
    \A c \in Conns :
        refs[c] = One(filed[c] \notin {"none", "dropped"}) + One(c \in acb)
                  + One(tstat[c] # "null")
                  + Cardinality({i \in DOMAIN jobs :
                                   jobs[i] \in {Job("beconnected", c), Job("close", c)}})

\* Everything has its type, and every server is destroyed when its last user lets go.
Inv == TypeOK /\ RefsBalanced

\* What has happened to a connection as the main thread sees it: at 0 the last
\* event it has handled, then those that wait, by their place in its mailbox.
Places(c) == {0} \cup {i \in DOMAIN main : main[i].on = c}
EventAt(c, i) == IF i = 0 THEN told[c] ELSE main[i].op

IsNext(c, i, k) == i < k /\ \A j \in Places(c) : j <= i \/ k <= j
IsLast(c, i) == \A j \in Places(c) : j <= i

Follows == {<<"none", "accept">>, <<"accept", "up">>, <<"accept", "down">>, <<"up", "msg">>,
            <<"msg", "msg">>, <<"up", "down">>, <<"msg", "down">>}

\* The main thread hears of every connection in order, although two threads
\* post to it: accepted, connected, messages, closed once, and nothing
\* afterwards; and what it will have heard is what the server's thread knows.
EventsInOrder ==
    \A c \in Conns :
        /\ \A i, k \in Places(c) :
             IsNext(c, i, k) => <<EventAt(c, i), EventAt(c, k)>> \in Follows
        /\ \E i \in Places(c) :
             IsLast(c, i) /\ (status[c] = "established" <=> EventAt(c, i) \in {"up", "msg"})

\* The buffer of a message is destroyed through the server that made it
\* (socketserver.h:294-305): the server is there as long as a message of its
\* waits for the main thread or is being received.  Only a refused connection,
\* which main releases without waiting for its end, is excepted.
OwnerOutlivesMessages ==
    \A c \in Conns \ refused :
        (recv[c] # "none" \/ \E i \in DOMAIN main : main[i] = Job("msg", c))
            => refs[c] > 0

\* A socket that is registered has a server, which is its callback, and can be
\* closed.  The exception is a connection refused while the listener's thread is
\* passing it on: real_fini that runs before the thread looks at m_type turns it
\* away, but between that look and on_inter_accept_accept it is opened all the
\* same, and nobody can close it any more.
ServedHasOwner ==
    /\ overtaken \subseteq refused
    /\ \A c \in Conns \ overtaken :
         sstat[c] # "null" => binit[c] /\ c \in acb /\ refs[c] > 0

\* Whoever can still reach a server, its messages or its socket, finds it alive.
OwnerIsThere == OwnerOutlivesMessages /\ ServedHasOwner

\* A connection that main has let in and that has ended, or that the user has
\* closed, is forgotten: main hears of its end, the map no longer has it and the
\* server is destroyed.  Excepted are those that were filed under 0, because
\* main was told of them before postin_beconnected had run.
EndedIsForgotten ==
    \A c \in Conns :
        (told[c] \in {"up", "msg"} /\ (sstat[c] = "null" \/ (c \in closed /\ filed[c] = "id")))
            ~> (told[c] = "down" /\ (refs[c] = 0 \/ filed[c] \in {"zero", "lost"}))

=============================================================================
