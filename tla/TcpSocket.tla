----------------------------- MODULE TcpSocket -----------------------------
(***************************************************************************)
(* CTcpSocket (source/net/impl_tcpsocket.cpp): listeners, connecters and   *)
(* the accepters a listener creates, on one CIOServer.                     *)
(*                                                                         *)
(* Every real_* function, event callback and On_* callback runs on the IO  *)
(* thread, so a handler is one step; users call Init, Listen, Connect and  *)
(* Fini from any thread between handlers, and Async_* on the IO thread.    *)
(* The server is its FIFO mailbox (Mailbox.tla, implemented by PostQueue), *)
(* its registry m_tcpsockets and the sweep of its gate when it closes; its *)
(* own life is in IOServer.  The peer and the kernel are the variable net. *)
(*                                                                         *)
(* m_status, which should stop a second Listen or Connect (tcpsocket.h:    *)
(* 112-115), is set only by the job: calls that come before it are carried *)
(* out one over the other.  The variable overlaid names the sockets this   *)
(* has happened to.  Their events are assigned anew while they are pending,*)
(* which libevent forbids; what it does afterwards is not modelled, and    *)
(* beyond the counts nothing is claimed of such a socket.                  *)
(*                                                                         *)
(* Bounds: MaxOpens Listen/Connect calls per socket, MaxFinis Fini calls   *)
(* per socket by users, MaxQueue buffers in each direction.                *)
(***************************************************************************)
EXTENDS Naturals, Sequences, FiniteSets

CONSTANTS
    Listeners, Connecters, Accepters,   \* the sockets, by what they are for
    Rooms,            \* AvailWrite() of the buffers passed to Async_Recv
    Uses,             \* which sets of sockets the users may have created
    MaxOpens, MaxFinis, MaxQueue

Sockets == Listeners \cup Connecters \cup Accepters
Kind(s) == IF s \in Listeners THEN "listener"
           ELSE IF s \in Connecters THEN "connecter" ELSE "accepter"

ASSUME KindsAssumption ==
    Listeners \cap Connecters = {} /\ (Listeners \cup Connecters) \cap Accepters = {}
ASSUME UsesAssumption == Uses \subseteq SUBSET (Listeners \cup Connecters)
ASSUME BoundsAssumption ==
    Rooms \subseteq Nat /\ MaxOpens \in Nat /\ MaxFinis \in Nat /\ MaxQueue \in Nat

VARIABLES
    jobs,             \* the server's mailbox: [op, on] records
    closing,          \* the server's m_binit is false
    registry,         \* m_tcpsockets
    type,             \* m_type
    binit,            \* m_binit
    bound,            \* the sockets whose m_io is set
    cb,               \* the sockets whose callback (m_lcb, m_acb, m_ccb) is set
    status,           \* m_status: "null", "connect" or "common"
    fd,               \* the sockets whose m_socket is a descriptor
    fds,              \* how many descriptors a socket has opened and not closed
    rarm, warm,       \* the sockets whose m_ev_read, m_ev_write is pending
    sendq, recvq,     \* m_wait_send, m_wait_recv
    refs,             \* the reference count
    held,             \* the sockets whose user still holds a reference
    net,              \* kernel and peer, for the descriptor in m_socket
    told,             \* history: "none", "open" after On_Listen/On_Connect(ok), "closed" after On_Close
    answered,         \* history: how often On_Listen or On_Connect was called, with any errid
    overlaid,         \* history: real_listen or real_connect has run on the open socket
    revived,          \* history: on_inter_accept_accept came after real_fini
    calls             \* how often users called Listen/Connect and Fini

life == <<type, binit, bound, cb>>
link == <<status, fd, fds, rarm, warm, registry, net>>
data == <<sendq, recvq>>
count == <<refs, held>>
seen == <<told, answered, revived>>
vars == <<jobs, closing, life, link, data, count, seen, overlaid, calls>>

SendBuffer == {"data", "empty"}      \* "empty": AvailRead() = 0, the close command
RecvBuffer == [some : BOOLEAN, room : Nat]

Init ==
    /\ jobs = <<>>
    /\ closing = FALSE
    /\ registry = {}
    /\ type = [s \in Sockets |-> "null"]
    /\ binit = [s \in Sockets |-> FALSE]
    /\ bound = {}
    /\ cb = {}
    /\ status = [s \in Sockets |-> "null"]
    /\ fd = {}
    /\ fds = [s \in Sockets |-> 0]
    /\ rarm = {}
    /\ warm = {}
    /\ sendq = [s \in Sockets |-> <<>>]
    /\ recvq = [s \in Sockets |-> <<>>]
    /\ held \in Uses
    /\ refs = [s \in Sockets |-> IF s \in held THEN 1 ELSE 0]
    /\ net = [s \in Sockets |-> "idle"]
    /\ told = [s \in Sockets |-> "none"]
    /\ answered = [s \in Sockets |-> 0]
    /\ overlaid = {}
    /\ revived = {}
    /\ calls = [s \in Sockets |-> [open |-> 0, fini |-> 0]]

Job(op, s) == [op |-> op, on |-> s]
Pending(op, s) == {i \in DOMAIN jobs : jobs[i] = Job(op, s)}

\* One(b): 1 if b, 0 otherwise.
One(b) == IF b THEN 1 ELSE 0

-----------------------------------------------------------------------------
(* Calls of users *)

\* Init_Listener, Init_Connecter (Init_Accepter is called in On_Accept).
InitAccepts(s) == s \notin bound \cup cb /\ status[s] = "null"

InitSocket(s) ==
    /\ s \in held \ Accepters
    /\ InitAccepts(s)
    /\ bound' = bound \cup {s}
    /\ cb' = cb \cup {s}
    /\ type' = [type EXCEPT ![s] = Kind(s)]
    /\ binit' = [binit EXCEPT ![s] = TRUE]
    /\ UNCHANGED <<jobs, closing, overlaid, link, data, count, seen, calls>>

\* Listen and Connect when they return true: a real_listen or real_connect is
\* posted, with a reference; another one may be waiting already.
Open(s) ==
    /\ s \in held
    /\ calls[s].open < MaxOpens
    /\ status[s] = "null" /\ binit[s] /\ type[s] \in {"listener", "connecter"}
    /\ jobs' = Append(jobs, Job("open", s))
    /\ refs' = [refs EXCEPT ![s] = @ + 1]
    /\ calls' = [calls EXCEPT ![s].open = @ + 1]
    /\ UNCHANGED <<closing, overlaid, life, link, data, held, seen>>

\* Fini when m_binit is set.
Fini(s) ==
    /\ s \in held
    /\ calls[s].fini < MaxFinis
    /\ binit[s]
    /\ jobs' = Append(jobs, Job("fini", s))
    /\ refs' = [refs EXCEPT ![s] = @ + 1]
    /\ calls' = [calls EXCEPT ![s].fini = @ + 1]
    /\ UNCHANGED <<closing, overlaid, life, link, data, held, seen>>

\* The user drops its own reference, after it has called Fini (rule 1 of
\* tcpsocket.h).
UserRelease(s) ==
    /\ s \in held
    /\ calls[s].fini > 0
    /\ held' = held \ {s}
    /\ refs' = [refs EXCEPT ![s] = @ - 1]
    /\ UNCHANGED <<jobs, closing, overlaid, life, link, data, seen, calls>>

\* Mutant: the event is added for every buffer but the first.
AsyncSendUnarmed(s, b) ==
    /\ s \in held
    /\ status[s] = "common" /\ type[s] \in {"accepter", "connecter"}
    /\ Len(sendq[s]) < MaxQueue
    /\ warm' = IF sendq[s] = <<>> THEN warm ELSE warm \cup {s}
    /\ sendq' = [sendq EXCEPT ![s] = Append(@, b)]
    /\ UNCHANGED <<jobs, closing, overlaid, life, status, fd, fds, rarm, registry, net, recvq,
                   count, seen, calls>>

\* Async_Send, in a callback or a job on the IO thread.
AsyncSend(s, b) ==
    /\ s \in held
    /\ status[s] = "common" /\ type[s] \in {"accepter", "connecter"}
    /\ Len(sendq[s]) < MaxQueue
    /\ warm' = IF sendq[s] = <<>> THEN warm \cup {s} ELSE warm
    /\ sendq' = [sendq EXCEPT ![s] = Append(@, b)]
    /\ UNCHANGED <<jobs, closing, overlaid, life, status, fd, fds, rarm, registry, net, recvq,
                   count, seen, calls>>

\* Async_Recv (some = FALSE) and Async_RecvSome (some = TRUE).
AsyncRecv(s, b) ==
    /\ s \in held
    /\ status[s] = "common" /\ type[s] \in {"accepter", "connecter"}
    /\ Len(recvq[s]) < MaxQueue
    /\ rarm' = IF recvq[s] = <<>> THEN rarm \cup {s} ELSE rarm
    /\ recvq' = [recvq EXCEPT ![s] = Append(@, b)]
    /\ UNCHANGED <<jobs, closing, overlaid, life, status, fd, fds, warm, registry, net, sendq,
                   count, seen, calls>>

\* The server's Fini has been carried out.
CloseServer ==
    /\ ~closing
    /\ closing' = TRUE
    /\ UNCHANGED <<jobs, overlaid, life, link, data, count, seen, calls>>

\* Every tick of a closing server calls Fini on the registered sockets before
\* it drains the mailbox; a tick that finds the Fini of the last one still
\* waiting adds nothing new.
Sweep(s) ==
    /\ closing
    /\ s \in registry
    /\ binit[s]
    /\ Pending("fini", s) = {}
    /\ jobs' = Append(jobs, Job("fini", s))
    /\ refs' = [refs EXCEPT ![s] = @ + 1]
    /\ UNCHANGED <<closing, overlaid, life, link, data, held, seen, calls>>

-----------------------------------------------------------------------------
(* on_inter_close *)

\* Mutant: Del_TcpSocket erases the socket but does not release it.
ReleaseJobOnly(s, drop) == refs' = [refs EXCEPT ![s] = @ - drop]

\* The handler releases the reference of its job (drop = 1), Del_TcpSocket
\* that of the registry.
ReleaseFrom(s, drop) ==
    refs' = [refs EXCEPT ![s] = @ - drop - One(s \in registry)]

CloseDescriptor(s) ==
    /\ fds' = [fds EXCEPT ![s] = @ - One(s \in fd)]
    /\ fd' = fd \ {s}

\* Mutant: the socket is left in m_tcpsockets.
UnregisterEventsOnly(s) ==
    /\ rarm' = rarm \ {s}
    /\ warm' = warm \ {s}
    /\ UNCHANGED registry

\* Del_Event and Del_TcpSocket.
Unregister(s) ==
    /\ rarm' = rarm \ {s}
    /\ warm' = warm \ {s}
    /\ registry' = registry \ {s}

\* Mutant: with a buffer to call back, On_Close is not reached.
CloseCallbacksReturn(s, bconnecting) ==
    IF s \in cb
    THEN /\ sendq' = [sendq EXCEPT ![s] = <<>>]
         /\ recvq' = [recvq EXCEPT ![s] = <<>>]
         /\ told' = IF sendq[s] = <<>> THEN [told EXCEPT ![s] = "closed"] ELSE told
         /\ answered' = [answered EXCEPT ![s] = @ + One(bconnecting)]
         /\ UNCHANGED revived
    ELSE UNCHANGED <<data, seen>>

\* On_Listen or On_Connect if bconnecting, callbacks for every queued buffer, and
\* On_Close.  Without a callback nothing is called and the queues are left alone.
CloseCallbacks(s, bconnecting) ==
    IF s \in cb
    THEN /\ sendq' = [sendq EXCEPT ![s] = <<>>]
         /\ recvq' = [recvq EXCEPT ![s] = <<>>]
         /\ told' = [told EXCEPT ![s] = "closed"]
         /\ answered' = [answered EXCEPT ![s] = @ + One(bconnecting)]
         /\ UNCHANGED revived
    ELSE UNCHANGED <<data, seen>>

\* A socket in connect or common is closed; the errid is left out.
CloseLink(s, bconnecting) ==
    /\ status' = [status EXCEPT ![s] = "null"]
    /\ CloseCallbacks(s, bconnecting)
    /\ CloseDescriptor(s)
    /\ Unregister(s)
    /\ net' = [net EXCEPT ![s] = "idle"]

-----------------------------------------------------------------------------
(* Jobs of the mailbox.  A job's own reference is released when it returns. *)

Runs(op, s) == jobs # <<>> /\ Head(jobs) = Job(op, s)
Popped == jobs' = Tail(jobs)
Dropped(s) == refs' = [refs EXCEPT ![s] = @ - 1]

\* real_listen or real_connect does not ask whether the socket is open.
Overlays(s) == overlaid' = IF status[s] = "null" THEN overlaid ELSE overlaid \cup {s}

\* real_listen and real_connect of a socket that has been Fini'd.
OpenFinied(s) ==
    /\ Runs("open", s) /\ ~binit[s]
    /\ Popped /\ Dropped(s)
    /\ UNCHANGED <<closing, overlaid, life, link, data, held, seen, calls>>

\* They fail at once (address, socket, bind, listen, connect).  What is closed
\* is m_socket, which may be that of an earlier call.
OpenFails(s) ==
    /\ Runs("open", s) /\ binit[s]
    /\ Overlays(s)
    /\ CloseLink(s, TRUE)
    /\ ReleaseFrom(s, 1)
    /\ Popped
    /\ UNCHANGED <<closing, life, held, calls>>

\* The listening socket is open; On_Listen(tcp_ok).
ListenOk(s) ==
    /\ Runs("open", s) /\ binit[s] /\ s \in Listeners
    /\ Overlays(s)
    /\ status' = [status EXCEPT ![s] = "common"]
    /\ fd' = fd \cup {s}
    /\ fds' = [fds EXCEPT ![s] = @ + 1]
    /\ rarm' = rarm \cup {s}
    /\ registry' = registry \cup {s}
    /\ net' = [net EXCEPT ![s] = "up"]
    /\ told' = [told EXCEPT ![s] = "open"]
    /\ answered' = [answered EXCEPT ![s] = @ + 1]
    \* Add_TcpSocket retains, the job releases.
    /\ Popped
    /\ UNCHANGED <<closing, life, warm, data, count, revived, calls>>

\* The non-blocking connect is under way: wait for the descriptor to become
\* writable, for at most sf_connect_timeout.
ConnectStarts(s) ==
    /\ Runs("open", s) /\ binit[s] /\ s \in Connecters
    /\ Overlays(s)
    /\ status' = [status EXCEPT ![s] = "connect"]
    /\ fd' = fd \cup {s}
    /\ fds' = [fds EXCEPT ![s] = @ + 1]
    \* Reset_Event: an event that was pending is so no more.
    /\ rarm' = rarm \ {s}
    /\ warm' = warm \cup {s}
    /\ registry' = registry \cup {s}
    /\ net' = [net EXCEPT ![s] = "pending"]
    /\ Popped
    /\ UNCHANGED <<closing, life, data, count, seen, calls>>

\* Mutant: real_fini does not close a socket that is still connecting.
RealFiniCommonOnly(s) ==
    /\ Runs("fini", s) /\ binit[s]
    /\ IF status[s] # "common"
       THEN Dropped(s) /\ UNCHANGED <<link, data, seen>>
       ELSE CloseLink(s, FALSE) /\ ReleaseFrom(s, 1)
    /\ binit' = [binit EXCEPT ![s] = FALSE]
    /\ cb' = cb \ {s}
    /\ type' = [type EXCEPT ![s] = "null"]
    /\ Popped
    /\ UNCHANGED <<closing, overlaid, bound, held, calls>>

\* real_fini: close what is open, then let go of the callback.
RealFini(s) ==
    /\ Runs("fini", s) /\ binit[s]
    /\ IF status[s] = "null"
       THEN Dropped(s) /\ UNCHANGED <<link, data, seen>>
       ELSE CloseLink(s, FALSE) /\ ReleaseFrom(s, 1)
    /\ binit' = [binit EXCEPT ![s] = FALSE]
    /\ cb' = cb \ {s}
    /\ type' = [type EXCEPT ![s] = "null"]
    /\ Popped
    /\ UNCHANGED <<closing, overlaid, bound, held, calls>>

RealFiniAgain(s) ==
    /\ Runs("fini", s) /\ ~binit[s]
    /\ Popped /\ Dropped(s)
    /\ UNCHANGED <<closing, overlaid, life, link, data, held, seen, calls>>

\* on_inter_accept_accept: no check of m_binit.
AcceptAccept(s) ==
    /\ Runs("accept", s)
    /\ status' = [status EXCEPT ![s] = "connect"]
    /\ fd' = fd \cup {s}
    /\ warm' = warm \cup {s}
    /\ registry' = registry \cup {s}
    /\ revived' = IF binit[s] THEN revived ELSE revived \cup {s}
    /\ Popped
    /\ UNCHANGED <<closing, overlaid, life, fds, rarm, net, data, count, told, answered, calls>>

-----------------------------------------------------------------------------
(* Events *)

\* on_inter_listen_accept, and On_Accept in which the user Inits the new
\* socket, keeps a reference to it and perhaps already calls Fini; then
\* on_inter_accept_accept is posted.  A socket the user does not Init is
\* closed and destroyed in the same handler.
ListenAccepts(l, a) ==
    /\ l \in rarm
    /\ status[l] = "common" /\ type[l] = "listener"
    /\ a \in Accepters \ bound
    /\ fds' = [fds EXCEPT ![a] = @ + 1]
    /\ net' = [net EXCEPT ![a] = "up"]
    /\ bound' = bound \cup {a}
    /\ cb' = cb \cup {a}
    /\ type' = [type EXCEPT ![a] = "accepter"]
    /\ binit' = [binit EXCEPT ![a] = TRUE]
    /\ held' = held \cup {a}
    /\ \E early \in BOOLEAN :
         /\ early => MaxFinis > 0
         /\ jobs' = jobs \o (IF early THEN <<Job("fini", a)>> ELSE <<>>)
                         \o <<Job("accept", a)>>
         /\ refs' = [refs EXCEPT ![a] = 2 + One(early)]
         /\ calls' = [calls EXCEPT ![a].fini = One(early)]
    /\ UNCHANGED <<closing, overlaid, status, fd, rarm, warm, registry, data, seen>>

\* on_inter_send of a connecting socket: EV_WRITE is taken for success.
SendConnected(s) ==
    /\ s \in warm /\ status[s] = "connect"
    /\ net[s] # "pending"
    /\ status' = [status EXCEPT ![s] = "common"]
    /\ IF s \in cb
       THEN /\ told' = [told EXCEPT ![s] = "open"]
            /\ answered' = [answered EXCEPT ![s] = @ + 1]
            /\ UNCHANGED revived
       ELSE UNCHANGED seen
    \* Buffers that On_Connect queues add the event again, see AsyncSend.
    /\ warm' = IF sendq[s] = <<>> THEN warm \ {s} ELSE warm
    /\ UNCHANGED <<jobs, closing, overlaid, life, fd, fds, rarm, registry, net, data, count, calls>>

\* Mutant: a connect that times out is closed like an open connection.
SendTimeoutSilent(s) ==
    /\ s \in warm /\ status[s] = "connect"
    /\ CloseLink(s, FALSE)
    /\ ReleaseFrom(s, 0)
    /\ UNCHANGED <<jobs, closing, overlaid, life, held, calls>>

\* on_inter_send of a connecting socket: the timeout.
SendTimeout(s) ==
    /\ s \in warm /\ status[s] = "connect"
    /\ CloseLink(s, TRUE)
    /\ ReleaseFrom(s, 0)
    /\ UNCHANGED <<jobs, closing, overlaid, life, held, calls>>

\* The first k queued buffers can be sent whole.
Sendable(s, k) == \A i \in 1..k : sendq[s][i] = "data"

\* on_inter_send: k buffers are written and called back, the last callback
\* may queue one more; the next one would block or is written in part.
SendSome(s) ==
    /\ s \in warm /\ status[s] = "common"
    /\ \E k \in 0..Len(sendq[s]), more \in BOOLEAN :
         /\ Sendable(s, k)
         /\ more => k > 0 /\ type[s] # "null"
         /\ LET rest == SubSeq(sendq[s], k + 1, Len(sendq[s]))
                        \o (IF more THEN <<"data">> ELSE <<>>)
            IN  /\ rest # <<>> => Head(rest) # "empty"
                /\ sendq' = [sendq EXCEPT ![s] = rest]
                /\ warm' = IF rest = <<>> THEN warm \ {s} ELSE warm
    /\ UNCHANGED <<jobs, closing, overlaid, life, status, fd, fds, rarm, registry, net, recvq,
                   count, seen, calls>>

\* on_inter_send: after k buffers comes the close command, or send fails.
SendCloses(s) ==
    /\ s \in warm /\ status[s] = "common"
    /\ \E k \in 0..(Len(sendq[s]) - 1) :
         /\ Sendable(s, k)
         /\ sendq[s][k + 1] = "empty" \/ net[s] # "up"
    /\ CloseLink(s, FALSE)
    /\ ReleaseFrom(s, 0)
    /\ UNCHANGED <<jobs, closing, overlaid, life, held, calls>>

\* on_inter_recv: n bytes arrive for the first buffer.  When it is full, or
\* any amount will do, On_Recv is called, which may queue another buffer, and
\* the event is deleted if none is left.
RecvData(s) ==
    /\ s \in rarm \ Listeners /\ recvq[s] # <<>> /\ net[s] \in {"up", "gone"}
    /\ \E n \in 1..Head(recvq[s]).room, more \in BOOLEAN :
         LET b == Head(recvq[s])
             full == b.some \/ n = b.room
             again == IF more THEN <<[some |-> TRUE, room |-> 1]>> ELSE <<>>
             rest == IF full THEN Tail(recvq[s]) \o again
                     ELSE <<[b EXCEPT !.room = @ - n]>> \o Tail(recvq[s])
         IN  /\ more => full
             /\ recvq' = [recvq EXCEPT ![s] = rest]
             /\ rarm' = IF rest = <<>> THEN rarm \ {s} ELSE rarm
    /\ UNCHANGED <<jobs, closing, overlaid, life, status, fd, fds, warm, registry, net, sendq,
                   count, seen, calls>>

\* on_inter_recv: recv returns 0, because the peer is gone or because the
\* buffer has no room, or fails.
RecvCloses(s) ==
    /\ s \in rarm \ Listeners /\ recvq[s] # <<>>
    /\ net[s] \in {"gone", "refused", "reset"} \/ Head(recvq[s]).room = 0
    /\ CloseLink(s, FALSE)
    /\ ReleaseFrom(s, 0)
    /\ UNCHANGED <<jobs, closing, overlaid, life, held, calls>>

\* The network (external): a connect succeeds or is refused, the peer closes
\* or resets an established connection.
Network(s) ==
    /\ s \notin Listeners
    /\ \/ net[s] = "pending" /\ net' = [net EXCEPT ![s] = "up"]
       \/ net[s] = "pending" /\ net' = [net EXCEPT ![s] = "refused"]
       \/ net[s] = "up" /\ net' = [net EXCEPT ![s] = "gone"]
       \/ net[s] = "up" /\ net' = [net EXCEPT ![s] = "reset"]
    /\ UNCHANGED <<jobs, closing, overlaid, life, status, fd, fds, rarm, warm, registry, data,
                   count, seen, calls>>

-----------------------------------------------------------------------------
UserCall(s) ==
    \/ InitSocket(s) \/ Open(s) \/ Fini(s) \/ UserRelease(s)
    \/ \E b \in SendBuffer : AsyncSend(s, b)
    \/ \E some \in BOOLEAN, n \in Rooms : AsyncRecv(s, [some |-> some, room |-> n])

RunJob(s) ==
    \/ OpenFinied(s) \/ OpenFails(s) \/ ListenOk(s) \/ ConnectStarts(s)
    \/ RealFini(s) \/ RealFiniAgain(s) \/ AcceptAccept(s)

Event(s) ==
    \/ \E a \in Accepters : ListenAccepts(s, a)
    \/ SendConnected(s) \/ SendTimeout(s) \/ SendSome(s) \/ SendCloses(s)
    \/ RecvData(s) \/ RecvCloses(s)

Next ==
    \/ CloseServer
    \/ \E s \in Sockets : UserCall(s) \/ Sweep(s) \/ RunJob(s) \/ Event(s) \/ Network(s)

Spec == Init /\ [][Next]_vars

\* The IO thread drains its mailbox, and sweeps at every tick while it closes.
\* Nothing is assumed of users, the network or the timeouts of events.
Fairness ==
    /\ WF_vars(\E s \in Sockets : RunJob(s))
    /\ \A s \in Sockets : WF_vars(Sweep(s))

FairSpec == Spec /\ Fairness

-----------------------------------------------------------------------------
(* Properties *)

TypeOK ==
    /\ jobs \in Seq([op : {"open", "fini", "accept"}, on : Sockets])
    /\ closing \in BOOLEAN
    /\ registry \subseteq Sockets
    /\ type \in [Sockets -> {"null", "listener", "connecter", "accepter"}]
    /\ binit \in [Sockets -> BOOLEAN]
    /\ bound \subseteq Sockets /\ cb \subseteq Sockets
    /\ status \in [Sockets -> {"null", "connect", "common"}]
    /\ fd \subseteq Sockets /\ fds \in [Sockets -> Nat]
    /\ rarm \subseteq Sockets /\ warm \subseteq Sockets
    /\ sendq \in [Sockets -> Seq(SendBuffer)]
    /\ recvq \in [Sockets -> Seq(RecvBuffer)]
    /\ refs \in [Sockets -> Nat]
    /\ held \subseteq Sockets
    /\ net \in [Sockets -> {"idle", "pending", "up", "refused", "gone", "reset"}]
    /\ told \in [Sockets -> {"none", "open", "closed"}]
    /\ answered \in [Sockets -> Nat]
    /\ overlaid \subseteq Listeners \cup Connecters
    /\ revived \subseteq Accepters
    /\ calls \in [Sockets -> [open : 0..MaxOpens, fini : 0..MaxFinis]]

\* A socket is counted for its user, for its registration and for every job
\* that will run on it, so that it is never destroyed under the server, an event
\* or a job; and for nothing else, so that it is never leaked.  Excepted from the
\* second half is a socket one Listen or Connect of which ran over another's
\* (tcpsocket.h:112-115 says the other is ignored): registered twice, it keeps a
\* reference nobody releases.
RefsBalanced ==
    \A s \in Sockets :
        LET holders == One(s \in held) + One(s \in registry)
                       + Cardinality({i \in DOMAIN jobs : jobs[i].on = s})
        IN  /\ refs[s] >= holders
            /\ s \notin overlaid => refs[s] = holders

\* No descriptor is lost: a socket has at most the one in m_socket, or the one
\* that waits in on_inter_accept_accept.  Excepted is a socket one Listen or
\* Connect of which ran over another's: m_socket is overwritten while it is open.
NoLostDescriptor ==
    \A s \in Sockets \ overlaid :
        fds[s] = One(s \in fd) + Cardinality(Pending("accept", s))

\* A socket that has been Fini'd is out of the server: no status, no
\* descriptor, no event, no registration that would keep the server running
\* (tcpsocket.h:51-52).  The exception is an accepter Fini'd before it was passed
\* on to its own server: on_inter_accept_accept does not look at m_binit.
FiniedIsQuiet ==
    \A s \in bound \ revived : ~binit[s] =>
        /\ status[s] = "null"
        /\ s \notin fd \cup rarm \cup warm \cup registry

\* Everything has its type, and what a socket holds is accounted for: references,
\* descriptors, and nothing at all after Fini; with the exceptions its parts name.
Inv == TypeOK /\ RefsBalanced /\ NoLostDescriptor /\ FiniedIsQuiet

\* What the callbacks have told the user is what the socket is: between
\* On_Listen or On_Connect with tcp_ok and On_Close, and only then, the socket
\* is in common (tcpsocket.h:37-46, 55).  Excepted is an accepter that came to
\* life after its Fini: it has no callback left to tell; and a socket one Connect
\* of which ran over another's, which may be connecting again without On_Close.
ViewMatches ==
    \A s \in Sockets \ (revived \cup overlaid) : told[s] = "open" <=> status[s] = "common"

\* Queued buffers are served: a connected socket that has buffers to send or
\* to receive into has the event pending that will serve them, and a socket
\* that is not connected has none (their callbacks have been called).  A read
\* event never finds m_wait_recv empty: the early return of on_inter_recv is
\* not taken, and has no action here.  Excepted is a connecter one Connect of which
\* ran over another's: its buffers are left without an event.
QueuedIsArmed ==
    \A s \in Sockets \ (Listeners \cup overlaid) :
        IF status[s] = "common"
        THEN (sendq[s] # <<>> => s \in warm) /\ (recvq[s] # <<>> <=> s \in rarm)
        ELSE sendq[s] = <<>> /\ recvq[s] = <<>>

\* What a socket has been asked to open: by Listen or Connect, or by the listener
\* that accepted it.
Asked(s) == IF s \in Accepters THEN One(s \in bound) ELSE calls[s].open

\* Every Listen and Connect that returned true, and every connection that was
\* accepted, is answered by one On_Listen or On_Connect: until then it is in the
\* mailbox or connecting, whatever else happens to the socket and however often it
\* is opened again; users that wait for the answer before they try again, as
\* CTcpSocketClient does, are never left waiting and never told twice.  Excepted is
\* a socket after its Fini, which is answered by On_Close or not at all
\* (tcpsocket.h:49), and one whose openings ran over each other.
OpensAreAnswered ==
    \A s \in Sockets \ overlaid : binit[s] =>
        Asked(s) = answered[s] + Cardinality(Pending("open", s) \cup Pending("accept", s))
                   + One(status[s] = "connect")

\* On_Connect(tcp_ok) is called only for a connection that was established.
ConnectOkIsConnected ==
    [][\A s \in Connecters :
        (told'[s] = "open" /\ told[s] # "open") => net[s] # "refused"]_vars

\* A closing server gets rid of every socket, whatever state it is in: the gate
\* of real_post finds the registry and the mailbox empty.  Only an accepter that
\* came to life after its Fini may stay: no Fini can end it any more.  Nothing is
\* claimed when openings have run over each other and libevent's lists are wrong.
ServerDrains == closing ~> ((registry \subseteq revived /\ jobs = <<>>) \/ overlaid # {})

=============================================================================
