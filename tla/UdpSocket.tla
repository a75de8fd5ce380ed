----------------------------- MODULE UdpSocket -----------------------------
(***************************************************************************)
(* One CUdpSocket (source/net/impl_udpsocket.cpp) on a CIOServer, which is *)
(* here its mailbox, its registry m_udpsockets and the sweep of real_post  *)
(* when it closes; the server itself is in IOServer.tla.                   *)
(*                                                                         *)
(* The IO thread runs the jobs and, between them, the user's Async_ calls; *)
(* real_close calls the user for every buffer and is taken apart, because  *)
(* the user may submit a buffer in there.  Init, Listen, Fini and Release  *)
(* come from any thread.                                                   *)
(*                                                                         *)
(* The events of the socket are assigned to CTcpSocket's callbacks, so the *)
(* first one that fires runs a method of another class on this object.     *)
(* That is undefined behaviour and the model stops there, as it may when   *)
(* an event that was never assigned is deleted.                            *)
(*                                                                         *)
(* Bounds: MaxCalls, how often Listen and Fini are called in all; MaxQueue *)
(* buffers in each direction; MaxAgain, how many buffers the user submits  *)
(* while real_close runs.                                                  *)
(***************************************************************************)
EXTENDS Naturals, Sequences, SequencesExt, FiniteSets

CONSTANTS
    Buffers,          \* the CIOBuffers of the user
    MaxCalls, MaxQueue, MaxAgain

ASSUME BuffersAssumption == IsFiniteSet(Buffers)
ASSUME UdpAssumption == MaxCalls \in Nat /\ MaxQueue \in Nat /\ MaxAgain \in Nat

VARIABLES
    status,           \* m_status
    hasio,            \* m_io is set (never reset)
    hascb,            \* m_cb is set
    fd,               \* m_socket is a descriptor
    assigned,         \* m_ev_read and m_ev_write have been assigned
    rarm, warm,       \* m_ev_read, m_ev_write are pending
    registered,       \* the socket is in CIOServer::m_udpsockets
    sendq, recvq,     \* m_wait_send, m_wait_recv
    queue,            \* the jobs posted and not yet run
    draining,         \* how far real_close is: "no", "send" or "recv"
    refs,             \* the socket's reference count, destroyed at 0
    held,             \* the user still has a reference
    bufrefs,          \* the references of the socket to each buffer
    closing,          \* the server's m_binit is false
    calls, again,     \* how often the bounded calls have been made
    late,             \* history: Async_SendTo in the second loop of real_close
    undefined         \* history: the behaviour is undefined

life == <<status, hasio, hascb>>
link == <<fd, assigned, registered>>
events == <<rarm, warm>>
data == <<sendq, recvq, bufrefs>>
udpvars == <<life, link, events, data, queue, draining, refs, held, closing, calls,
          again, late, undefined>>

UdpInit ==
    /\ status = "null" /\ hasio = FALSE /\ hascb = FALSE
    /\ fd = FALSE /\ assigned = FALSE /\ registered = FALSE
    /\ rarm = FALSE /\ warm = FALSE
    /\ sendq = <<>> /\ recvq = <<>>
    /\ bufrefs = [b \in Buffers |-> 0]
    /\ queue = <<>>
    /\ draining = "no"
    /\ refs = 1 /\ held = TRUE
    /\ closing = FALSE
    /\ calls = 0 /\ again = 0
    /\ late = FALSE
    /\ undefined = FALSE

-----------------------------------------------------------------------------
(* The user, on any thread *)

InitSocket ==
    /\ held /\ ~undefined
    /\ ~hasio /\ ~hascb /\ status = "null"
    /\ hasio' = TRUE /\ hascb' = TRUE /\ status' = "init"
    /\ UNCHANGED <<link, events, data, queue, draining, refs, held, closing, calls,
                   again, late, undefined>>

Post(job) == queue' = Append(queue, job) /\ refs' = refs + 1

\* The user's Listen, which returns TRUE.
Listen ==
    /\ held /\ ~undefined
    /\ calls < MaxCalls /\ calls' = calls + 1
    /\ status = "init" /\ hasio /\ hascb
    /\ Post("listen")
    /\ UNCHANGED <<life, link, events, data, draining, held, closing, again, late, undefined>>

Fini ==
    /\ held /\ ~undefined
    /\ calls < MaxCalls /\ calls' = calls + 1
    /\ status # "null" /\ hasio
    /\ Post("close")
    /\ UNCHANGED <<life, link, events, data, draining, held, closing, again, late, undefined>>

UserRelease ==
    /\ held /\ ~undefined
    /\ held' = FALSE
    /\ refs' = refs - 1
    /\ UNCHANGED <<life, link, events, data, queue, draining, closing, calls, again,
                   late, undefined>>

-----------------------------------------------------------------------------
(* The user, on the IO thread: between two handlers, or in a callback of      *)
(* real_close                                                                 *)

InTurn ==
    /\ held /\ ~undefined
    /\ status = "common"
    /\ IF draining = "no" THEN UNCHANGED again ELSE again < MaxAgain /\ again' = again + 1

\* Async_SendTo: the event is added with the first buffer only.
AsyncSendTo(b) ==
    /\ InTurn
    /\ Len(sendq) < MaxQueue
    /\ sendq' = Append(sendq, b)
    /\ bufrefs' = [bufrefs EXCEPT ![b] = @ + 1]
    /\ warm' = (warm \/ sendq = <<>>)
    /\ late' = (late \/ draining = "recv")
    /\ UNCHANGED <<life, link, rarm, recvq, queue, draining, refs, held, closing,
                   calls, undefined>>

AsyncRecvSomeFrom(b) ==
    /\ InTurn
    /\ Len(recvq) < MaxQueue
    /\ recvq' = Append(recvq, b)
    /\ bufrefs' = [bufrefs EXCEPT ![b] = @ + 1]
    /\ rarm' = (rarm \/ recvq = <<>>)
    /\ UNCHANGED <<life, link, warm, sendq, queue, draining, refs, held, closing,
                   calls, late, undefined>>

-----------------------------------------------------------------------------
(* The IO thread *)

Runs(job) ==
    /\ ~undefined /\ draining = "no"
    /\ queue # <<>> /\ Head(queue) = job
    /\ queue' = Tail(queue)

\* real_listen: not in its turn, with an address, a descriptor or a bind that
\* fails, or with success.  Add_UdpSocket retains, the guard releases.
RunListen ==
    /\ Runs("listen")
    /\ \/ /\ refs' = refs - 1
          /\ UNCHANGED <<status, link>>
       \/ /\ status = "init"
          /\ refs' = refs + 1 - 1
          /\ status' = "common"
          /\ fd' = TRUE /\ assigned' = TRUE /\ registered' = TRUE
    /\ UNCHANGED <<hasio, hascb, events, data, draining, held, closing, calls, again,
                   late, undefined>>

\* real_close of a socket that is closed already: only the guard's Release.
RunCloseAgain ==
    /\ Runs("close")
    /\ status = "null"
    /\ refs' = refs - 1
    /\ UNCHANGED <<life, link, events, data, draining, held, closing, calls, again,
                   late, undefined>>

\* real_close: the status stays what it is for as long as the loops run.
RunClose ==
    /\ Runs("close")
    /\ status # "null"
    /\ draining' = "send"
    /\ UNCHANGED <<life, link, events, data, refs, held, closing, calls, again, late,
                   undefined>>

\* The first loop: On_Send, in which the user may submit buffers, has returned.
DrainSend ==
    /\ draining = "send" /\ ~undefined
    /\ sendq # <<>>
    /\ sendq' = Tail(sendq)
    /\ bufrefs' = [bufrefs EXCEPT ![Head(sendq)] = @ - 1]
    /\ UNCHANGED <<life, link, events, recvq, queue, draining, refs, held, closing,
                   calls, again, late, undefined>>

\* The second loop: On_Recv has returned.
DrainRecv ==
    /\ draining = "recv" /\ ~undefined
    /\ recvq # <<>>
    /\ recvq' = Tail(recvq)
    /\ bufrefs' = [bufrefs EXCEPT ![Head(recvq)] = @ - 1]
    /\ UNCHANGED <<life, link, events, sendq, queue, draining, refs, held, closing,
                   calls, again, late, undefined>>

\* Mutant: only what was waiting for a datagram is given back.
DrainedSendUnasked ==
    /\ draining = "send" /\ ~undefined
    /\ draining' = "recv"
    /\ UNCHANGED <<life, link, events, data, queue, refs, held, closing, calls, again,
                   late, undefined>>

DrainedSend ==
    /\ draining = "send" /\ ~undefined
    /\ sendq = <<>>
    /\ draining' = "recv"
    /\ UNCHANGED <<life, link, events, data, queue, refs, held, closing, calls, again,
                   late, undefined>>

\* Mutant: the events are not deleted.
CloseEndStillArmed ==
    /\ draining = "recv" /\ ~undefined
    /\ recvq = <<>>
    /\ draining' = "no"
    /\ status' = "null" /\ fd' = FALSE /\ hascb' = FALSE
    /\ registered' = FALSE
    /\ refs' = (IF registered THEN refs - 1 ELSE refs) - 1
    /\ undefined' \in (IF assigned THEN {FALSE} ELSE BOOLEAN)
    /\ UNCHANGED <<hasio, assigned, events, data, queue, held, closing, calls, again, late>>

\* Mutant: Del_UdpSocket is forgotten.
CloseEndRegistered ==
    /\ draining = "recv" /\ ~undefined
    /\ recvq = <<>>
    /\ draining' = "no"
    /\ status' = "null" /\ fd' = FALSE /\ hascb' = FALSE
    /\ rarm' = FALSE /\ warm' = FALSE
    /\ refs' = refs - 1
    /\ undefined' \in (IF assigned THEN {FALSE} ELSE BOOLEAN)
    /\ UNCHANGED <<hasio, assigned, registered, data, queue, held, closing, calls, again, late>>

\* The guards, in reverse order: the descriptor, the callback, the events and
\* Del_UdpSocket; then the Release of the job.  event_del of an event that was
\* never assigned reads memory that was never written.
CloseEnd ==
    /\ draining = "recv" /\ ~undefined
    /\ recvq = <<>>
    /\ draining' = "no"
    /\ status' = "null" /\ fd' = FALSE /\ hascb' = FALSE
    /\ rarm' = FALSE /\ warm' = FALSE
    /\ registered' = FALSE
    /\ refs' = (IF registered THEN refs - 1 ELSE refs) - 1
    /\ undefined' \in (IF assigned THEN {FALSE} ELSE BOOLEAN)
    /\ UNCHANGED <<hasio, assigned, data, queue, held, closing, calls, again, late>>

\* A datagram or room for one: CTcpSocket::on_recv_callback or on_send_callback.
EventFires ==
    /\ ~undefined /\ draining = "no"
    /\ rarm \/ warm
    /\ undefined' = TRUE
    /\ UNCHANGED <<life, link, events, data, queue, draining, refs, held, closing,
                   calls, again, late>>

-----------------------------------------------------------------------------
(* The server *)

Closes ==
    /\ ~closing
    /\ closing' = TRUE
    /\ UNCHANGED <<life, link, events, data, queue, draining, refs, held, calls, again,
                   late, undefined>>

\* real_post of a server that closes: Fini for all that is registered, with
\* what is posted before the next one drained in between.
Sweep ==
    /\ ~undefined /\ draining = "no"
    /\ closing /\ registered
    /\ ~Contains(queue, "close")
    /\ status # "null" /\ hasio
    /\ Post("close")
    /\ UNCHANGED <<life, link, events, data, draining, held, closing, calls, again,
                   late, undefined>>

-----------------------------------------------------------------------------
UdpUserStep ==
    \/ InitSocket \/ Listen \/ Fini \/ UserRelease
    \/ \E b \in Buffers : AsyncSendTo(b) \/ AsyncRecvSomeFrom(b)

UdpIOStep ==
    \/ RunListen \/ RunCloseAgain \/ RunClose
    \/ DrainSend \/ DrainRecv \/ DrainedSend \/ CloseEnd
    \/ Sweep

UdpNext == UdpUserStep \/ UdpIOStep \/ EventFires \/ Closes

UdpSpec == UdpInit /\ [][UdpNext]_udpvars

\* The IO thread goes on, and drains its jobs in every tick however many
\* buffers are submitted between them.
UdpFairSpec == UdpSpec /\ WF_udpvars(UdpIOStep)

-----------------------------------------------------------------------------
(* Properties *)

One(condition) == IF condition THEN 1 ELSE 0

\* How often a buffer waits.
Waits(b) ==
    Cardinality({i \in DOMAIN sendq : sendq[i] = b})
      + Cardinality({i \in DOMAIN recvq : recvq[i] = b})

UdpTypeOK ==
    /\ status \in {"null", "init", "common"}
    /\ hasio \in BOOLEAN /\ hascb \in BOOLEAN
    /\ fd \in BOOLEAN /\ assigned \in BOOLEAN /\ registered \in BOOLEAN
    /\ rarm \in BOOLEAN /\ warm \in BOOLEAN
    /\ sendq \in Seq(Buffers) /\ recvq \in Seq(Buffers)
    /\ bufrefs \in [Buffers -> Nat]
    /\ queue \in Seq({"listen", "close"})
    /\ draining \in {"no", "send", "recv"}
    /\ refs \in Nat /\ held \in BOOLEAN /\ closing \in BOOLEAN
    /\ calls \in 0..MaxCalls /\ again \in 0..MaxAgain
    /\ late \in BOOLEAN /\ undefined \in BOOLEAN

\* The counts are exact: the socket's own is what its user, the jobs, real_close
\* and the registry hold, and a buffer is retained once for each time it waits.
UdpCounted ==
    /\ refs = One(held) + Len(queue) + One(draining # "no") + One(registered)
    /\ \A b \in Buffers : bufrefs[b] = Waits(b)

\* What an event or a job reaches is there: an event is pending only for a
\* descriptor and a socket the registry keeps alive, and the callback is set
\* until the status says that it is not.
UdpPendingIsOpen ==
    /\ rarm \/ warm => fd /\ registered /\ status = "common"
    /\ fd <=> registered
    /\ hascb <=> status # "null"

\* A closed socket keeps no buffer back, except one that was sent from On_Recv
\* in real_close, which is never answered and never released.
ClosedOwesNothing ==
    hasio /\ status = "null" => recvq = <<>> /\ (sendq = <<>> \/ late)

\* Fini and the end of the server close the socket, as long as nothing is
\* undefined and the user submits only so many buffers in real_close.
FiniedCloses ==
    Contains(queue, "close") \/ (closing /\ registered)
        ~> undefined \/ (status = "null" /\ ~registered)

\* Types, counts and life times, and nothing that is owed to the user.
UdpInv == UdpTypeOK /\ UdpCounted /\ UdpPendingIsOpen /\ ClosedOwesNothing

=============================================================================
