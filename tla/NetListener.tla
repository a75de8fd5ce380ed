---------------------------- MODULE NetListener ----------------------------
(***************************************************************************)
(* A port CNetIO listens on (net-qyfh/qyfhnet.h): a CTcpSocketListener     *)
(* (net-qyfh/socketlistener.h) with its listening CTcpSocket, over two     *)
(* threads: the listener's IO thread and the main thread, which holds it   *)
(* in m_listeners.  What it accepts is in NetServer.                       *)
(*                                                                         *)
(* CTcpSocket is reduced as in NetServer and NetClient; the count kept     *)
(* here is the listener's.  Once the listener is destroyed, what the       *)
(* program does with it is undefined, and the model stops.                 *)
(*                                                                         *)
(* Bounds: CNetIO makes a listener for one Listen; the user closes it at   *)
(* most MaxCloses times.                                                   *)
(***************************************************************************)
EXTENDS Naturals, Sequences

CONSTANT MaxCloses

VARIABLES
    jobs,             \* the mailbox of the IO thread
    main,             \* the mailbox of the main thread: "close" only
    sstat,            \* CTcpSocket::m_status
    binit,            \* CTcpSocket::m_binit
    lcb,              \* the socket holds the listener as m_lcb
    refs,             \* the listener's reference count
    held,             \* the listener is in m_listeners
    closes            \* how often the user has called CNetIO::Close

socket == <<sstat, binit, lcb>>
vars == <<jobs, main, socket, refs, held, closes>>

\* CNetIO::Listen has made the listener, posted postin_listen with a reference
\* and put the listener in m_listeners.
Init ==
    /\ jobs = <<"listen">>
    /\ main = <<>>
    /\ sstat = "null"
    /\ binit = FALSE
    /\ lcb = FALSE
    /\ refs = 2
    /\ held = TRUE
    /\ closes = 0

-----------------------------------------------------------------------------
(* The main thread *)

\* CNetIO::Close: CTcpSocketListener::Close posts postin_close, and no Retain.
UserClose ==
    /\ held
    /\ closes < MaxCloses
    /\ closes' = closes + 1
    /\ jobs' = Append(jobs, "close")
    /\ UNCHANGED <<main, socket, refs, held>>

\* mainio_listener_close: Close, Release and erase.
MainEnds ==
    /\ main # <<>>
    /\ main' = Tail(main)
    /\ IF held
       THEN /\ jobs' = Append(jobs, "close")
            /\ refs' = refs - 1
            /\ held' = FALSE
       ELSE UNCHANGED <<jobs, refs, held>>
    /\ UNCHANGED <<socket, closes>>

-----------------------------------------------------------------------------
(* The IO thread *)

Runs(op) == jobs # <<>> /\ Head(jobs) = op

\* on_inter_close and On_Close.
CloseLink ==
    /\ sstat' = "null"
    /\ main' = IF lcb THEN Append(main, "close") ELSE main

\* postin_listen: Init_Listener takes a reference, Listen posts real_listen, the
\* job's reference is released.
Listen ==
    /\ Runs("listen")
    /\ binit' = TRUE
    /\ lcb' = TRUE
    /\ jobs' = Append(Tail(jobs), "open")
    /\ UNCHANGED <<main, sstat, refs, held, closes>>

\* CTcpSocket::real_listen: ignored after real_fini, or it succeeds, or the
\* address cannot be used.
OpenFinied ==
    /\ Runs("open") /\ ~binit
    /\ jobs' = Tail(jobs)
    /\ UNCHANGED <<main, socket, refs, held, closes>>

OpenSucceeds ==
    /\ Runs("open") /\ binit
    /\ sstat' = "common"
    /\ jobs' = Tail(jobs)
    /\ UNCHANGED <<main, binit, lcb, refs, held, closes>>

OpenFails ==
    /\ Runs("open") /\ binit
    /\ CloseLink
    /\ jobs' = Tail(jobs)
    /\ UNCHANGED <<binit, lcb, refs, held, closes>>

\* postin_close: Fini of the socket, then the Release of a reference that
\* nobody took for it.
PostinClose ==
    /\ Runs("close")
    /\ jobs' = Tail(jobs) \o (IF binit THEN <<"fini">> ELSE <<>>)
    /\ refs' = refs - 1
    /\ UNCHANGED <<main, socket, held, closes>>

\* CTcpSocket::real_fini.
RealFini ==
    /\ Runs("fini") /\ binit
    /\ IF sstat = "null" THEN UNCHANGED <<sstat, main>> ELSE CloseLink
    /\ binit' = FALSE
    /\ lcb' = FALSE
    /\ refs' = refs - 1
    /\ jobs' = Tail(jobs)
    /\ UNCHANGED <<held, closes>>

RealFiniAgain ==
    /\ Runs("fini") /\ ~binit
    /\ jobs' = Tail(jobs)
    /\ UNCHANGED <<main, socket, refs, held, closes>>

-----------------------------------------------------------------------------
Next ==
    /\ refs > 0
    /\ \/ UserClose \/ MainEnds
       \/ Listen \/ OpenFinied \/ OpenSucceeds \/ OpenFails
       \/ PostinClose \/ RealFini \/ RealFiniAgain

Spec == Init /\ [][Next]_vars

-----------------------------------------------------------------------------
(* Properties *)

\* Objects under io are counted (ioserver.h:7): whoever will still use the
\* listener, m_listeners, the socket that holds it as m_lcb or a job bound to
\* it, keeps it alive.
UsedIsAlive ==
    (held \/ lcb \/ \E i \in DOMAIN jobs : jobs[i] \in {"listen", "close"}) => refs > 0

=============================================================================
