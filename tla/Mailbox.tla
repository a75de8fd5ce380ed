------------------------------ MODULE Mailbox ------------------------------
(***************************************************************************)
(* What IIOServer::Post promises its callers when no job throws: one first *)
(* in, first out mailbox per server, whose jobs the server's thread runs   *)
(* one at a time, each exactly once and to completion.  The job that runs  *)
(* stays at the head of the mailbox until it has returned.                 *)
(* PostQueue.tla, the double buffered queue of the code, implements it.    *)
(***************************************************************************)
EXTENDS Sequences

CONSTANT Job          \* the closures (postio) that may be posted

VARIABLES
    queue,            \* jobs posted and not yet completed, oldest first
    running,          \* the head of queue is being executed
    done              \* jobs completed, in the order of completion

mvars == <<queue, running, done>>

MInit ==
    /\ queue = <<>>
    /\ running = FALSE
    /\ done = <<>>

\* Post(io): any thread, at any time, a running job included.
MPost(j) ==
    /\ queue' = Append(queue, j)
    /\ UNCHANGED <<running, done>>

MStart ==
    /\ ~running
    /\ queue # <<>>
    /\ running' = TRUE
    /\ UNCHANGED <<queue, done>>

MFinish ==
    /\ running
    /\ done' = Append(done, Head(queue))
    /\ queue' = Tail(queue)
    /\ running' = FALSE

MNext == (\E j \in Job : MPost(j)) \/ MStart \/ MFinish

MSpec == MInit /\ [][MNext]_mvars
=============================================================================
