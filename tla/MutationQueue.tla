---------------------------- MODULE MutationQueue ----------------------------
(***************************************************************************)
(* The control-mutation queue of a UI process: ControlMutationQueue of     *)
(* flamewm-control-core, the worker thread MutationDispatcher runs over it *)
(* and the reactor callback that drains its results.                       *)
(*                                                                         *)
(* The UI thread submits and drains; the worker takes, calls the control   *)
(* bus and pushes.  One action is one critical section of the queue's      *)
(* mutex, or one read or write of the wake socket pair, which the code     *)
(* does outside the mutex.  A mutation is its id; lane, request and        *)
(* outcome never change what the queue does and are left out.              *)
(***************************************************************************)
EXTENDS Naturals, Sequences

CONSTANTS
    Capacity,    \* bound on pending mutations, `capacity.max(1)`
    PipeRoom,    \* bytes the wake socket holds before a write would block
    ReadChunk,   \* bytes one drain step reads, 64 in the code
    MaxSubmit    \* bound of the model: mutations ever accepted

ASSUME QueueAssumption ==
    /\ Capacity \in Nat \ {0}
    /\ PipeRoom \in Nat \ {0}
    /\ ReadChunk \in Nat \ {0}
    /\ MaxSubmit \in Nat

VARIABLES
    pending,     \* QueueInner.pending: ids, oldest first
    results,     \* QueueInner.results: ids, oldest first
    nextId,      \* QueueInner.next_id
    closed,      \* QueueInner.closed
    wake,        \* unread bytes in the wake socket
    workerPc,    \* where the worker thread is
    inHand,      \* the mutation the worker executes, 0 when none
    reactor,     \* where the UI thread is
    delivered    \* id of the last result the drain loop popped

queueVars == <<pending, results, nextId, closed>>
vars == <<pending, results, nextId, closed, wake, workerPc, inHand,
          reactor, delivered>>

WorkerPcs == {"taking", "waiting", "executing", "waking", "exited"}
ReactorPcs == {"blocked", "draining", "popped", "joining", "stopped"}

Init ==
    /\ pending = << >>
    /\ results = << >>
    /\ nextId = 1
    /\ closed = FALSE
    /\ wake = 0
    /\ workerPc = "taking"
    /\ inHand = 0
    /\ reactor = "blocked"
    /\ delivered = 0

-----------------------------------------------------------------------------
(* The UI thread.  It is inside `dispatch` ("blocked") except while the    *)
(* wake callback drains, or while shutdown joins the worker.               *)

NotifiedNever == workerPc

\* What notify does to a worker asleep on pending_cv.
Notified == IF workerPc = "waiting" THEN "taking" ELSE workerPc

PutFirst(q, id) == <<id>> \o q

\* push_back on either queue.
Put(q, id) == Append(q, id)

\* A UI event submits a mutation.  A closed or full queue answers Busy and
\* changes nothing, so only the accepted submission is a step.
Submit ==
    /\ reactor = "blocked"
    /\ ~closed
    /\ Len(pending) < Capacity
    /\ nextId <= MaxSubmit
    /\ pending' = Put(pending, nextId)
    /\ nextId' = nextId + 1
    /\ workerPc' = Notified
    /\ UNCHANGED <<results, closed, wake, inHand, reactor, delivered>>

\* The wake fd is registered level-triggered: any unread byte runs the drain.
WakeUp ==
    /\ reactor = "blocked"
    /\ wake > 0
    /\ reactor' = "draining"
    /\ UNCHANGED <<queueVars, wake, workerPc, inHand, delivered>>

\* try_recv_result, its critical section: the oldest result leaves the queue.
PopResult ==
    /\ reactor = "draining"
    /\ results # << >>
    /\ results' = Tail(results)
    /\ delivered' = Head(results)
    /\ reactor' = "popped"
    /\ UNCHANGED <<pending, nextId, closed, wake, workerPc, inHand>>

OneResult == "blocked"

\* The drain callback keeps asking until there is no result left.
UntilEmpty == "draining"

\* try_recv_result after the unlock: a popped result reads up to ReadChunk
\* wake bytes, and finding none is not an error.
ReadWake ==
    /\ reactor = "popped"
    /\ wake' = IF wake > ReadChunk THEN wake - ReadChunk ELSE 0
    /\ reactor' = UntilEmpty
    /\ UNCHANGED <<queueVars, workerPc, inHand, delivered>>

\* try_recv_result finds nothing: no byte is read, the drain loop ends.
DrainDone ==
    /\ reactor = "draining"
    /\ results = << >>
    /\ reactor' = "blocked"
    /\ UNCHANGED <<queueVars, wake, workerPc, inHand, delivered>>

\* MutationDispatcher::shutdown, also run by Drop: close, then join.
Close ==
    /\ reactor = "blocked"
    /\ closed' = TRUE
    /\ workerPc' = Notified
    /\ reactor' = "joining"
    /\ UNCHANGED <<pending, results, nextId, wake, inHand, delivered>>

Join ==
    /\ reactor = "joining"
    /\ workerPc = "exited"
    /\ reactor' = "stopped"
    /\ UNCHANGED <<queueVars, wake, workerPc, inHand, delivered>>

-----------------------------------------------------------------------------
(* The worker thread. *)

\* take_pending pops the oldest mutation.
Take ==
    /\ workerPc = "taking"
    /\ pending # << >>
    /\ pending' = Tail(pending)
    /\ inHand' = Head(pending)
    /\ workerPc' = "executing"
    /\ UNCHANGED <<results, nextId, closed, wake, reactor, delivered>>

\* take_pending finds nothing and releases the mutex to wait for a notify.
Sleep ==
    /\ workerPc = "taking"
    /\ pending = << >>
    /\ ~closed
    /\ workerPc' = "waiting"
    /\ UNCHANGED <<queueVars, wake, inHand, reactor, delivered>>

FinishedAtOnce == closed

\* take_pending returns None: closed, and the pending work is done.
Finished == pending = << >> /\ closed

Exit ==
    /\ workerPc = "taking"
    /\ Finished
    /\ workerPc' = "exited"
    /\ UNCHANGED <<queueVars, wake, inHand, reactor, delivered>>

\* push_result, its critical section, once the bus call has returned.
PushResult ==
    /\ workerPc = "executing"
    /\ results' = Put(results, inHand)
    /\ inHand' = 0
    /\ workerPc' = "waking"
    /\ UNCHANGED <<pending, nextId, closed, wake, reactor, delivered>>

WokenNever == wake

\* One wake byte; a full socket drops it.
Woken == IF wake < PipeRoom THEN wake + 1 ELSE wake

\* push_result after the unlock.
WriteWake ==
    /\ workerPc = "waking"
    /\ wake' = Woken
    /\ workerPc' = "taking"
    /\ UNCHANGED <<queueVars, inHand, reactor, delivered>>

Worker == Take \/ Sleep \/ Exit \/ PushResult \/ WriteWake
Drain == WakeUp \/ PopResult \/ ReadWake \/ DrainDone

Next == Worker \/ Drain \/ Submit \/ Close \/ Join

\* The threads are scheduled and a bus call returns (libdbus bounds it with a
\* timeout); nobody has to submit or to close.
Fairness == WF_vars(Worker) /\ WF_vars(Drain) /\ WF_vars(Join)

Spec == Init /\ [][Next]_vars /\ Fairness

-----------------------------------------------------------------------------
(* Properties. *)

\* The variables have their types.
TypeOK ==
    /\ pending \in Seq(Nat)
    /\ results \in Seq(Nat)
    /\ nextId \in Nat
    /\ closed \in BOOLEAN
    /\ wake \in 0 .. PipeRoom
    /\ workerPc \in WorkerPcs
    /\ inHand \in Nat
    /\ reactor \in ReactorPcs
    /\ delivered \in Nat

Busy == IF workerPc = "executing" THEN 1 ELSE 0

\* Every accepted id is in exactly one place, and reading the places from
\* "delivered" through results, the worker's hand and pending gives all ids
\* in submission order: none is lost, repeated or overtaken on its way through
\* the two queues (MutationLane: "always complete in submission order").
ExactlyOnceInOrder ==
    /\ \A i \in 1 .. Len(results) : results[i] = delivered + i
    /\ workerPc = "executing" => inHand = delivered + Len(results) + 1
    /\ \A i \in 1 .. Len(pending) :
          pending[i] = delivered + Len(results) + Busy + i
    /\ nextId = delivered + Len(results) + Busy + Len(pending) + 1

\* The UI thread never blocks on an undelivered result without a wake byte in
\* the socket or the worker about to write one, although the pop and the read
\* of the byte, and the push and its write, are separate critical sections.
NoLostWake ==
    reactor = "blocked" /\ results # << >> => wake > 0 \/ workerPc = "waking"

\* The worker sleeps only while there is nothing to take and the queue is
\* open: no submit and no close misses its notify on pending_cv.
SleepIsJustified == workerPc = "waiting" => pending = << >> /\ ~closed

\* shutdown returns only after every accepted mutation was executed: the
\* worker exits on an empty, closed queue and nothing is accepted later.
ShutdownDrains ==
    reactor = "stopped" => pending = << >> /\ inHand = 0 /\ workerPc = "exited"

\* The queue implements the promise: nextId - 1 mutations accepted, delivered
\* of them answered.
Service == INSTANCE FifoService
             WITH accepted <- nextId - 1, answered <- delivered, shut <- closed
ImplementsService == Service!Spec

\* Every accepted mutation is eventually answered on the UI thread, unless the
\* dispatcher is shut down first.
AcceptedIsAnswered ==
    \A i \in 1 .. MaxSubmit : nextId > i ~> (delivered >= i \/ closed)

\* shutdown never hangs: the join always returns.
ShutdownReturns == reactor = "joining" ~> reactor = "stopped"

\* Once nothing is submitted any more the UI thread comes to rest in its
\* reactor: either it stays blocked with no wake byte left or it is shut down.
\* README.md: "effectively idle when no user/system event occurs".
ComesToRest == <>[](wake = 0 \/ closed)
=============================================================================
