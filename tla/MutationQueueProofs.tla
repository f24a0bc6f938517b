------------------------- MODULE MutationQueueProofs -------------------------
(***************************************************************************)
(* The safety of the mutation queue for every capacity, socket size, read  *)
(* chunk and number of mutations, and that it implements FifoService.      *)
(*                                                                         *)
(* QueueInv is inductive: to the invariants the runs check it adds where   *)
(* the worker and the UI thread can be once the queue is closed, and that  *)
(* the worker holds a mutation only while it executes it.                  *)
(***************************************************************************)
EXTENDS MutationQueue, SequenceTheorems, TLAPS

\* What a thread's position says about the rest of the queue.
PlacesOK ==
    /\ workerPc # "executing" => inHand = 0
    /\ workerPc = "exited" => pending = << >> /\ closed
    /\ reactor \in {"joining", "stopped"} => closed
    /\ reactor = "stopped" => workerPc = "exited"

QueueInv ==
    /\ TypeOK
    /\ ExactlyOnceInOrder
    /\ NoLostWake
    /\ SleepIsJustified
    /\ PlacesOK

-----------------------------------------------------------------------------
(* The two ends of a queue. *)

\* push_back: the queue is one longer, the new element is last and the others
\* keep their places.
LEMMA PutLemma ==
    ASSUME NEW q \in Seq(Nat), NEW id \in Nat
    PROVE  /\ Put(q, id) \in Seq(Nat)
           /\ Len(Put(q, id)) = Len(q) + 1
           /\ \A i \in 1 .. Len(q) + 1 :
                 Put(q, id)[i] = IF i = Len(q) + 1 THEN id ELSE q[i]
BY DEF Put

\* pop_front: the head is the first element, the tail is one shorter and its
\* elements move up one place.
LEMMA PopLemma ==
    ASSUME NEW q \in Seq(Nat), q # << >>
    PROVE  /\ Head(q) \in Nat
           /\ Head(q) = q[1]
           /\ Len(q) \in Nat \ {0}
           /\ Tail(q) \in Seq(Nat)
           /\ Len(Tail(q)) = Len(q) - 1
           /\ \A i \in 1 .. Len(q) - 1 : Tail(q)[i] = q[i + 1]
OBVIOUS

-----------------------------------------------------------------------------
(* The inductive invariant, one conjunct at a time. *)

\* The variables keep their types.
LEMMA TypeStep ==
    ASSUME TypeOK, [Next]_vars
    PROVE  TypeOK'
<1> USE QueueAssumption DEF TypeOK, WorkerPcs, ReactorPcs
<1>1. CASE Submit
  BY <1>1, PutLemma DEF Submit, NotifiedNever, Notified
<1>2. CASE WakeUp
  BY <1>2 DEF WakeUp, queueVars
<1>3. CASE PopResult
  BY <1>3, PopLemma DEF PopResult
<1>4. CASE ReadWake
  BY <1>4 DEF ReadWake, queueVars, UntilEmpty
<1>5. CASE DrainDone
  BY <1>5 DEF DrainDone, queueVars
<1>6. CASE Close
  BY <1>6 DEF Close, Notified
<1>7. CASE Join
  BY <1>7 DEF Join, queueVars
<1>8. CASE Take
  BY <1>8, PopLemma DEF Take
<1>9. CASE Sleep
  BY <1>9 DEF Sleep, queueVars
<1>10. CASE Exit
  BY <1>10 DEF Exit, queueVars
<1>11. CASE PushResult
  BY <1>11, PutLemma DEF PushResult
<1>12. CASE WriteWake
  BY <1>12 DEF WriteWake, Woken, queueVars
<1>13. CASE UNCHANGED vars
  BY <1>13 DEF vars
<1> QED
  BY <1>1, <1>2, <1>3, <1>4, <1>5, <1>6, <1>7, <1>8, <1>9, <1>10, <1>11,
     <1>12, <1>13 DEF Next, Worker, Drain

\* Every id stays in exactly one place, in submission order.
LEMMA OrderStep ==
    ASSUME TypeOK, PlacesOK, ExactlyOnceInOrder, [Next]_vars
    PROVE  ExactlyOnceInOrder'
<1>0. /\ pending \in Seq(Nat) /\ results \in Seq(Nat)
      /\ nextId \in Nat /\ delivered \in Nat /\ inHand \in Nat
      /\ Busy \in Nat /\ Len(results) \in Nat /\ Len(pending) \in Nat
  BY DEF TypeOK, Busy
<1>1. CASE Submit
  <2>1. /\ pending' = Put(pending, nextId) /\ nextId' = nextId + 1
        /\ results' = results /\ delivered' = delivered /\ inHand' = inHand
    BY <1>1 DEF Submit
  <2>2. /\ Busy' = Busy
        /\ (workerPc' = "executing") <=> (workerPc = "executing")
    BY <1>1 DEF Submit, Notified, Busy
  <2>3. nextId = delivered + Len(results) + Busy + Len(pending) + 1
    BY DEF ExactlyOnceInOrder
  <2>4. Len(pending') = Len(pending) + 1
    BY <1>0, <2>1, PutLemma
  <2>5. ASSUME NEW i \in 1 .. Len(pending')
        PROVE  pending'[i] = delivered + Len(results) + Busy + i
    <3>1. i \in 1 .. Len(pending) + 1
      BY <2>4
    <3>2. pending'[i] = IF i = Len(pending) + 1 THEN nextId ELSE pending[i]
      BY <1>0, <2>1, <3>1, PutLemma
    <3>3. CASE i = Len(pending) + 1
      BY <1>0, <2>3, <3>2, <3>3
    <3>4. CASE i # Len(pending) + 1
      <4>1. i \in 1 .. Len(pending) /\ pending'[i] = pending[i]
        BY <1>0, <3>1, <3>2, <3>4
      <4> QED
        BY <4>1 DEF ExactlyOnceInOrder
    <3> QED
      BY <3>3, <3>4
  <2>6. nextId' = delivered + Len(results) + Busy + Len(pending') + 1
    BY <1>0, <2>1, <2>3, <2>4
  <2> QED
    BY <2>1, <2>2, <2>5, <2>6 DEF ExactlyOnceInOrder
<1>2. CASE PopResult
  <2>1. /\ results' = Tail(results) /\ results # << >>
        /\ delivered' = results[1] /\ results[1] = delivered + 1
        /\ pending' = pending /\ nextId' = nextId /\ inHand' = inHand
        /\ workerPc' = workerPc /\ Busy' = Busy
    BY <1>0, <1>2, PopLemma DEF PopResult, ExactlyOnceInOrder, Busy
  <2>2. Len(results') = Len(results) - 1
    BY <1>0, <2>1, PopLemma
  <2>3. ASSUME NEW i \in 1 .. Len(results')
        PROVE  results'[i] = delivered' + i
    <3>1. i + 1 \in 1 .. Len(results) /\ results'[i] = results[i + 1]
      BY <1>0, <2>1, <2>2, PopLemma
    <3> QED
      BY <1>0, <2>1, <3>1 DEF ExactlyOnceInOrder
  <2>4. delivered' + Len(results') = delivered + Len(results)
    BY <1>0, <2>1, <2>2
  <2> QED
    BY <2>1, <2>3, <2>4 DEF ExactlyOnceInOrder
<1>3. CASE Take
  <2>1. /\ pending' = Tail(pending) /\ pending # << >> /\ inHand' = pending[1]
        /\ results' = results /\ delivered' = delivered /\ nextId' = nextId
        /\ Busy = 0 /\ Busy' = 1
    BY <1>0, <1>3, PopLemma DEF Take, Busy
  <2>2. Len(pending') = Len(pending) - 1 /\ 1 \in 1 .. Len(pending)
    BY <1>0, <2>1, PopLemma
  <2>3. inHand' = delivered + Len(results) + 1
    BY <1>0, <2>1, <2>2 DEF ExactlyOnceInOrder
  <2>4. ASSUME NEW i \in 1 .. Len(pending')
        PROVE  pending'[i] = delivered + Len(results) + 1 + i
    <3>1. i + 1 \in 1 .. Len(pending) /\ pending'[i] = pending[i + 1]
      BY <1>0, <2>1, <2>2, PopLemma
    <3> QED
      BY <1>0, <2>1, <3>1 DEF ExactlyOnceInOrder
  <2>5. nextId' = delivered + Len(results) + 1 + Len(pending') + 1
    BY <1>0, <2>1, <2>2 DEF ExactlyOnceInOrder
  <2> QED
    BY <2>1, <2>3, <2>4, <2>5 DEF ExactlyOnceInOrder
<1>4. CASE PushResult
  <2>1. /\ results' = Put(results, inHand) /\ pending' = pending
        /\ nextId' = nextId /\ delivered' = delivered
        /\ Busy = 1 /\ Busy' = 0 /\ workerPc' # "executing"
    BY <1>4 DEF PushResult, Busy
  <2>2. inHand = delivered + Len(results) + 1
    BY <1>4 DEF PushResult, ExactlyOnceInOrder
  <2>3. Len(results') = Len(results) + 1
    BY <1>0, <2>1, PutLemma
  <2>4. ASSUME NEW i \in 1 .. Len(results')
        PROVE  results'[i] = delivered + i
    <3>1. i \in 1 .. Len(results) + 1
      BY <2>3
    <3>2. results'[i] = IF i = Len(results) + 1 THEN inHand ELSE results[i]
      BY <1>0, <2>1, <3>1, PutLemma
    <3>3. CASE i = Len(results) + 1
      BY <1>0, <2>2, <3>2, <3>3
    <3>4. CASE i # Len(results) + 1
      <4>1. i \in 1 .. Len(results) /\ results'[i] = results[i]
        BY <1>0, <3>1, <3>2, <3>4
      <4> QED
        BY <4>1 DEF ExactlyOnceInOrder
    <3> QED
      BY <3>3, <3>4
  <2>5. delivered' + Len(results') + Busy' = delivered + Len(results) + Busy
    BY <1>0, <2>1, <2>3
  <2> QED
    BY <2>1, <2>4, <2>5 DEF ExactlyOnceInOrder
<1>5. CASE WakeUp \/ ReadWake \/ DrainDone \/ Join
  BY <1>5 DEF WakeUp, ReadWake, DrainDone, Join, queueVars, ExactlyOnceInOrder,
              Busy
<1>6. CASE Close
  BY <1>6 DEF Close, Notified, ExactlyOnceInOrder, Busy
<1>7. CASE Sleep \/ Exit \/ WriteWake
  BY <1>7 DEF Sleep, Exit, WriteWake, queueVars, ExactlyOnceInOrder, Busy
<1>8. CASE UNCHANGED vars
  BY <1>8 DEF vars, ExactlyOnceInOrder, Busy
<1> QED
  BY <1>1, <1>2, <1>3, <1>4, <1>5, <1>6, <1>7, <1>8 DEF Next, Worker, Drain

\* No wake-up is lost, on the wake socket or on pending_cv.
LEMMA WakeStep ==
    ASSUME TypeOK, NoLostWake, SleepIsJustified, [Next]_vars
    PROVE  NoLostWake' /\ SleepIsJustified'
<1> USE QueueAssumption DEF TypeOK, NoLostWake, SleepIsJustified, WorkerPcs
<1>1. CASE Submit
  BY <1>1 DEF Submit, Notified
<1>2. CASE WakeUp
  BY <1>2 DEF WakeUp, queueVars
<1>3. CASE PopResult
  BY <1>3 DEF PopResult
<1>4. CASE ReadWake
  BY <1>4 DEF ReadWake, queueVars, UntilEmpty
<1>5. CASE DrainDone
  BY <1>5 DEF DrainDone, queueVars
<1>6. CASE Close
  BY <1>6 DEF Close, Notified
<1>7. CASE Join
  BY <1>7 DEF Join, queueVars
<1>8. CASE Take
  BY <1>8 DEF Take
<1>9. CASE Sleep
  BY <1>9 DEF Sleep, queueVars
<1>10. CASE Exit
  BY <1>10 DEF Exit, queueVars
<1>11. CASE PushResult
  BY <1>11 DEF PushResult
<1>12. CASE WriteWake
  BY <1>12 DEF WriteWake, Woken, queueVars
<1>13. CASE UNCHANGED vars
  BY <1>13 DEF vars
<1> QED
  BY <1>1, <1>2, <1>3, <1>4, <1>5, <1>6, <1>7, <1>8, <1>9, <1>10, <1>11,
     <1>12, <1>13 DEF Next, Worker, Drain

\* The threads are where the state of the queue says they are.
LEMMA PlacesStep ==
    ASSUME TypeOK, PlacesOK, [Next]_vars
    PROVE  PlacesOK'
<1> USE DEF PlacesOK
<1>1. CASE Submit
  BY <1>1 DEF Submit, Notified
<1>2. CASE WakeUp \/ PopResult \/ ReadWake \/ DrainDone
  BY <1>2 DEF WakeUp, PopResult, ReadWake, DrainDone, UntilEmpty, queueVars
<1>3. CASE Close \/ Join
  BY <1>3 DEF Close, Join, Notified, queueVars
<1>4. CASE Take \/ Sleep \/ Exit
  BY <1>4 DEF Take, Sleep, Exit, Finished, queueVars
<1>5. CASE PushResult \/ WriteWake
  BY <1>5 DEF PushResult, WriteWake, queueVars
<1>6. CASE UNCHANGED vars
  BY <1>6 DEF vars
<1> QED
  BY <1>1, <1>2, <1>3, <1>4, <1>5, <1>6 DEF Next, Worker, Drain

LEMMA QueueInit == Init => QueueInv
<1> SUFFICES ASSUME Init
             PROVE  QueueInv
  OBVIOUS
<1> USE QueueAssumption DEF Init
<1>1. Len(pending) = 0 /\ Len(results) = 0
  OBVIOUS
<1>2. TypeOK
  <2>1. << >> \in Seq(Nat)
    BY EmptySeq
  <2>2. wake \in 0 .. PipeRoom
    OBVIOUS
  <2> QED
    BY <2>1, <2>2 DEF TypeOK, WorkerPcs, ReactorPcs
<1>3. ExactlyOnceInOrder
  BY <1>1 DEF ExactlyOnceInOrder, Busy
<1>4. NoLostWake /\ SleepIsJustified /\ PlacesOK
  BY DEF NoLostWake, SleepIsJustified, PlacesOK
<1> QED
  BY <1>2, <1>3, <1>4 DEF QueueInv

\* QueueInv is an invariant of the queue.
THEOREM Invariance == Spec => []QueueInv
<1>1. QueueInv /\ [Next]_vars => QueueInv'
  BY TypeStep, OrderStep, WakeStep, PlacesStep DEF QueueInv
<1> QED
  BY QueueInit, <1>1, PTL DEF Spec

-----------------------------------------------------------------------------
\* The variables have their types.
THEOREM TypeCorrect == Spec => []TypeOK
<1>1. QueueInv => TypeOK
  BY DEF QueueInv
<1> QED
  BY Invariance, <1>1, PTL

\* Every accepted mutation is in exactly one place, in submission order.
THEOREM ExactlyOnce == Spec => []ExactlyOnceInOrder
<1>1. QueueInv => ExactlyOnceInOrder
  BY DEF QueueInv
<1> QED
  BY Invariance, <1>1, PTL

\* The UI thread never blocks on an undelivered result without a wake byte.
THEOREM WakeNeverLost == Spec => []NoLostWake
<1>1. QueueInv => NoLostWake
  BY DEF QueueInv
<1> QED
  BY Invariance, <1>1, PTL

\* The worker never sleeps on a pending mutation or on a closed queue.
THEOREM WorkerSleepsJustified == Spec => []SleepIsJustified
<1>1. QueueInv => SleepIsJustified
  BY DEF QueueInv
<1> QED
  BY Invariance, <1>1, PTL

\* shutdown returns only when every accepted mutation has been executed.
THEOREM ShutdownIsDrained == Spec => []ShutdownDrains
<1>1. QueueInv => ShutdownDrains
  BY DEF QueueInv, PlacesOK, ShutdownDrains
<1> QED
  BY Invariance, <1>1, PTL

-----------------------------------------------------------------------------
\* Every step of the queue is a step of the service it promises, or none.
THEOREM Refinement == Spec => ImplementsService
<1>1. Init => Service!Init
  BY DEF Init, Service!Init
<1>2. ASSUME QueueInv, [Next]_vars
      PROVE  [Service!Next]_Service!vars
  <2> USE <1>2 DEF QueueInv, TypeOK, Service!Next, Service!vars
  <2>1. CASE Submit
    <3>1. Service!Accept
      BY <2>1 DEF Submit, Service!Accept
    <3> QED
      BY <3>1
  <2>2. CASE PopResult
    <3>1. /\ delivered' = delivered + 1 /\ delivered < nextId - 1
          /\ nextId' = nextId /\ closed' = closed
      BY <2>2, PopLemma DEF PopResult, ExactlyOnceInOrder, Busy
    <3>2. Service!Answer
      BY <3>1 DEF Service!Answer
    <3> QED
      BY <3>2
  <2>3. CASE Close
    <3>1. Service!Shut
      BY <2>3 DEF Close, Service!Shut
    <3> QED
      BY <3>1
  <2>4. CASE WakeUp \/ ReadWake \/ DrainDone \/ Join
    BY <2>4 DEF WakeUp, ReadWake, DrainDone, Join, queueVars
  <2>5. CASE Worker
    BY <2>5 DEF Worker, Take, Sleep, Exit, PushResult, WriteWake, queueVars
  <2>6. CASE UNCHANGED vars
    BY <2>6 DEF vars
  <2> QED
    BY <2>1, <2>2, <2>3, <2>4, <2>5, <2>6 DEF Next, Drain
<1> QED
  BY Invariance, <1>1, <1>2, PTL DEF Spec, ImplementsService, Service!Spec
=============================================================================
