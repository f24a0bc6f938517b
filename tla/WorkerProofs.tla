----------------------------- MODULE WorkerProofs -----------------------------
(***************************************************************************)
(* The two worker threads, whose results come late: the icon loader of the *)
(* shell, and the thread that captures what lies below a snap preview.     *)
(*                                                                         *)
(* For every number of slots, every set of names and every size of the two *)
(* channels, no icon is beside the label of another application; for every *)
(* set of candidates and any number of generations, no preview shows a     *)
(* picture that was captured for another.                                  *)
(*                                                                         *)
(* A binding counts only in the view epoch in which it was made, and one   *)
(* projection passes each slot once.  So the slot of a binding that counts *)
(* has been passed, and nothing has changed its label since.               *)
(***************************************************************************)
EXTENDS IconPipeline, SnapPreview, TLAPS

Passed(s) == at = 0 \/ at > s

BindingsAreLive ==
    \A s \in SlotIds :
        /\ binding[s].epoch <= epoch
        /\ binding[s].epoch = epoch => Passed(s) /\ label[s] = binding[s].name

\* A projection of the slots that is due has room in the bound.
RoomToProject == "windows" \in dirty => epoch < MaxEpoch

IconInv == TypeOK /\ BindingsAreLive /\ RightIcon

Job == SlotIds \X Names

-----------------------------------------------------------------------------
(* The channels. *)

\* What is sent is a job, and the channel keeps its size.
LEMMA SendJob ==
    ASSUME NEW q \in Seq(Job), NEW j \in Job, NEW room \in Nat, Len(q) < room
    PROVE  Append(q, j) \in Seq(Job) /\ Len(Append(q, j)) <= room
  OBVIOUS

\* What is received is a job.
LEMMA ReceiveJob ==
    ASSUME NEW q \in Seq(Job), q # << >>, NEW room \in Nat, Len(q) <= room
    PROVE  Head(q) \in Job /\ Tail(q) \in Seq(Job) /\ Len(Tail(q)) <= room
  <1>1. Len(Tail(q)) = Len(q) - 1 /\ Len(q) \in Nat
    OBVIOUS
  <1> QED
    BY <1>1

-----------------------------------------------------------------------------
(* Every step keeps the invariant. *)

\* Nothing is shown, bound or sent at the start.
THEOREM InitIcons == Init => IconInv
  <1> SUFFICES ASSUME Init PROVE IconInv
    OBVIOUS
  <1>1. /\ requests \in Seq(SlotIds \X Names) /\ Len(requests) <= RequestRoom
        /\ results \in Seq(SlotIds \X Names) /\ Len(results) <= ResultRoom
    BY IconAssumption DEF Init
  <1>2. /\ view \in [SlotIds -> Names \cup {Empty}]
        /\ label \in [SlotIds -> Names \cup {Empty}]
        /\ onPanel \subseteq SlotIds
        /\ shows \in [SlotIds -> Names \cup {Empty}]
        /\ \A s \in SlotIds : shows[s] = Empty
    BY DEF Init, Strips, Filled
  <1>3. /\ NoBinding \in [name : Names \cup {Empty}, epoch : 0 .. MaxEpoch]
        /\ NoBinding.name = Empty
    BY IconAssumption DEF NoBinding
  <1>4. /\ binding \in [SlotIds -> [name : Names \cup {Empty}, epoch : 0 .. MaxEpoch]]
        /\ \A s \in SlotIds : binding[s].name = Empty /\ binding[s].epoch = 0
    BY <1>3 DEF Init, NoBinding
  <1>5. TypeOK
    <2>1. /\ epoch = 1 /\ dirty = {} /\ at = 0 /\ cache = {} /\ pending = {} /\ inHand = << >>
          /\ wake = FALSE /\ posting = FALSE /\ ui = "blocked"
      BY DEF Init
    <2>2. /\ epoch \in 0 .. MaxEpoch /\ at \in 0 .. Slots
          /\ dirty \subseteq {"windows", "panels"}
      BY <2>1, IconAssumption
    <2>3. /\ cache \subseteq Names \ Unresolved
          /\ pending \subseteq SlotIds \X Names
          /\ inHand \in (SlotIds \X Names) \cup {<< >>}
      BY <2>1
    <2>4. /\ wake \in BOOLEAN /\ posting \in BOOLEAN
          /\ ui \in {"blocked", "events", "draining", "refreshing"}
      BY <2>1
    <2> QED
      BY <1>1, <1>2, <1>4, <2>2, <2>3, <2>4 DEF TypeOK
  <1>6. BindingsAreLive /\ RightIcon
    BY <1>2, <1>4 DEF Init, BindingsAreLive, RightIcon, Passed
  <1> QED
    BY <1>5, <1>6 DEF IconInv

\* The projection goes to the next slot, or is at its end.
LEMMA StepOn ==
    ASSUME at \in SlotIds
    PROVE  /\ Step \in 0 .. Slots
           /\ Step = 0 \/ Step > at
           /\ \A s \in SlotIds : Passed(s) => s < at
  BY IconAssumption DEF Step, SlotIds, Passed

\* A slot changes its label in its turn only, and loses the old binding's
\* icon then.
LEMMA ProjectStep ==
    ASSUME IconInv, at # 0, at' = Step, epoch' = epoch,
           NEW n \in Names \cup {Empty},
           label' = [label EXCEPT ![at] = n],
           \/ shows' = shows /\ n = Empty
           \/ shows' = [shows EXCEPT ![at] = n]
           \/ shows' = [shows EXCEPT ![at] = Empty],
           \/ binding' = binding
           \/ binding' = [binding EXCEPT ![at] = [name |-> n, epoch |-> epoch]]
    PROVE  /\ BindingsAreLive' /\ RightIcon'
           /\ label' \in [SlotIds -> Names \cup {Empty}]
           /\ shows' \in [SlotIds -> Names \cup {Empty}]
           /\ binding' \in [SlotIds -> [name : Names \cup {Empty}, epoch : 0 .. MaxEpoch]]
           /\ at' \in 0 .. Slots
  <1>1. at \in SlotIds
    BY IconAssumption DEF IconInv, TypeOK, SlotIds
  <1>2. /\ label' \in [SlotIds -> Names \cup {Empty}]
        /\ shows' \in [SlotIds -> Names \cup {Empty}]
        /\ binding' \in [SlotIds -> [name : Names \cup {Empty}, epoch : 0 .. MaxEpoch]]
        /\ at' \in 0 .. Slots
    BY <1>1, StepOn DEF IconInv, TypeOK
  <1>3. RightIcon'
    BY <1>1, <1>2 DEF IconInv, TypeOK, RightIcon
  <1>4. ASSUME NEW s \in SlotIds PROVE binding'[s].epoch <= epoch
    BY <1>1, <1>2 DEF IconInv, TypeOK, BindingsAreLive
  <1>5. ASSUME NEW s \in SlotIds, binding'[s].epoch = epoch
        PROVE  (at' = 0 \/ at' > s) /\ label'[s] = binding'[s].name
    <2>1. CASE s = at /\ binding' # binding
      BY <1>1, <1>2, <2>1, StepOn DEF IconInv, TypeOK
    <2>2. CASE s = at /\ binding' = binding
      <3>1. binding[s].epoch # epoch
        BY <1>1, <2>2, StepOn DEF IconInv, BindingsAreLive, SlotIds
      <3> QED
        BY <1>5, <2>2, <3>1
    <2>3. CASE s # at
      <3>1. binding'[s] = binding[s] /\ label'[s] = label[s]
        BY <1>1, <2>3 DEF IconInv, TypeOK
      <3>2. Passed(s) /\ label[s] = binding[s].name
        BY <1>5, <3>1 DEF IconInv, BindingsAreLive
      <3>3. s < at
        BY <1>1, <3>2, StepOn
      <3> QED
        BY <1>1, <3>1, <3>2, <3>3, StepOn DEF SlotIds
    <2> QED
      BY <2>1, <2>2, <2>3
  <1>6. BindingsAreLive'
    BY <1>5, <1>4 DEF BindingsAreLive, Passed
  <1> QED
    BY <1>2, <1>3, <1>6

\* A projection that is due keeps its room until it is made.
LEMMA RoomStep == RoomToProject /\ [Next]_vars => RoomToProject'
  <1> SUFFICES ASSUME RoomToProject, [Next]_vars PROVE RoomToProject'
    OBVIOUS
  <1>1. ASSUME dirty' \subseteq dirty \/ dirty' = dirty \cup {"panels"},
               epoch' = epoch
        PROVE  RoomToProject'
    BY <1>1 DEF RoomToProject
  <1>2. CASE NoteWindows
    BY <1>2 DEF NoteWindows, RoomToProject
  <1>3. CASE Project
    BY <1>3 DEF Project, RoomToProject
  <1>4. CASE ProjectGeometry \/ Dispatch \/ Tick \/ Drained \/ Block \/ Apply \/ Worker
             \/ \E v \in Strips : NotePanels(v)
    BY <1>1, <1>4 DEF ProjectGeometry, Dispatch, Tick, Drained, Block, Apply, Worker,
                      Resolve, Finish, Announce, NotePanels, snapshot, uiVars
  <1>5. CASE Projecting
    BY <1>1, <1>5 DEF Projecting, ProjectNothing, ProjectCached, ProjectMissing,
                      snapshot
  <1>6. CASE UNCHANGED vars
    BY <1>1, <1>6 DEF vars, snapshot
  <1> QED
    BY <1>2, <1>3, <1>4, <1>5, <1>6 DEF Next, Turn, Signal

\* Every step of the UI thread and the worker keeps it.
THEOREM NextIcons == IconInv /\ RoomToProject /\ [Next]_vars => IconInv'
  <1> SUFFICES ASSUME IconInv, RoomToProject, [Next]_vars PROVE IconInv'
    OBVIOUS
  <1> USE DEF uiVars, workerVars, slots, snapshot
  <1>1. CASE Dispatch \/ Tick \/ Drained \/ Block
    BY <1>1 DEF Dispatch, Tick, Drained, Block, IconInv, TypeOK, BindingsAreLive,
                RightIcon, Passed
  <1>2. CASE Project
    <2>1. epoch < MaxEpoch
      BY <1>2 DEF Project, RoomToProject
    <2>2. BindingsAreLive'
      BY <1>2 DEF Project, IconInv, TypeOK, BindingsAreLive
    <2>3. TypeOK' /\ RightIcon'
      BY <1>2, <2>1, IconAssumption
      DEF Project, IconInv, TypeOK, RightIcon
    <2> QED
      BY <2>2, <2>3 DEF IconInv
  <1>11. CASE NoteWindows \/ ProjectGeometry
    BY <1>11 DEF NoteWindows, ProjectGeometry, Filled, IconInv, TypeOK,
                 BindingsAreLive, RightIcon, Passed
  <1>12. ASSUME NEW v \in Strips, NotePanels(v) PROVE IconInv'
    BY <1>12 DEF NotePanels, Strips, IconInv, TypeOK, BindingsAreLive, RightIcon,
                 Passed
  <1>3. CASE ProjectNothing
    <2>1. /\ BindingsAreLive' /\ RightIcon'
          /\ label' \in [SlotIds -> Names \cup {Empty}]
          /\ at' \in 0 .. Slots
      BY <1>3, ProjectStep DEF ProjectNothing
    <2>2. TypeOK'
      BY <1>3, <2>1 DEF ProjectNothing, IconInv, TypeOK
    <2> QED
      BY <2>1, <2>2 DEF IconInv
  <1>4. ASSUME NEW n \in Names, ProjectCached(n) PROVE IconInv'
    <2>1. /\ BindingsAreLive' /\ RightIcon'
          /\ label' \in [SlotIds -> Names \cup {Empty}]
          /\ shows' \in [SlotIds -> Names \cup {Empty}]
          /\ at' \in 0 .. Slots
      BY <1>4, ProjectStep DEF ProjectCached
    <2>2. TypeOK'
      BY <1>4, <2>1 DEF ProjectCached, IconInv, TypeOK
    <2> QED
      BY <2>1, <2>2 DEF IconInv
  <1>5. ASSUME NEW n \in Names, ProjectMissing(n) PROVE IconInv'
    <2>1. /\ BindingsAreLive' /\ RightIcon'
          /\ label' \in [SlotIds -> Names \cup {Empty}]
          /\ shows' \in [SlotIds -> Names \cup {Empty}]
          /\ binding' \in [SlotIds -> [name : Names \cup {Empty}, epoch : 0 .. MaxEpoch]]
          /\ at' \in 0 .. Slots
      BY <1>5, ProjectStep DEF ProjectMissing, Placeholder
    <2>2. <<at, n>> \in Job
      BY <1>5 DEF ProjectMissing, IconInv, TypeOK, Job, SlotIds
    <2>3. /\ requests' \in Seq(Job) /\ Len(requests') <= RequestRoom
          /\ pending' \subseteq Job
      BY <1>5, <2>2, SendJob, IconAssumption
      DEF ProjectMissing, IconInv, TypeOK, Job
    <2>4. TypeOK'
      BY <1>5, <2>1, <2>3 DEF ProjectMissing, IconInv, TypeOK, Job
    <2> QED
      BY <2>1, <2>4 DEF IconInv
  <1>6. CASE Apply
    <2> DEFINE s == Head(results)[1]
               n == Head(results)[2]
    <2>1. /\ Head(results) \in Job
          /\ results' \in Seq(Job) /\ Len(results') <= ResultRoom
      BY <1>6, ReceiveJob, IconAssumption DEF Apply, IconInv, TypeOK, Job
    <2>2. s \in SlotIds /\ n \in Names
      BY <2>1 DEF Job
    <2>3. /\ pending' = pending \ {<<s, n>>}
          /\ cache' = IF n \notin Unresolved THEN cache \cup {n} ELSE cache
          /\ shows' = IF n \notin Unresolved /\ Bound(s, n)
                      THEN [shows EXCEPT ![s] = n] ELSE shows
          /\ UNCHANGED <<view, dirty, label, onPanel, binding, epoch, ui, at,
                         requests, wake, inHand, posting>>
      BY <1>6 DEF Apply
    <2> HIDE DEF s, n
    <2>4. Bound(s, n) => label[s] = n
      BY <2>2 DEF Bound, IconInv, BindingsAreLive
    <2>5. TypeOK'
      BY <2>1, <2>2, <2>3 DEF IconInv, TypeOK, Job
    <2>6. RightIcon' /\ BindingsAreLive'
      BY <2>2, <2>3, <2>4 DEF IconInv, TypeOK, RightIcon, BindingsAreLive, Passed
    <2> QED
      BY <2>5, <2>6 DEF IconInv
  <1>7. CASE Resolve
    <2>1. /\ inHand' \in Job
          /\ requests' \in Seq(Job) /\ Len(requests') <= RequestRoom
      BY <1>7, ReceiveJob, IconAssumption DEF Resolve, IconInv, TypeOK, Job
    <2> QED
      BY <1>7, <2>1 DEF Resolve, IconInv, TypeOK, Job, BindingsAreLive, RightIcon, Passed
  <1>8. CASE Finish
    <2>1. results' \in Seq(Job) /\ Len(results') <= ResultRoom
      BY <1>8, SendJob, IconAssumption DEF Finish, IconInv, TypeOK, Job
    <2> QED
      BY <1>8, <2>1 DEF Finish, IconInv, TypeOK, Job, BindingsAreLive, RightIcon, Passed
  <1>9. CASE Announce
    BY <1>9 DEF Announce, Post, IconInv, TypeOK, BindingsAreLive, RightIcon, Passed
  <1>10. CASE UNCHANGED vars
    BY <1>10 DEF vars, IconInv, TypeOK, BindingsAreLive, RightIcon, Passed
  <1> QED
    BY <1>1, <1>2, <1>3, <1>4, <1>5, <1>6, <1>7, <1>8, <1>9, <1>10, <1>11, <1>12
    DEF Next, Worker, Turn, Signal, Projecting

\* The invariant holds in every reachable state (async_projection.rs: a binding
\* that counts is one of this view epoch).
THEOREM IconInvariance == Spec => []IconInv
  <1>1. Init => RoomToProject
    BY DEF Init, RoomToProject
  <1> QED
    BY <1>1, RoomStep, InitIcons, NextIcons, PTL DEF Spec

\* The variables keep their types, and both channels their size.
THEOREM IconTypeCorrect == Spec => []TypeOK
  <1>1. IconInv => TypeOK
    BY DEF IconInv
  <1> QED
    BY <1>1, IconInvariance, PTL

\* The icon beside a label is the one of the label's application, however late
\* a result comes.
THEOREM IconIsRight == Spec => []RightIcon
  <1>1. IconInv => RightIcon
    BY DEF IconInv
  <1> QED
    BY <1>1, IconInvariance, PTL

-----------------------------------------------------------------------------
(* One resolve per key.  A key that is pending is in one place at most, so a *)
(* key that is asked for anew is nowhere, and one that is applied is gone.   *)

LEMMA SendKey ==
    ASSUME NEW q \in Seq(Job), NEW j \in Job, j \notin Range(q), IsInjective(q)
    PROVE  /\ Range(Append(q, j)) = Range(q) \cup {j}
           /\ IsInjective(Append(q, j))
  <1>1. /\ DOMAIN q = 1 .. Len(q) /\ Len(q) \in Nat
        /\ DOMAIN Append(q, j) = 1 .. Len(q) + 1
        /\ Append(q, j)[Len(q) + 1] = j
        /\ \A i \in 1 .. Len(q) : Append(q, j)[i] = q[i]
    OBVIOUS
  <1>2. \A i \in 1 .. Len(q) + 1 : i \in 1 .. Len(q) \/ i = Len(q) + 1
    BY <1>1
  <1> QED
    BY <1>1, <1>2 DEF Range, IsInjective

LEMMA ReceiveKey ==
    ASSUME NEW q \in Seq(Job), q # << >>, IsInjective(q)
    PROVE  /\ Range(q) = Range(Tail(q)) \cup {Head(q)}
           /\ Head(q) \notin Range(Tail(q))
           /\ IsInjective(Tail(q))
  <1>1. /\ DOMAIN q = 1 .. Len(q) /\ Len(q) \in Nat \ {0}
        /\ DOMAIN Tail(q) = 1 .. Len(q) - 1
        /\ Head(q) = q[1]
        /\ \A i \in 1 .. Len(q) - 1 : Tail(q)[i] = q[i + 1]
    OBVIOUS
  <1>2. \A i \in 1 .. Len(q) : i = 1 \/ (i - 1 \in 1 .. Len(q) - 1 /\ (i - 1) + 1 = i)
    BY <1>1
  <1>3. \A i \in 1 .. Len(q) - 1 : i + 1 \in 1 .. Len(q) /\ i + 1 # 1
    BY <1>1
  <1>4. Range(q) = Range(Tail(q)) \cup {Head(q)}
    <2>1. ASSUME NEW i \in 1 .. Len(q)
          PROVE  q[i] \in Range(Tail(q)) \cup {Head(q)}
      <3>1. CASE i = 1
        BY <1>1, <3>1
      <3>2. CASE i - 1 \in 1 .. Len(q) - 1 /\ (i - 1) + 1 = i
        <4>1. Tail(q)[i - 1] = q[i]
          BY <1>1, <3>2
        <4> QED
          BY <1>1, <3>2, <4>1 DEF Range
      <3> QED
        BY <1>2, <3>1, <3>2
    <2>2. ASSUME NEW i \in 1 .. Len(q) - 1
          PROVE  Tail(q)[i] \in Range(q)
      BY <1>1, <1>3 DEF Range
    <2>3. Head(q) \in Range(q)
      BY <1>1 DEF Range
    <2> QED
      BY <1>1, <2>1, <2>2, <2>3 DEF Range
  <1>5. Head(q) \notin Range(Tail(q))
    BY <1>1, <1>3 DEF Range, IsInjective
  <1>6. ASSUME NEW a \in DOMAIN Tail(q), NEW b \in DOMAIN Tail(q),
               Tail(q)[a] = Tail(q)[b]
        PROVE  a = b
    <2>1. a + 1 \in DOMAIN q /\ b + 1 \in DOMAIN q /\ q[a + 1] = q[b + 1]
      BY <1>1, <1>3, <1>6
    <2>2. a + 1 = b + 1 /\ a \in Nat /\ b \in Nat
      BY <1>1, <2>1 DEF IsInjective
    <2> QED
      BY <2>2
  <1> QED
    BY <1>4, <1>5, <1>6 DEF IsInjective

LEMMA InitKeys == Init => OneResolvePerKey
  <1> SUFFICES ASSUME Init PROVE OneResolvePerKey
    OBVIOUS
  <1>1. requests = << >> /\ results = << >> /\ InHand = {}
    BY DEF Init, InHand
  <1>2. Range(<< >>) = {} /\ IsInjective(<< >>)
    BY DEF Range, IsInjective
  <1> QED
    BY <1>1, <1>2 DEF OneResolvePerKey

LEMMA NextKeys == TypeOK /\ OneResolvePerKey /\ [Next]_vars => OneResolvePerKey'
  <1> SUFFICES ASSUME TypeOK, OneResolvePerKey, [Next]_vars PROVE OneResolvePerKey'
    OBVIOUS
  <1> USE DEF uiVars, workerVars, slots, snapshot
  <1>1. ASSUME UNCHANGED <<pending, requests, results, inHand>>
        PROVE  OneResolvePerKey'
    BY <1>1 DEF OneResolvePerKey, InHand
  <1>2. CASE Dispatch \/ Tick \/ Drained \/ Block \/ Project \/ ProjectNothing
             \/ ProjectGeometry \/ NoteWindows \/ Announce \/ \E v \in Strips : NotePanels(v)
    BY <1>1, <1>2 DEF Dispatch, Tick, Drained, Block, Project, ProjectNothing,
                      ProjectGeometry, NoteWindows, NotePanels, Announce
  <1>3. ASSUME NEW n \in Names, ProjectCached(n) PROVE OneResolvePerKey'
    BY <1>1, <1>3 DEF ProjectCached
  <1>4. ASSUME NEW n \in Names, ProjectMissing(n) PROVE OneResolvePerKey'
    <2> DEFINE j == <<at, n>>
    <2>1. j \in Job /\ requests \in Seq(Job)
      BY <1>4 DEF ProjectMissing, TypeOK, Job, SlotIds
    <2>2. UNCHANGED <<results, inHand>>
      BY <1>4 DEF ProjectMissing
    <2>3. CASE UNCHANGED <<requests, pending>>
      BY <1>1, <2>2, <2>3
    <2>4. CASE j \notin pending /\ requests' = Append(requests, j)
               /\ pending' = pending \cup {j}
      <3> HIDE DEF j
      <3>1. j \notin Range(requests) \cup InHand \cup Range(results)
        BY <2>4 DEF OneResolvePerKey
      <3>2. /\ Range(requests') = Range(requests) \cup {j} /\ IsInjective(requests')
        BY <2>1, <2>4, <3>1, SendKey DEF OneResolvePerKey
      <3>3. InHand' = InHand
        BY <2>2 DEF InHand
      <3> QED
        BY <2>2, <2>4, <3>1, <3>2, <3>3 DEF OneResolvePerKey
    <2> QED
      BY <1>4, <2>3, <2>4 DEF ProjectMissing, Wanted
  <1>5. CASE Apply
    <2> DEFINE j == Head(results)
    <2>1. results # << >> /\ results \in Seq(Job)
      BY <1>5 DEF Apply, TypeOK, Job
    <2>2. j \in Job /\ j = <<j[1], j[2]>>
      BY <2>1 DEF Job
    <2>3. /\ pending' = pending \ {j} /\ results' = Tail(results)
          /\ UNCHANGED <<requests, inHand>>
      BY <1>5, <2>2 DEF Apply
    <2>4. /\ Range(results) = Range(results') \cup {j} /\ j \notin Range(results')
          /\ IsInjective(results')
      BY <2>1, <2>3, ReceiveKey DEF OneResolvePerKey
    <2>5. InHand' = InHand
      BY <2>3 DEF InHand
    <2> HIDE DEF j
    <2> QED
      BY <2>3, <2>4, <2>5 DEF OneResolvePerKey
  <1>6. CASE Resolve
    <2> DEFINE j == Head(requests)
    <2>1. requests # << >> /\ requests \in Seq(Job)
      BY <1>6 DEF Resolve, TypeOK, Job
    <2>2. j \in Job /\ j # << >>
      BY <2>1 DEF Job
    <2>3. /\ inHand = << >> /\ inHand' = j /\ requests' = Tail(requests)
          /\ UNCHANGED <<pending, results>>
      BY <1>6 DEF Resolve
    <2>4. /\ Range(requests) = Range(requests') \cup {j} /\ j \notin Range(requests')
          /\ IsInjective(requests')
      BY <2>1, <2>3, ReceiveKey DEF OneResolvePerKey
    <2>5. InHand = {} /\ InHand' = {j}
      BY <2>2, <2>3 DEF InHand
    <2> HIDE DEF j
    <2> QED
      BY <2>3, <2>4, <2>5 DEF OneResolvePerKey
  <1>7. CASE Finish
    <2>1. /\ inHand # << >> /\ inHand \in Job /\ results \in Seq(Job)
          /\ inHand' = << >> /\ UNCHANGED <<pending, requests>>
      BY <1>7 DEF Finish, TypeOK, Job
    <2>2. InHand = {inHand} /\ InHand' = {}
      BY <2>1 DEF InHand
    <2>3. CASE results' = results
      BY <2>1, <2>2, <2>3 DEF OneResolvePerKey
    <2>4. CASE results' = Append(results, inHand)
      <3>1. inHand \notin Range(results)
        BY <2>2 DEF OneResolvePerKey
      <3>2. Range(results') = Range(results) \cup {inHand} /\ IsInjective(results')
        BY <2>1, <2>4, <3>1, SendKey DEF OneResolvePerKey
      <3> QED
        BY <2>1, <2>2, <3>2 DEF OneResolvePerKey
    <2> QED
      BY <1>7, <2>3, <2>4 DEF Finish
  <1>8. CASE UNCHANGED vars
    BY <1>1, <1>8 DEF vars
  <1> QED
    BY <1>2, <1>3, <1>4, <1>5, <1>6, <1>7, <1>8
    DEF Next, Worker, Turn, Signal, Projecting

\* No key is resolved twice at once, and what is on its way is pending
\* (IconLoader::request).
THEOREM IconResolvedOnce == Spec => []OneResolvePerKey
  BY InitKeys, NextKeys, IconTypeCorrect, PTL DEF Spec

\* The byte follows the result, and the thread reads bytes only before it takes
\* every result: only a result that came after the last drain can be left, and its
\* byte is still to come or unread.
LEMMA NextStranded ==
    NoResultIsStranded /\ [Next]_vars => NoResultIsStranded'
  <1> SUFFICES ASSUME NoResultIsStranded, [Next]_vars PROVE NoResultIsStranded'
    OBVIOUS
  <1> USE DEF NoResultIsStranded
  <1>1. CASE Dispatch \/ Project \/ Tick \/ Block \/ Projecting \/ ProjectGeometry \/ Signal
    BY <1>1 DEF Dispatch, Project, ProjectGeometry, Signal, NoteWindows, NotePanels, Tick, Block, Projecting, ProjectNothing,
                ProjectCached, ProjectMissing, workerVars
  <1>2. CASE Apply
    BY <1>2 DEF Apply
  <1>3. CASE Drained
    BY <1>3 DEF Drained
  <1>4. CASE Resolve
    BY <1>4 DEF Resolve, uiVars
  <1>5. CASE Finish
    BY <1>5 DEF Finish
  <1>6. CASE Announce
    BY <1>6 DEF Announce, Post
  <1>7. CASE UNCHANGED vars
    BY <1>7 DEF vars
  <1> QED
    BY <1>1, <1>2, <1>3, <1>4, <1>5, <1>6, <1>7 DEF Next, Worker, Turn

\* No finished icon waits for a wake that nobody sends (announce, drain_ready):
\* what ResultsAreDrained needs at every instant.
THEOREM IconWakeNeverLost == Spec => []NoResultIsStranded
  <1>1. Init => NoResultIsStranded
    BY DEF Init, NoResultIsStranded
  <1> QED
    BY <1>1, NextStranded, PTL DEF Spec

-----------------------------------------------------------------------------
(* The worker thread of the snap preview.  The generation of a request is its  *)
(* own, so of what is under way at any place only the request sent last can    *)
(* match the preview, however many it overtook.                                *)

\* A request under way is the one sent last, or older.
Overtaken(request) ==
    request # None =>
        /\ last # None
        /\ request = last \/ request.generation < last.generation

RequestsAreInOrder ==
    /\ Overtaken(mailbox) /\ Overtaken(job) /\ Overtaken(backdrop)
    /\ result # None => Overtaken(result.request)
    /\ last # None => last.generation <= generation

SnapInv ==
    /\ SnapTypeOK
    /\ worker = "capturing" => job # None
    /\ RequestsAreInOrder
    /\ BackdropIsCurrent

\* Nothing is asked for, shown or under way at the start.
THEOREM InitSnap == SnapInit => SnapInv
  <1> SUFFICES ASSUME SnapInit PROVE SnapInv
    OBVIOUS
  <1>1. generation \in 1 .. MaxGeneration + 1 /\ bytes \in 0 .. WakeRoom
    BY SnapAssumption DEF SnapInit
  <1>2. SnapTypeOK
    BY <1>1 DEF SnapInit, SnapTypeOK
  <1> QED
    BY <1>2 DEF SnapInit, SnapInv, RequestsAreInOrder, Overtaken,
                BackdropIsCurrent

\* A request is made with a generation of its own, which is the next one.
LEMMA SendSnap ==
    ASSUME SnapInv, NEW t \in Targets,
           generation < MaxGeneration, Request(t)
    PROVE  LET r == [generation |-> generation + 1, target |-> t] IN
           /\ r \in Requests /\ r # None
           /\ last' = r /\ mailbox' = r
           /\ worker' = Notified
           /\ worker # "locked"
           /\ UNCHANGED <<wm, stopped, bytes, result, job>>
  <1> DEFINE r == [generation |-> generation + 1, target |-> t]
  <1>1. generation \in Nat
    BY SnapAssumption DEF SnapInv, SnapTypeOK
  <1>2. r \in Requests /\ r # None
    BY <1>1, SnapAssumption DEF Requests
  <1>3. last # r
    <2>1. r.generation = generation + 1
      OBVIOUS
    <2> HIDE DEF r
    <2> QED
      BY <1>1, <1>2, <2>1 DEF SnapInv, RequestsAreInOrder
  <1> QED
    BY <1>2, <1>3 DEF Request, Sent

\* An update overtakes all that is under way, and shows no picture of it.
LEMMA UpdateSnap ==
    ASSUME SnapInv, NEW t \in Targets,
           UpdateShows(t) \/ UpdateFails(t)
    PROVE  SnapInv'
  <1> DEFINE r == [generation |-> generation + 1, target |-> t]
  <1>1. /\ r \in Requests /\ r # None
        /\ last' = r /\ mailbox' = r
        /\ worker' = Notified
        /\ UNCHANGED <<wm, stopped, bytes, result, job>>
    BY SendSnap DEF UpdateShows, UpdateFails
  <1>2. generation \in Nat /\ r.generation = generation + 1 /\ generation < MaxGeneration
    BY SnapAssumption DEF SnapInv, SnapTypeOK, UpdateShows, UpdateFails
  <1>3. \/ generation' = generation + 1 /\ target' = t /\ visible' = TRUE /\ backdrop' = None
        \/ /\ generation' = generation + 2 /\ target' = None /\ visible' = FALSE
           /\ backdrop' \in {backdrop, None}
    BY DEF UpdateShows, UpdateFails, Hidden
  <1>4. visible' => generation' = generation + 1 /\ target' = t /\ backdrop' = None
    BY <1>3
  <1>5. BackdropIsCurrent'
    BY <1>1, <1>4 DEF BackdropIsCurrent
  <1> HIDE DEF r
  <1>6. SnapTypeOK'
    <2>1. generation' \in 1 .. MaxGeneration + 1
      BY <1>2, <1>3, SnapAssumption
    <2>2. /\ target' \in Targets \cup {None} /\ visible' \in BOOLEAN
          /\ backdrop' \in Requests \cup {None}
      BY <1>3 DEF SnapInv, SnapTypeOK
    <2> QED
      BY <1>1, <2>1, <2>2 DEF SnapInv, SnapTypeOK, Notified
  <1>7. ASSUME NEW q \in Requests \cup {None}, Overtaken(q)
        PROVE  q # None => q = r \/ q.generation < r.generation
    BY <1>1, <1>2, <1>7 DEF Overtaken, SnapInv, RequestsAreInOrder, SnapTypeOK,
                            Requests
  <1>8. RequestsAreInOrder'
    <2>1. result # None => result.request \in Requests
      BY DEF SnapInv, SnapTypeOK, Results
    <2> QED
      BY <1>1, <1>2, <1>3, <1>7, <2>1
      DEF SnapInv, SnapTypeOK, RequestsAreInOrder, Overtaken
  <1>9. worker' = "capturing" => job' # None
    BY <1>1 DEF Notified, SnapInv
  <1> QED
    BY <1>5, <1>6, <1>8, <1>9 DEF SnapInv

\* A result that matches is for the request sent last.
LEMMA MatchSnap ==
    ASSUME SnapInv, result # None, Matches(result.request)
    PROVE  /\ result.request = last /\ result.request \in Requests
           /\ last = [generation |-> generation, target |-> target]
           /\ generation <= MaxGeneration
  <1>1. /\ result.request \in Requests
        /\ result.request.generation = generation
        /\ result.request = [generation |-> generation, target |-> target]
    BY DEF SnapInv, SnapTypeOK, Results, Matches
  <1>2. /\ last \in Requests /\ last.generation <= generation
        /\ result.request = last \/ generation < last.generation
    BY <1>1, SnapAssumption DEF SnapInv, SnapTypeOK, RequestsAreInOrder, Overtaken
  <1>3. generation \in 1 .. MaxGeneration /\ last.generation \in 1 .. MaxGeneration
    BY <1>1, <1>2 DEF Requests
  <1> QED
    BY <1>1, <1>2, <1>3, SnapAssumption

\* Every step of the WM thread and the worker keeps the order of the requests.
THEOREM NextSnap ==
    SnapInv /\ [SnapNext]_snapVars => SnapInv'
  <1> SUFFICES ASSUME SnapInv, [SnapNext]_snapVars
               PROVE  SnapInv'
    OBVIOUS
  <1> USE DEF preview, mail
  <1>1. CASE Hide
    <2>1. generation' \in 1 .. MaxGeneration + 1
      BY <1>1, SnapAssumption DEF Hide, Hidden, SnapInv, SnapTypeOK
    <2>2. last # None => last.generation <= generation'
      BY <1>1, SnapAssumption DEF Hide, Hidden, SnapInv, SnapTypeOK,
                  RequestsAreInOrder, Requests
    <2>3. UNCHANGED <<wm, stopped, bytes, last, mailbox, worker, job, result>>
      BY <1>1 DEF Hide
    <2>4. RequestsAreInOrder'
      <3>1. backdrop' \in {backdrop, None}  BY <1>1 DEF Hide, Hidden
      <3> QED  BY <2>2, <2>3, <3>1 DEF SnapInv, RequestsAreInOrder, Overtaken
    <2>5. SnapTypeOK'
      BY <1>1, <2>1, <2>3 DEF Hide, Hidden, SnapInv, SnapTypeOK
    <2>6. BackdropIsCurrent'
      BY <1>1, <2>3 DEF Hide, Hidden, SnapInv, BackdropIsCurrent
    <2> QED
      BY <2>3, <2>4, <2>5, <2>6 DEF SnapInv
  <1>2. CASE Update
    BY <1>2, UpdateSnap DEF Update
  <1>3. CASE DrainWake
    <2>1. bytes' \in 0 .. WakeRoom
      BY <1>3, SnapAssumption DEF DrainWake
    <2> QED
      BY <1>3, <2>1 DEF DrainWake, SnapInv, SnapTypeOK, RequestsAreInOrder,
                        Overtaken, BackdropIsCurrent
  <1>4. CASE TakeNothing
    <2>1. /\ result' = None /\ wm' = "blocked"
          /\ UNCHANGED <<preview, mail, stopped, bytes, worker, job>>
      BY <1>4 DEF TakeNothing, Take
    <2> QED
      BY <2>1 DEF SnapInv, SnapTypeOK, RequestsAreInOrder, Overtaken,
                  BackdropIsCurrent
  <1>5. CASE ByteWakes
    BY <1>5 DEF ByteWakes, SnapInv, SnapTypeOK, RequestsAreInOrder, Overtaken,
                BackdropIsCurrent
  <1>6. CASE OtherWakes
    BY <1>6 DEF OtherWakes, SnapInv, SnapTypeOK, RequestsAreInOrder, Overtaken,
                BackdropIsCurrent
  <1>7. CASE DropStops
    BY <1>7 DEF DropStops, SnapInv, SnapTypeOK, RequestsAreInOrder, Overtaken,
                BackdropIsCurrent
  <1>8. CASE DropJoins
    BY <1>8 DEF DropJoins, SnapInv, SnapTypeOK, RequestsAreInOrder, Overtaken,
                BackdropIsCurrent
  <1>9. CASE TakeShows
    <2>1. /\ backdrop' = last /\ visible' = TRUE /\ result' = None
          /\ last = [generation |-> generation, target |-> target]
          /\ last \in Requests
      BY <1>9, MatchSnap DEF TakeShows, Take
    <2> QED
      BY <1>9, <2>1 DEF TakeShows, Take, SnapInv, SnapTypeOK,
                        RequestsAreInOrder, Overtaken, BackdropIsCurrent
  <1>10. CASE TakeFails
    <2>1. /\ backdrop' \in {backdrop, last} /\ visible' = FALSE /\ result' = None
          /\ last \in Requests /\ generation <= MaxGeneration
          /\ generation' = generation + 1 /\ target' = None
      BY <1>10, MatchSnap DEF TakeFails, Take, Hidden
    <2>2. /\ generation' \in 1 .. MaxGeneration + 1
          /\ last.generation <= generation'
      BY <2>1, SnapAssumption DEF SnapInv, SnapTypeOK, RequestsAreInOrder,
                  Requests
    <2> QED
      BY <1>10, <2>1, <2>2 DEF TakeFails, Take, SnapInv, SnapTypeOK,
                        RequestsAreInOrder, Overtaken, BackdropIsCurrent
  <1>11. CASE DropNotifies \/ Lock \/ Sleep \/ WakeSpuriously
    BY <1>11 DEF DropNotifies, Notified, Lock, Sleep,
                WakeSpuriously, SnapInv, SnapTypeOK,
                RequestsAreInOrder, Overtaken, BackdropIsCurrent
  <1>12. CASE TakeRequest
    BY <1>12 DEF TakeRequest, SnapInv, SnapTypeOK,
                RequestsAreInOrder, Overtaken, BackdropIsCurrent
  <1>13. CASE Capture
    <2>1. PICK pixels \in BOOLEAN : result' = [request |-> job, pixels |-> pixels]
      BY <1>13 DEF Capture
    <2>2. job # None /\ job \in Requests
      BY <1>13 DEF Capture, SnapInv, SnapTypeOK
    <2>3. result' \in Results /\ result'.request = job
      BY <2>1, <2>2 DEF Results
    <2> QED
      BY <1>13, <2>2, <2>3 DEF Capture, SnapInv, SnapTypeOK,
                RequestsAreInOrder, Overtaken, BackdropIsCurrent
  <1>14. CASE Wake
    BY <1>14, SnapAssumption DEF Wake, Woken, SnapInv, SnapTypeOK,
                RequestsAreInOrder, Overtaken, BackdropIsCurrent
  <1>15. CASE UNCHANGED snapVars
    BY <1>15 DEF snapVars, SnapInv, SnapTypeOK,
                RequestsAreInOrder, Overtaken, BackdropIsCurrent
  <1> QED
    BY <1>1, <1>2, <1>3, <1>4, <1>5, <1>6, <1>7, <1>8, <1>9, <1>10, <1>11,
       <1>12, <1>13, <1>14, <1>15
    DEF SnapNext, SnapTurn, Drop, WorkerRuns

\* The order of the requests holds in every reachable state (try_send,
\* BackdropResult::matches).
THEOREM SnapInvariance == SnapSpec => []SnapInv
  <1>1. SnapInit => SnapInv
    BY InitSnap
  <1>2. SnapInv /\ [SnapNext]_snapVars => SnapInv'
    BY NextSnap
  <1> QED
    BY <1>1, <1>2, PTL DEF SnapSpec

\* Preview, mailbox, result and socket keep their types.
THEOREM SnapTypeCorrect == SnapSpec => []SnapTypeOK
  <1>1. SnapInv => SnapTypeOK
    BY DEF SnapInv
  <1> QED
    BY <1>1, SnapInvariance, PTL

\* A preview on the screen is the one requested last, and shows no picture that
\* was captured for another (test t12: late results mutate nothing).
THEOREM SnapIsCurrent ==
    SnapSpec => []BackdropIsCurrent
  <1>1. SnapInv => BackdropIsCurrent
    BY DEF SnapInv
  <1> QED
    BY <1>1, SnapInvariance, PTL

-----------------------------------------------------------------------------
(* Each request is captured once, and the preview is what is promised of it.   *)

\* A surface is on the screen as long as there is a candidate, which was asked for.
ShownIsWanted ==
    /\ visible <=> target # None
    /\ visible => last # None

\* What answers the drag, and the order in which requests pass.
PassInv == SnapInv /\ RequestsPassOnce /\ ShownIsWanted

LEMMA InitPass == SnapInit => PassInv
  BY InitSnap DEF SnapInit, PassInv, RequestsPassOnce, Before, Answered, ShownIsWanted

\* All that is under way is older than the generation of the preview.
LEMMA UnderWayIsOld ==
    ASSUME SnapInv, NEW q \in {backdrop, Answered, job, mailbox}, q # None
    PROVE  q \in Requests /\ q.generation <= generation
  <1>1. /\ backdrop \in Requests \cup {None} /\ job \in Requests \cup {None}
        /\ mailbox \in Requests \cup {None} /\ Answered \in Requests \cup {None}
    BY DEF SnapInv, SnapTypeOK, Results, Answered
  <1>2. Overtaken(backdrop) /\ Overtaken(Answered) /\ Overtaken(job) /\ Overtaken(mailbox)
    BY DEF SnapInv, RequestsAreInOrder, Overtaken, Answered
  <1>3. q \in Requests /\ Overtaken(q)
    BY <1>1, <1>2
  <1>4. last \in Requests /\ last.generation <= generation
    BY <1>3 DEF Overtaken, SnapInv, SnapTypeOK, RequestsAreInOrder
  <1>5. generation \in Nat
    BY SnapAssumption DEF SnapInv, SnapTypeOK
  <1>6. q.generation \in Nat /\ last.generation \in Nat
    BY <1>3, <1>4, SnapAssumption DEF Requests
  <1> QED
    BY <1>3, <1>4, <1>5, <1>6 DEF Overtaken

\* A new request is younger than all that is under way.
LEMMA UpdatePass ==
    ASSUME PassInv, NEW t \in Targets, UpdateShows(t) \/ UpdateFails(t)
    PROVE  RequestsPassOnce' /\ ShownIsWanted'
  <1> DEFINE r == [generation |-> generation + 1, target |-> t]
  <1>1. /\ r \in Requests /\ r # None /\ mailbox' = r /\ last' = r
        /\ UNCHANGED <<result, job>>
    BY SendSnap DEF UpdateShows, UpdateFails, PassInv
  <1>2. generation \in Nat /\ r.generation = generation + 1
    BY SnapAssumption DEF PassInv, SnapInv, SnapTypeOK
  <1> HIDE DEF r
  <1>3. backdrop' \in {backdrop, None}
    BY DEF UpdateShows, UpdateFails
  <1>4. Answered' = Answered
    BY <1>1 DEF Answered
  <1>5. ASSUME NEW q \in {backdrop, Answered, job}
        PROVE  Before(q, r)
    <2> SUFFICES ASSUME q # None PROVE q.generation < r.generation
      BY DEF Before
    <2>1. q \in Requests /\ q.generation <= generation
      BY <1>5, UnderWayIsOld DEF PassInv
    <2>2. q.generation \in Nat
      BY <2>1, SnapAssumption DEF Requests
    <2> QED
      BY <1>2, <2>1, <2>2
  <1>6. RequestsPassOnce'
    <2>1. /\ Before(backdrop, r) /\ Before(Answered, r) /\ Before(job, r)
      BY <1>5
    <2> QED
      BY <1>1, <1>3, <1>4, <2>1 DEF PassInv, RequestsPassOnce, Before
  <1>7. ShownIsWanted'
    BY <1>1, SnapAssumption DEF UpdateShows, UpdateFails, Hidden, ShownIsWanted
  <1> QED
    BY <1>6, <1>7

\* Every other step moves a request one place on, or drops it.
LEMMA NextPass == PassInv /\ [SnapNext]_snapVars => PassInv'
  <1> SUFFICES ASSUME PassInv, [SnapNext]_snapVars
               PROVE  RequestsPassOnce' /\ ShownIsWanted'
    BY NextSnap DEF PassInv
  <1> USE DEF preview, mail
  <1>1. CASE Hide
    BY <1>1 DEF Hide, Hidden, PassInv, RequestsPassOnce, Before, Answered, ShownIsWanted
  <1>2. CASE Update
    BY <1>2, UpdatePass DEF Update
  <1>3. CASE TakeNothing
    BY <1>3 DEF TakeNothing, Take, PassInv, RequestsPassOnce, Before, Answered,
                ShownIsWanted
  <1>4. CASE TakeShows
    <2>1. /\ backdrop' = Answered /\ result' = None /\ visible'
          /\ UNCHANGED <<mailbox, job, target, last>>
      BY <1>4 DEF TakeShows, Take, Answered
    <2>2. target # None
      BY <1>4, MatchSnap, SnapAssumption DEF TakeShows, PassInv, Requests
    <2> QED
      BY <2>1, <2>2 DEF PassInv, RequestsPassOnce, Before, Answered, ShownIsWanted
  <1>5. CASE TakeFails
    <2>1. /\ backdrop' \in {backdrop, Answered} /\ result' = None
          /\ UNCHANGED <<mailbox, job>> /\ target' = None /\ visible' = FALSE
      BY <1>5 DEF TakeFails, Take, Answered, Hidden
    <2> QED
      BY <2>1 DEF PassInv, RequestsPassOnce, Before, Answered, ShownIsWanted
  <1>6. CASE TakeRequest
    BY <1>6 DEF TakeRequest, PassInv, RequestsPassOnce, Before, Answered, ShownIsWanted
  <1>7. CASE Capture
    <2>1. PICK pixels \in BOOLEAN : result' = [request |-> job, pixels |-> pixels]
      BY <1>7 DEF Capture
    <2>2. Answered' \in {job, None}
      BY <2>1 DEF Answered
    <2> QED
      BY <1>7, <2>2 DEF Capture, PassInv, RequestsPassOnce, Before, ShownIsWanted
  <1>8. CASE UNCHANGED <<visible, target, backdrop, mailbox, last, result, job>>
    BY <1>8 DEF PassInv, RequestsPassOnce, Before, Answered, ShownIsWanted
  <1> QED
    BY <1>1, <1>2, <1>3, <1>4, <1>5, <1>6, <1>7, <1>8
    DEF SnapNext, SnapTurn, Drop, WorkerRuns, DrainWake, ByteWakes, OtherWakes,
        DropStops, DropNotifies, DropJoins, Lock, Sleep, WakeSpuriously, Wake, snapVars

THEOREM SnapPassInvariance == SnapSpec => []PassInv
  BY InitPass, NextPass, PTL DEF SnapSpec

\* A request that was sent is captured once at most, and never after a younger
\* one (try_send, worker_loop, take_result).
THEOREM SnapPassesOnce == SnapSpec => []RequestsPassOnce
  <1>1. PassInv => RequestsPassOnce
    BY DEF PassInv
  <1> QED
    BY <1>1, SnapPassInvariance, PTL

\* The mailbox and the slot of the result are overwritten only by what is younger,
\* so the newest request is never what is lost.
LEMMA NextNewest ==
    PassInv /\ NewestIsUnderWay /\ [SnapNext]_snapVars => NewestIsUnderWay'
  <1> SUFFICES ASSUME PassInv, NewestIsUnderWay, [SnapNext]_snapVars
               PROVE  NewestIsUnderWay'
    OBVIOUS
  <1> USE DEF preview, mail
  <1>1. CASE Hide
    BY <1>1 DEF Hide, Hidden, NewestIsUnderWay
  <1>2. CASE Update
    <2>1. PICK t \in Targets : UpdateShows(t) \/ UpdateFails(t)
      BY <1>2 DEF Update
    <2> DEFINE r == [generation |-> generation + 1, target |-> t]
    <2>2. /\ mailbox' = r /\ last' = r /\ worker' = Notified
          /\ UNCHANGED <<wm, bytes, result>>
      BY <2>1, SendSnap DEF UpdateShows, UpdateFails, PassInv
    <2> HIDE DEF r
    <2> QED
      BY <2>2 DEF NewestIsUnderWay, Notified
  <1>3. CASE DrainWake \/ ByteWakes \/ OtherWakes \/ DropStops \/ DropJoins
    BY <1>3 DEF DrainWake, ByteWakes, OtherWakes, DropStops, DropJoins,
                NewestIsUnderWay, Answered
  <1>4. CASE TakeNothing
    <2>1. visible => last # Answered \/ last = None
      BY <1>4 DEF TakeNothing, Answered, Matches, PassInv, SnapInv, BackdropIsCurrent
    <2>2. visible => last # None
      BY DEF PassInv, ShownIsWanted
    <2> QED
      BY <1>4, <2>1, <2>2 DEF TakeNothing, Take, NewestIsUnderWay
  <1>5. CASE TakeShows
    <2>1. /\ backdrop' = last /\ last' = last /\ result' = None
          /\ UNCHANGED <<mailbox, worker>>
      BY <1>5, MatchSnap DEF TakeShows, Take, PassInv
    <2> QED
      BY <2>1 DEF NewestIsUnderWay
  <1>6. CASE TakeFails
    BY <1>6 DEF TakeFails, Take, Hidden, NewestIsUnderWay
  <1>7. CASE DropNotifies \/ Lock \/ Sleep \/ WakeSpuriously
    BY <1>7 DEF DropNotifies, Notified, Lock, Sleep, WakeSpuriously,
                NewestIsUnderWay, Answered
  <1>8. CASE TakeRequest
    <2>1. visible => last # job \/ last = mailbox \/ job = None
      <3> SUFFICES ASSUME visible, last = job, job # None PROVE last = mailbox
        OBVIOUS
      <3>1. /\ mailbox # None /\ job.generation < mailbox.generation
            /\ Overtaken(mailbox) /\ last # None
        BY <1>8 DEF TakeRequest, PassInv, RequestsPassOnce, Before, SnapInv,
                    RequestsAreInOrder
      <3>2. mailbox \in Requests /\ last \in Requests
        BY <3>1 DEF PassInv, SnapInv, SnapTypeOK
      <3>3. mailbox.generation \in Nat /\ last.generation \in Nat
        BY <3>2, SnapAssumption DEF Requests
      <3> QED
        BY <3>1, <3>3 DEF Overtaken
    <2>2. visible => last # None
      BY DEF PassInv, ShownIsWanted
    <2> QED
      BY <1>8, <2>1, <2>2 DEF TakeRequest, NewestIsUnderWay, Answered
  <1>9. CASE Capture
    <2>1. job \in Requests /\ job # None
      BY <1>9 DEF Capture, PassInv, SnapInv, SnapTypeOK
    <2>2. Answered' = job
      <3>1. PICK pixels \in BOOLEAN : result' = [request |-> job, pixels |-> pixels]
        BY <1>9 DEF Capture
      <3>2. result'.request = job /\ result' \in Results
        BY <2>1, <3>1 DEF Results
      <3> QED
        BY <3>2, SnapAssumption DEF Answered
    <2>3. visible => last # Answered \/ last = None
      <3> SUFFICES ASSUME last = Answered, last # None PROVE FALSE
        OBVIOUS
      <3>1. Answered.generation < job.generation /\ Overtaken(job)
        BY <2>1 DEF PassInv, RequestsPassOnce, Before, SnapInv, RequestsAreInOrder
      <3>2. last \in Requests
        BY DEF PassInv, SnapInv, SnapTypeOK
      <3>3. job.generation \in Nat /\ last.generation \in Nat
        BY <2>1, <3>2, SnapAssumption DEF Requests
      <3> QED
        BY <2>1, <3>1, <3>3 DEF Overtaken
    <2>4. visible => last # None
      BY DEF PassInv, ShownIsWanted
    <2> QED
      BY <1>9, <2>2, <2>3, <2>4 DEF Capture, NewestIsUnderWay
  <1>10. CASE Wake
    <2>1. bytes' > 0
      BY <1>10, SnapAssumption DEF Wake, Woken, PassInv, SnapInv, SnapTypeOK
    <2> QED
      BY <1>10, <2>1 DEF Wake, NewestIsUnderWay, Answered
  <1>11. CASE UNCHANGED snapVars
    BY <1>11 DEF snapVars, NewestIsUnderWay, Answered
  <1> QED
    BY <1>1, <1>2, <1>3, <1>4, <1>5, <1>6, <1>7, <1>8, <1>9, <1>10, <1>11
    DEF SnapNext, SnapTurn, Drop, WorkerRuns

\* Neither the mailbox, the slot of the result nor the socket pair loses the newest
\* request, its answer or the wake for it (try_send, worker_loop, drain_worker):
\* what RequestIsAnswered needs at every instant.
THEOREM SnapNothingLost == SnapSpec => []NewestIsUnderWay
  <1>1. SnapInit => NewestIsUnderWay
    BY DEF SnapInit, NewestIsUnderWay
  <1> QED
    BY <1>1, NextNewest, SnapPassInvariance, PTL DEF SnapSpec

\* What becomes of the preview when it is hidden.
LEMMA HiddenForgets ==
    ASSUME visible' = FALSE, generation' \in {generation + 1, generation + 2}
    PROVE  Latest!Forget
  BY DEF Latest!Forget

\* Every step of the drag and of both threads is one of the preview that was
\* promised, or none: a late answer never brings a preview back, nor another
\* picture under one that is shown (update, drain_worker, hide_with_reason).
THEOREM SnapRefinement == SnapSpec => ImplementsLatest
  <1>1. SnapInit => Latest!Init
    BY DEF SnapInit, Latest!Init
  <1>2. PassInv /\ [SnapNext]_snapVars => [Latest!Next]_(Latest!vars)
    <2> SUFFICES ASSUME PassInv, [SnapNext]_snapVars
                 PROVE  [Latest!Next]_(Latest!vars)
      OBVIOUS
    <2> USE DEF preview, mail
    <2>1. CASE Hide
      <3>1. visible' = FALSE /\ generation' = generation + 1
        BY <2>1 DEF Hide, Hidden
      <3> QED
        BY <3>1, HiddenForgets DEF Latest!Next
    <2>2. ASSUME NEW t \in Targets, UpdateShows(t)
          PROVE  Latest!Ask(t)
      <3>1. last' = [generation |-> generation + 1, target |-> t]
        BY <2>2, SendSnap DEF UpdateShows, PassInv
      <3> QED
        BY <2>2, <3>1 DEF UpdateShows, Latest!Ask
    <2>3. ASSUME NEW t \in Targets, UpdateFails(t)
          PROVE  Latest!Forget
      <3>1. visible' = FALSE /\ generation' = generation + 2
        BY <2>3 DEF UpdateFails, Hidden
      <3> QED
        BY <3>1, HiddenForgets
    <2>4. CASE Update
      BY <2>2, <2>3, <2>4 DEF Update, Latest!Next
    <2>5. CASE TakeShows
      <3>1. /\ backdrop' = last /\ last' = last /\ generation' = generation
            /\ visible' = TRUE /\ last \in Requests
        BY <2>5, MatchSnap DEF TakeShows, Take, PassInv
      <3>2. visible = TRUE
        <4>1. target # None
          BY <2>5, MatchSnap, SnapAssumption DEF TakeShows, PassInv, Requests
        <4> QED
          BY <4>1 DEF PassInv, ShownIsWanted, SnapInv, SnapTypeOK
      <3>3. last # None
        BY <3>1, SnapAssumption
      <3>4. backdrop \in {None, last}
        BY <3>2 DEF PassInv, SnapInv, BackdropIsCurrent
      <3>5. CASE backdrop = None
        BY <3>1, <3>2, <3>3, <3>5 DEF Latest!Next, Latest!Answer
      <3>6. CASE backdrop = last
        BY <3>1, <3>2, <3>6 DEF Latest!vars
      <3> QED
        BY <3>4, <3>5, <3>6
    <2>6. CASE TakeFails
      <3>1. visible' = FALSE /\ generation' = generation + 1
        BY <2>6 DEF TakeFails, Hidden
      <3> QED
        BY <3>1, HiddenForgets DEF Latest!Next
    <2>7. CASE UNCHANGED <<visible, generation, last, backdrop>>
      BY <2>7 DEF Latest!vars
    <2> QED
      BY <2>1, <2>4, <2>5, <2>6, <2>7
      DEF SnapNext, SnapTurn, Drop, WorkerRuns, DrainWake, TakeNothing, Take,
          ByteWakes, OtherWakes, DropStops, DropNotifies, DropJoins, Lock,
          TakeRequest, Sleep, WakeSpuriously, Capture, Wake, snapVars
  <1> QED
    BY <1>1, <1>2, SnapPassInvariance, PTL DEF SnapSpec, ImplementsLatest, Latest!Spec
=============================================================================
