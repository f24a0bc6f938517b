----------------------------- MODULE SnapPreview -----------------------------
(***************************************************************************)
(* The snap preview of the window manager: the overlay that shows where a  *)
(* dragged window would land, and the worker thread that reads the picture *)
(* below it back from the X server (snap_preview.rs, snap_preview/         *)
(* worker.rs, and the loop of wm.rs that drives both).                     *)
(*                                                                         *)
(* The WM thread writes one request into a mailbox that holds the latest   *)
(* only, the worker takes it, captures, stores one result and writes one   *)
(* byte; the WM thread collects the result at the end of its turn.  One    *)
(* action is one critical section of a mutex, one read or write of the     *)
(* socket pair, or what the WM thread does alone in between.               *)
(*                                                                         *)
(* Candidate, geometry and opacity of a preview are one member of Targets; *)
(* pixels are the request they were captured for, or None.                 *)
(***************************************************************************)
EXTENDS Naturals

CONSTANTS
    Targets,       \* candidates a drag may show, each with its geometry
    None,          \* Option::None
    WakeRoom,      \* bytes the socket pair holds before a write would block
    MaxGeneration  \* bound of the model: generations counted

Requests == [generation : 1 .. MaxGeneration, target : Targets]
Results == [request : Requests, pixels : BOOLEAN]

ASSUME SnapAssumption ==
    /\ None \notin Targets \cup Requests \cup Results
    /\ WakeRoom \in Nat \ {0}
    /\ MaxGeneration \in Nat \ {0}

VARIABLES
    wm,          \* where the WM thread is
    generation,  \* SnapPreviewSurface.generation
    target,      \* .candidate and .geometry, which are set and cleared together
    visible,     \* .visible: the surface is on the screen
    backdrop,    \* the request whose pixels the document shows, or None
    mailbox,     \* SnapPreviewWorker.requests
    last,        \* .last_request
    stopped,     \* .stopped
    bytes,       \* unread bytes in the socket pair
    result,      \* .result
    worker,      \* where the worker thread is
    job          \* the request it works on, or None

preview == <<generation, target, visible, backdrop>>
mail == <<mailbox, last>>
snapVars == <<wm, preview, mail, stopped, bytes, result, worker, job>>

SnapTypeOK ==
    /\ wm \in {"events", "taking", "blocked", "stopping", "joining", "gone"}
    /\ generation \in 1 .. MaxGeneration + 1
    /\ target \in Targets \cup {None}
    /\ visible \in BOOLEAN
    /\ backdrop \in Requests \cup {None}
    /\ mailbox \in Requests \cup {None}
    /\ last \in Requests \cup {None}
    /\ stopped \in BOOLEAN
    /\ bytes \in 0 .. WakeRoom
    /\ result \in Results \cup {None}
    /\ worker \in {"ready", "locked", "asleep", "capturing", "waking", "done"}
    /\ job \in Requests \cup {None}

SnapInit ==
    /\ wm = "events"
    /\ generation = 1
    /\ target = None
    /\ visible = FALSE
    /\ backdrop = None
    /\ mailbox = None
    /\ last = None
    /\ stopped = FALSE
    /\ bytes = 0
    /\ result = None
    /\ worker = "ready"
    /\ job = None

-----------------------------------------------------------------------------
(* The preview, as the events of a drag drive it. *)

\* hide_with_reason, the n-th time in this event: what was sent or shown is
\* void.  The document keeps its backdrop until the next update.
Hidden(n) ==
    /\ generation' = generation + n
    /\ target' = None
    /\ visible' = FALSE

\* A move without a candidate, the end of a drag, a switch of the workspace
\* and other events hide the preview, shown or not.
Hide ==
    /\ wm = "events"
    /\ generation <= MaxGeneration   \* bound of the model
    /\ Hidden(1)
    /\ UNCHANGED <<wm, backdrop, mail, stopped, bytes, result, worker, job>>

NotifiedNever == worker

\* What notify_one does to a worker asleep in wait.
Notified == IF worker = "asleep" THEN "ready" ELSE worker

SentIfRoom(request) ==
    /\ worker # "locked"
    /\ mailbox' = IF mailbox = None THEN request ELSE mailbox
    /\ last' = request
    /\ worker' = Notified

\* try_send: a request like the last one is not sent again (every update has a
\* generation of its own, so none is), any other takes the place of one that
\* waits.  A "locked" worker holds the mutex.
Sent(request) ==
    IF last = request
    THEN UNCHANGED <<mail, worker>>
    ELSE /\ worker # "locked"
         /\ mailbox' = request
         /\ last' = request
         /\ worker' = Notified

\* update, up to try_send, with a candidate that is not shown: the preview is
\* hidden and its generation, the new one, goes into the request.
Request(t) ==
    /\ wm = "events"
    /\ ~(visible /\ target = t)
    /\ Sent([generation |-> generation + 1, target |-> t])
    /\ UNCHANGED <<wm, stopped, bytes, result, job>>

UpdateKeepsBackdrop(t) ==
    /\ generation < MaxGeneration   \* bound of the model
    /\ Request(t)
    /\ generation' = generation + 1
    /\ target' = t
    /\ visible' = TRUE
    /\ UNCHANGED backdrop

\* The surface is placed, styled without a backdrop, drawn and shown.
UpdateShows(t) ==
    /\ generation < MaxGeneration   \* bound of the model
    /\ Request(t)
    /\ generation' = generation + 1
    /\ target' = t
    /\ visible' = TRUE
    /\ backdrop' = None

\* The surface cannot be created, placed, styled, drawn or shown: the preview
\* is hidden again, which makes the request void; the backdrop is lost or not.
UpdateFails(t) ==
    /\ generation < MaxGeneration   \* bound of the model
    /\ Request(t)
    /\ Hidden(2)
    /\ backdrop' \in {backdrop, None}

-----------------------------------------------------------------------------
(* The turn of the WM thread. *)

\* drain_worker, first half: drain_wake reads every byte there is.
DrainWake ==
    /\ wm = "events"
    /\ bytes' = 0
    /\ wm' = "taking"
    /\ UNCHANGED <<preview, mail, stopped, result, worker, job>>

MatchesTarget(request) == request.target = target

\* matches, against current_request
Matches(request) == request = [generation |-> generation, target |-> target]

\* drain_worker, second half: take_result, and then the reactor blocks.
Take ==
    /\ wm = "taking"
    /\ result' = None
    /\ wm' = "blocked"
    /\ UNCHANGED <<mail, stopped, bytes, worker, job>>

\* There is no result, or it answers a request that is void.
TakeNothing ==
    /\ result # None => ~Matches(result.request)
    /\ Take
    /\ UNCHANGED preview

\* The pixels become the backdrop, and the surface is drawn and shown again.
TakeShows ==
    /\ result # None
    /\ Matches(result.request) /\ result.pixels
    /\ Take
    /\ backdrop' = result.request
    /\ visible' = TRUE
    /\ UNCHANGED <<generation, target>>

\* There are no pixels, or drawing them fails with the backdrop changed or
\* not: the preview is hidden.
TakeFails ==
    /\ result # None
    /\ Matches(result.request)
    /\ Take
    /\ backdrop' \in {backdrop} \cup {r \in {result.request} : result.pixels}
    /\ Hidden(1)

\* The source of the socket pair is level-triggered.
ByteWakes ==
    /\ wm = "blocked" /\ bytes > 0
    /\ wm' = "events"
    /\ UNCHANGED <<preview, mail, stopped, bytes, result, worker, job>>

\* Any other source of the reactor is ready.
OtherWakes ==
    /\ wm = "blocked"
    /\ wm' = "events"
    /\ UNCHANGED <<preview, mail, stopped, bytes, result, worker, job>>

-----------------------------------------------------------------------------
(* The end: run_with_hook returns an error, and drops Wm and its worker.  Drop *)
(* does not hold the mutex of the mailbox, neither to store nor to notify.     *)

DropStops ==
    /\ wm \in {"events", "blocked"}
    /\ stopped' = TRUE
    /\ wm' = "stopping"
    /\ UNCHANGED <<preview, mail, bytes, result, worker, job>>

DropNotifies ==
    /\ wm = "stopping"
    /\ worker' = Notified
    /\ wm' = "joining"
    /\ UNCHANGED <<preview, mail, stopped, bytes, result, job>>

DropJoins ==
    /\ wm = "joining" /\ worker = "done"
    /\ wm' = "gone"
    /\ UNCHANGED <<preview, mail, stopped, bytes, result, worker, job>>

-----------------------------------------------------------------------------
(* The worker thread. *)

\* It takes the mutex, at first or as wait returns, and looks at `stopped`.
Lock ==
    /\ worker = "ready"
    /\ worker' = IF stopped THEN "done" ELSE "locked"
    /\ UNCHANGED <<wm, preview, mail, stopped, bytes, result, job>>

TakeRequestAgain ==
    /\ worker = "locked" /\ mailbox # None
    /\ job' = mailbox
    /\ worker' = "capturing"
    /\ UNCHANGED <<wm, preview, mail, stopped, bytes, result>>

TakeRequest ==
    /\ worker = "locked" /\ mailbox # None
    /\ job' = mailbox
    /\ mailbox' = None
    /\ worker' = "capturing"
    /\ UNCHANGED <<wm, preview, last, stopped, bytes, result>>

\* wait gives the mutex back as it falls asleep.
Sleep ==
    /\ worker = "locked" /\ mailbox = None
    /\ worker' = "asleep"
    /\ UNCHANGED <<wm, preview, mail, stopped, bytes, result, job>>

\* Condvar::wait may return without a notification.
WakeSpuriously ==
    /\ worker = "asleep"
    /\ worker' = "ready"
    /\ UNCHANGED <<wm, preview, mail, stopped, bytes, result, job>>

\* The capture yields pixels or an error; either is stored, over a result that
\* was not taken.
Capture ==
    /\ worker = "capturing"
    /\ \E pixels \in BOOLEAN :
           result' = [request |-> job, pixels |-> pixels]
    /\ job' = None
    /\ worker' = "waking"
    /\ UNCHANGED <<wm, preview, mail, stopped, bytes>>

\* One byte; a full socket drops it.
Woken == IF bytes < WakeRoom THEN bytes + 1 ELSE bytes

Wake ==
    /\ worker = "waking"
    /\ bytes' = Woken
    /\ worker' = "ready"
    /\ UNCHANGED <<wm, preview, mail, stopped, result, job>>

WorkerRuns == Lock \/ TakeRequest \/ Sleep \/ Capture \/ Wake

-----------------------------------------------------------------------------
Update == \E t \in Targets : UpdateShows(t) \/ UpdateFails(t)
SnapTurn == DrainWake \/ TakeNothing \/ TakeShows \/ TakeFails \/ ByteWakes
Drop == DropStops \/ DropNotifies \/ DropJoins

SnapNext ==
    \/ Hide \/ Update \/ SnapTurn \/ OtherWakes \/ Drop
    \/ WorkerRuns \/ WakeSpuriously

\* The WM thread goes through its turn and through Drop, and the worker runs:
\* no lock is held across a capture, and the X server answers it.  Nothing
\* makes an event or an error happen, or wait return by itself.
SnapFairness ==
    /\ WF_snapVars(SnapTurn)
    /\ WF_snapVars(DropNotifies \/ DropJoins)
    /\ WF_snapVars(WorkerRuns)

SnapSpec == SnapInit /\ [][SnapNext]_snapVars /\ SnapFairness

-----------------------------------------------------------------------------
\* What is on the screen belongs to the drag: a preview is shown only for the
\* request sent last, the one of the present candidate and generation, and its
\* backdrop was captured for that request and no other, however many were sent,
\* overwritten, hidden or answered late.  Test t12: a result of an old request
\* "cannot mutate the current preview after hide, cancel, or replacement".
BackdropIsCurrent ==
    visible => /\ last = [generation |-> generation, target |-> target]
               /\ backdrop \in {None, last}

\* Request that waits in the slot of the result.
Answered == IF result = None THEN None ELSE result.request

Before(q, r) == q # None /\ r # None => q.generation < r.generation

\* A request is captured once, and in the order of asking: what the document
\* shows, what was captured, what is being captured, what waits and what was
\* sent last are each older than the next, whatever was overwritten between.
RequestsPassOnce ==
    /\ Before(backdrop, Answered) /\ Before(backdrop, job) /\ Before(backdrop, mailbox)
    /\ Before(Answered, job) /\ Before(Answered, mailbox)
    /\ Before(job, mailbox)

\* What a preview on the screen asked for is not lost, however many requests and
\* results were overwritten: it is shown, or waits, or is captured, or is in the
\* slot of the result.  The worker is awake for it, and the WM thread does not
\* block on a result without a byte that wakes it, unread or about to be written.
NewestIsUnderWay ==
    /\ visible => last \in {backdrop, Answered, job, mailbox}
    /\ mailbox # None => worker # "asleep"
    /\ result # None /\ wm = "blocked" => bytes > 0 \/ worker = "waking"

\* The preview is what a drag is promised of it.  A surface that is hidden shows
\* nothing, whatever its document still holds.
Latest == INSTANCE LatestAnswer WITH
    number <- generation,
    asked <- IF visible THEN last ELSE None,
    shown <- IF visible THEN backdrop ELSE None

ImplementsLatest == Latest!Spec

\* A preview that stays on the screen gets its backdrop, or is hidden because
\* that failed: neither the mailbox, the slot of the result nor the socket pair
\* loses the newest request, its answer or the wake for it.
RequestIsAnswered ==
    \A g \in 1 .. MaxGeneration :
        visible /\ generation = g ~> backdrop # None \/ generation # g \/ stopped

\* The WM thread that drops the worker gets through its join, from whatever the
\* worker is doing but one thing: between its look at `stopped` and its wait.
DropReturns == wm = "stopping" /\ worker # "locked" ~> wm = "gone"

\* That one excepted too, Drop always returns.  Skill flamewm-rust-systems:
\* "ensure resources release on success, error, cancellation, and drop paths".
DropAlwaysReturns == wm = "stopping" ~> wm = "gone"

\* Every update records the candidate it asked for, also when the surface cannot
\* be shown.  Doc comment of update: "records intent, leaves `visible` false".
IntentIsRecorded == [][last' # last => target' = last'.target]_snapVars
=============================================================================
