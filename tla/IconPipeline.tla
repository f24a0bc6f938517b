---------------------------- MODULE IconPipeline ----------------------------
(***************************************************************************)
(* The icons of the panel's task slots: the snapshot of the shell and its  *)
(* dirty flags (runtime.rs), the two projections of the slots, the whole   *)
(* one and the one of their geometry (async_projection.rs), the worker     *)
(* thread that resolves icon names (icon_loader.rs) and the tick that      *)
(* applies what the worker has finished (app.rs).                          *)
(*                                                                         *)
(* A turn of the UI thread is: dispatch, which empties the wake pipe and   *)
(* notes the signals; the tick, which applies every finished result and    *)
(* then projects what is dirty.  The projection of the slots goes through  *)
(* them one by one while the worker runs.  An application stands for its   *)
(* icon name.  The slots of the Start menu go the same way under a view    *)
(* epoch of their own.  The loader's generation is left out: nothing in    *)
(* production bumps it.                                                    *)
(***************************************************************************)
EXTENDS Naturals, Sequences, Functions

CONSTANTS
    Names,       \* icon names
    Unresolved,  \* names the resolver finds no raster for
    Empty,       \* the transparent placeholder
    Slots,       \* number of slots, 8 in the code
    RequestRoom, \* bound of the request channel, 16 in the code
    ResultRoom,  \* bound of the result channel, 16 in the code
    MaxEpoch     \* bound of the model: projections of the slots, the first one
                 \* included

ASSUME IconAssumption ==
    /\ Unresolved \subseteq Names
    /\ Empty \notin Names
    /\ Slots \in Nat \ {0}
    /\ RequestRoom \in Nat \ {0}
    /\ ResultRoom \in Nat \ {0}
    /\ MaxEpoch \in Nat \ {0}

SlotIds == 1 .. Slots
NoBinding == [name |-> Empty, epoch |-> 0]

VARIABLES
    view,       \* the application of each slot in the snapshot
    dirty,      \* ShellDirty: the domains whose snapshot has changed
    label,      \* the application whose name the label of each slot is
    shows,      \* the image of each slot's icon node
    onPanel,    \* the slots whose node is visible
    binding,    \* IconBinding of each slot: name and view epoch
    epoch,      \* the domain's view epoch
    cache,      \* names whose raster the shell caches
    pending,    \* IconLoader.pending: <<slot, name>>
    requests,   \* request channel
    results,    \* result channel
    wake,       \* the wake pipe holds a byte
    ui,         \* where the UI thread is in its turn
    at,         \* the slot the projection is about to project, 0 when none
    inHand,     \* the request the worker resolves, or << >>
    posting     \* the worker has yet to write a wake byte

slots == <<label, shows, onPanel>>
snapshot == <<view, dirty>>
uiVars == <<snapshot, slots, binding, epoch, cache, pending, ui, at>>
workerVars == <<inHand, posting>>
vars == <<snapshot, slots, binding, epoch, cache, pending, requests, results,
          wake, ui, at, inHand, posting>>

\* The entries of the task strip fill the slots from the first.
Strips ==
    {v \in [SlotIds -> Names \cup {Empty}] :
        \A s, t \in SlotIds : s < t /\ v[s] = Empty => v[t] = Empty}

\* project_panel_geometry: a slot is visible if the snapshot has an entry for
\* it.  Label and icon stay.
Filled == {s \in SlotIds : view[s] # Empty}

\* project_panel_critical: the first projection has no loader, so it asks for
\* no icon and binds nothing; the cache is empty.
Init ==
    /\ view \in Strips
    /\ dirty = {}
    /\ label = view
    /\ onPanel = Filled
    /\ shows = [s \in SlotIds |-> Empty]
    /\ binding = [s \in SlotIds |-> NoBinding]
    /\ epoch = 1
    /\ cache = {}
    /\ pending = {}
    /\ requests = << >>
    /\ results = << >>
    /\ wake = FALSE
    /\ ui = "blocked"
    /\ at = 0
    /\ inHand = << >>
    /\ posting = FALSE

-----------------------------------------------------------------------------
(* The UI thread. *)

\* dispatch returns: the wake source, if ready, reads every byte.
Dispatch ==
    /\ ui = "blocked"
    /\ ui' = "events"
    /\ wake' = FALSE
    /\ UNCHANGED <<snapshot, slots, binding, epoch, cache, pending, at, requests,
                   results, workerVars>>

\* mark_signal, WindowsSnapshotChanged: what runs in a slot, and whether it is
\* focused, may change; the entries of the strip are of the panels domain.
NoteWindows ==
    /\ ui = "events"
    /\ epoch < MaxEpoch
    /\ dirty' = dirty \cup {"windows"}
    /\ UNCHANGED <<view, slots, binding, epoch, cache, pending, ui, at, requests,
                   results, wake, workerVars>>

\* mark_signal, PanelsSnapshotChanged with another strip.
NotePanels(v) ==
    /\ ui = "events"
    /\ v # view
    /\ view' = v
    /\ dirty' = dirty \cup {"panels"}
    /\ UNCHANGED <<slots, binding, epoch, cache, pending, ui, at, requests,
                   results, wake, workerVars>>

\* refresh_dynamic with windows dirty: the projection of the slots begins, and
\* the view epoch moves, so no earlier binding counts.
Project ==
    /\ ui = "refreshing"
    /\ at = 0
    /\ "windows" \in dirty
    /\ dirty' = {}
    /\ epoch' = epoch + 1
    /\ at' = 1
    /\ UNCHANGED <<view, slots, binding, cache, pending, ui, requests, results,
                   wake, workerVars>>

\* refresh_dynamic with panels alone dirty, or resync_panel_geometry.
ProjectGeometry ==
    /\ ui = "refreshing"
    /\ at = 0
    /\ dirty = {"panels"}
    /\ dirty' = {}
    /\ onPanel' = Filled
    /\ UNCHANGED <<view, label, shows, binding, epoch, cache, pending, ui, at,
                   requests, results, wake, workerVars>>

Step == IF at = Slots THEN 0 ELSE at + 1

\* The slot is empty now: its label goes, its node is hidden, its icon stays.
ProjectNothing ==
    /\ at # 0
    /\ view[at] = Empty
    /\ label' = [label EXCEPT ![at] = Empty]
    /\ onPanel' = onPanel \ {at}
    /\ at' = Step
    /\ UNCHANGED <<snapshot, shows, binding, epoch, cache, pending, ui, requests, results,
                   wake, workerVars>>

\* schedule_visible, the icon is cached.
ProjectCached(n) ==
    /\ at # 0
    /\ view[at] = n
    /\ n \in cache
    /\ label' = [label EXCEPT ![at] = n]
    /\ onPanel' = onPanel \cup {at}
    /\ shows' = [shows EXCEPT ![at] = n]
    /\ at' = Step
    /\ UNCHANGED <<snapshot, binding, epoch, cache, pending, ui, requests, results,
                   wake, workerVars>>

\* What a slot shows until its icon is there.
Placeholder(s) == Empty

AlwaysWanted(s, n) == TRUE

\* IconLoader::request sends nothing for a key that is already pending.
Wanted(s, n) == <<s, n>> \notin pending

\* schedule_visible, the icon is not cached: placeholder, request, binding.
\* A full channel refuses the request and gives the key back.
ProjectMissing(n) ==
    /\ at # 0
    /\ view[at] = n
    /\ n \notin cache
    /\ LET sent == Wanted(at, n) /\ Len(requests) < RequestRoom
       IN  /\ requests' = IF sent THEN Append(requests, <<at, n>>) ELSE requests
           /\ pending' = IF sent THEN pending \cup {<<at, n>>} ELSE pending
    /\ label' = [label EXCEPT ![at] = n]
    /\ onPanel' = onPanel \cup {at}
    /\ shows' = [shows EXCEPT ![at] = Placeholder(at)]
    /\ binding' = [binding EXCEPT ![at] = [name |-> n, epoch |-> epoch]]
    /\ at' = Step
    /\ UNCHANGED <<snapshot, epoch, cache, ui, results, wake, workerVars>>

\* The signals are noted; the tick starts by draining: drain_ready reads the
\* wake pipe first, 64 bytes at most.
Tick ==
    /\ ui = "events"
    /\ ui' = "draining"
    /\ wake' \in {FALSE, wake}
    /\ UNCHANGED <<snapshot, slots, binding, epoch, cache, pending, at, requests,
                   results, workerVars>>

BoundByName(s, n) == binding[s].name = n

\* apply_icon_result mutates a node only under its live binding.
Bound(s, n) == binding[s] = [name |-> n, epoch |-> epoch]

\* drain_ready and drain_icons, one result: the key is free again, a raster is
\* cached, and applied if the slot is still bound to it.
Apply ==
    /\ ui = "draining"
    /\ results # << >>
    /\ LET s == Head(results)[1]
           n == Head(results)[2]
           found == n \notin Unresolved
       IN  /\ pending' = pending \ {<<s, n>>}
           /\ cache' = IF found THEN cache \cup {n} ELSE cache
           /\ shows' = IF found /\ Bound(s, n)
                       THEN [shows EXCEPT ![s] = n] ELSE shows
    /\ results' = Tail(results)
    /\ UNCHANGED <<snapshot, label, onPanel, binding, epoch, ui, at, requests, wake,
                   workerVars>>

\* drain_ready finds no more; the tick goes on to refresh_dynamic.
Drained ==
    /\ ui = "draining"
    /\ results = << >>
    /\ ui' = "refreshing"
    /\ UNCHANGED <<snapshot, slots, binding, epoch, cache, pending, at, requests,
                   results, wake, workerVars>>

\* Nothing is dirty any more: the turn is over.
Block ==
    /\ ui = "refreshing"
    /\ at = 0
    /\ dirty = {}
    /\ ui' = "blocked"
    /\ UNCHANGED <<snapshot, slots, binding, epoch, cache, pending, at, requests,
                   results, wake, workerVars>>

-----------------------------------------------------------------------------
(* The worker thread. *)

Resolve ==
    /\ inHand = << >>
    /\ ~posting
    /\ requests # << >>
    /\ inHand' = Head(requests)
    /\ requests' = Tail(requests)
    /\ UNCHANGED <<uiVars, results, wake, posting>>

\* try_send: a full channel drops the result.
Finish ==
    /\ inHand # << >>
    /\ results' = IF Len(results) < ResultRoom
                  THEN Append(results, inHand) ELSE results
    /\ inHand' = << >>
    /\ posting' = TRUE
    /\ UNCHANGED <<uiVars, requests, wake>>

PostNothing == wake

\* The byte the worker writes after every result.
Post == TRUE

Announce ==
    /\ posting
    /\ wake' = Post
    /\ posting' = FALSE
    /\ UNCHANGED <<uiVars, requests, results, inHand>>

Worker == Resolve \/ Finish \/ Announce

Projecting ==
    \/ ProjectNothing
    \/ \E n \in Names : ProjectCached(n) \/ ProjectMissing(n)

Turn == Project \/ ProjectGeometry \/ Projecting \/ Tick \/ Apply \/ Drained \/ Block

Signal == NoteWindows \/ \E v \in Strips : NotePanels(v)

Next == Worker \/ Turn \/ Signal \/ Dispatch

\* Both threads are scheduled; dispatch returns when a byte is there.
Fairness ==
    /\ WF_vars(Worker)
    /\ WF_vars(Turn)
    /\ WF_vars(wake /\ Dispatch)

Spec == Init /\ [][Next]_vars /\ Fairness

-----------------------------------------------------------------------------
(* Properties. *)

InHand == IF inHand = << >> THEN {} ELSE {inHand}

\* The variables have their types.
TypeOK ==
    /\ view \in [SlotIds -> Names \cup {Empty}]
    /\ dirty \subseteq {"windows", "panels"}
    /\ label \in [SlotIds -> Names \cup {Empty}]
    /\ onPanel \subseteq SlotIds
    /\ shows \in [SlotIds -> Names \cup {Empty}]
    /\ binding \in [SlotIds -> [name : Names \cup {Empty}, epoch : 0 .. MaxEpoch]]
    /\ epoch \in 0 .. MaxEpoch
    /\ cache \subseteq Names \ Unresolved
    /\ pending \subseteq SlotIds \X Names
    /\ requests \in Seq(SlotIds \X Names) /\ Len(requests) <= RequestRoom
    /\ results \in Seq(SlotIds \X Names) /\ Len(results) <= ResultRoom
    /\ wake \in BOOLEAN
    /\ ui \in {"blocked", "events", "draining", "refreshing"}
    /\ at \in 0 .. Slots
    /\ inHand \in (SlotIds \X Names) \cup {<< >>}
    /\ posting \in BOOLEAN

\* The icon beside a label is that of the label's application, however late a
\* result arrives and whatever was projected, from the cache or not, between
\* its request and its arrival.
RightIcon == \A s \in SlotIds : shows[s] # Empty /\ label[s] # Empty
                                    => shows[s] = label[s]

\* A slot on the panel has the label of the application the snapshot has there,
\* the one a click on it is sent for (task_click_requests_for_slot), whenever
\* the shell has nothing left to project.
SlotIsCurrent ==
    ui = "blocked" => \A s \in onPanel : label[s] = view[s]

\* One icon is resolved once at a time for one slot: what waits, is being
\* resolved or is finished is pending, and nothing is there twice.
OneResolvePerKey ==
    /\ Range(requests) \cup InHand \cup Range(results) \subseteq pending
    /\ IsInjective(requests) /\ IsInjective(results)
    /\ InHand \cap (Range(requests) \cup Range(results)) = {}
    /\ Range(requests) \cap Range(results) = {}

\* A finished result is applied or dropped, and does not wait for the next
\* user event.
ResultsAreDrained == results # << >> ~> results = << >>

\* The thread never blocks, nor goes on to block, with a finished result that
\* nothing will wake it for: the byte is in the pipe or about to be written,
\* although dispatch and the drain both empty the pipe.
NoResultIsStranded ==
    results # << >> /\ ui \in {"refreshing", "blocked"} => wake \/ posting

\* Every pending key has its request on the way: "Ready keys leave the pending
\* set so a later view change can re-queue" (icon_loader.rs).
PendingIsOnItsWay ==
    pending \subseteq Range(requests) \cup InHand \cup Range(results)
=============================================================================
