------------------------------- MODULE TaskBar -------------------------------
(***************************************************************************)
(* From a window to its button and back.  The WM thread runs a reactor:    *)
(* it drains X events, and once per turn refreshes the platform's list of  *)
(* windows from the X server, brings the task strip in step and sends      *)
(* snapshots to the shell (wm-x11/src/runtime.rs).  X11Desktop numbers     *)
(* every window it meets and renumbers it with every command               *)
(* (wm-x11/src/lib.rs).  The shell turns clicks on the snapshot it holds   *)
(* into commands that carry those numbers, and these reach the thread      *)
(* later, between two turns.                                               *)
(*                                                                         *)
(* Signals and calls are FIFO and the shell only reacts, so a snapshot     *)
(* that is read late is a command that arrives late: snapshots reach the   *)
(* view at once and only calls wait.  One snapshot is read at one moment.  *)
(* There is one workspace with windows; maximising, geometry and titles,   *)
(* and the outputs of the panels, are left out.  A window identifier is    *)
(* not used again before the WM has forgotten the window that had it.      *)
(*                                                                         *)
(* A turn drains events, runs the hook, drains again and blocks.  An event *)
(* that is there when the hook runs, or when the thread blocks, came after *)
(* the last poll, so neither waits for the queue to be empty.              *)
(***************************************************************************)
EXTENDS TaskStrip, Naturals, FiniteSets

CONSTANTS
    Ids,         \* X window identifiers
    NoId,        \* no window
    Apps,        \* application names, from WM_CLASS
    NoApp,       \* of no window
    MaxOpens,    \* bound: windows opened
    MaxAsks,     \* bound: what users and applications do to windows and docks
    MaxCalls,    \* bound: what the shell and other clients ask for
    QueueBound,  \* bound: commands that wait
    EventBound   \* bound: X events that wait

ASSUME TaskBarAssumption ==
    /\ NoId \notin Ids
    /\ NoApp \notin Apps
    /\ NoRef \notin (Ids \cup {NoId}) \X Nat
    /\ {MaxOpens, MaxAsks, MaxCalls, QueueBound, EventBound} \subseteq Nat

VARIABLES
    listed,   \* _NET_CLIENT_LIST
    client,   \* of each identifier: app, minimised, alive
    active,   \* _NET_ACTIVE_WINDOW
    events,   \* X events and messages the WM has not read
    phase,    \* "drain" before the hook of a turn, "rest" after it
    marked,   \* Wm.changes
    started,  \* the host has started
    numbers,  \* X11Desktop.generations, 0 for none
    next,     \* X11Desktop.next_generation
    cached,   \* WindowService.cached
    strip,    \* PanelService.tasks
    revision, \* PanelService.revision()
    view,     \* ShellSnapshot: windows, panel revision and tasks
    calls,    \* commands on their way
    carried,  \* history: the references of commands that were carried out
    reconciled, \* history: a refresh has found a change
    spent     \* bound: how much is used of each of the three

xVars == <<listed, client, active, events>>
engineVars == <<numbers, next, carried>>
hostVars == <<cached, strip, revision, reconciled>>
vars == <<listed, client, active, events, phase, marked, started, numbers,
          next, cached, strip, revision, view, calls, carried,
          reconciled, spent>>

Ref(c, n) == <<c, n>>
Message(op, c) == [op |-> op, id |-> c]
Listed == ToSet(listed)
NoWindow == [app |-> NoApp, mini |-> FALSE, alive |-> FALSE]
NewWindow(app) == [app |-> app, mini |-> FALSE, alive |-> TRUE]

\* The WM starts with no window or one, which scan_existing has managed.
Init ==
    /\ \E app \in Apps, c \in Ids :
         \/ /\ listed = << >>
            /\ client = [i \in Ids |-> NoWindow]
            /\ active = NoId
            /\ marked = {}
         \/ /\ listed = <<c>>
            /\ client = [i \in Ids |-> IF i = c THEN NewWindow(app) ELSE NoWindow]
            /\ active = c
            /\ marked = {"windows"}
    /\ events = << >>
    /\ phase = "drain"
    /\ started = FALSE
    /\ numbers = [c \in Ids |-> 0]
    /\ next = 1
    /\ cached = << >>
    /\ strip = << >>
    /\ revision = 1
    /\ view = [windows |-> << >>, revision |-> 0, tasks |-> << >>]
    /\ calls = << >>
    /\ carried = {}
    /\ spent = [opens |-> 0, asks |-> 0, calls |-> 0]
    /\ reconciled = FALSE

\* What a filter of the code chooses, in its order.
Chosen(s, S) == FoldLeft(LAMBDA t, x : IF x \in S THEN Append(t, x) ELSE t, << >>, s)

-----------------------------------------------------------------------------
(* Applications and users of X. *)

Room == Len(events) < EventBound
Post(op, c) == events' = Append(events, Message(op, c))

AppsKeep == UNCHANGED <<phase, marked, started, engineVars, hostVars, view, calls>>
Spends(kind, max) == spent[kind] < max /\ spent' = [spent EXCEPT ![kind] = @ + 1]

\* An application maps a window; the WM reads the request later.
Opens(c, app) ==
    /\ Spends("opens", MaxOpens)
    /\ Room
    /\ c \notin Listed
    /\ ~client[c].alive
    /\ \A i \in DOMAIN events : events[i].id # c
    /\ client' = [client EXCEPT ![c] = NewWindow(app)]
    /\ Post("map", c)
    /\ AppsKeep /\ UNCHANGED <<listed, active>>

\* A window is destroyed; the WM reads the notice later.
Vanishes(c) ==
    /\ Room
    /\ client[c].alive
    /\ client' = [client EXCEPT ![c] = NoWindow]
    /\ Post("destroyed", c)
    /\ AppsKeep /\ UNCHANGED <<listed, active, spent>>

\* An application sets WM_CLASS after its window was mapped; the WM does not
\* listen for that property.
Renames(c, app) ==
    /\ Spends("asks", MaxAsks)
    /\ client[c].alive
    /\ client[c].app # app
    /\ client' = [client EXCEPT ![c].app = app]
    /\ AppsKeep /\ UNCHANGED <<listed, active, events>>

\* A press on a frame, a pager, or the application itself.
Asks(op, c) ==
    /\ Spends("asks", MaxAsks)
    /\ Room
    /\ c \in Listed
    /\ Post(op, c)
    /\ AppsKeep /\ UNCHANGED <<listed, client, active>>

\* A dock that maps, leaves or changes its strut.
DockChanges ==
    /\ Spends("asks", MaxAsks)
    /\ Room
    /\ Post("dock", NoId)
    /\ AppsKeep /\ UNCHANGED <<listed, client, active>>

-----------------------------------------------------------------------------
(* The turn of the WM thread. *)

Mark(kind) == marked' = marked \cup {kind}

\* manage: framed, listed last, focused.
Managed(c) ==
    /\ listed' = Append(listed, c)
    /\ active' = c
    /\ Mark("windows")
    /\ UNCHANGED client

\* unmanage
Forgotten(c) ==
    /\ listed' = Chosen(listed, Ids \ {c})
    /\ active' = IF active = c THEN NoId ELSE active
    /\ Mark("windows")
    /\ UNCHANGED client

\* minimize
Minimised(c) ==
    /\ client' = [client EXCEPT ![c].mini = TRUE]
    /\ active' = IF active = c THEN NoId ELSE active
    /\ Mark("windows")
    /\ UNCHANGED listed

\* restore_minimized, and the focus that ends it.
Restored(c) ==
    /\ client' = [client EXCEPT ![c].mini = FALSE]
    /\ active' = c
    /\ Mark("windows")
    /\ UNCHANGED listed

\* focus, of a window that is visible.
Focused(c) ==
    /\ active' = c
    /\ Mark("windows")
    /\ UNCHANGED <<listed, client>>

Docked == Mark("panels") /\ UNCHANGED <<listed, client, active>>

\* What an event does, if anything: a message about a window that is not
\* managed, or is already as asked, is dropped; closing asks the application;
\* the message of X11Desktop::restore, an action the WM acts on only when it
\* adds or toggles, is dropped too.
Effect(e) ==
    LET c == e.id
        known == c \in Listed
    IN  CASE e.op = "map" /\ ~known /\ client[c].alive -> Managed(c)
          [] e.op = "destroyed" /\ known -> Forgotten(c)
          [] e.op = "minimize" /\ known /\ ~client[c].mini -> Minimised(c)
          [] e.op = "deiconify" /\ known /\ client[c].mini -> Restored(c)
          [] e.op = "activate" /\ known /\ ~client[c].mini -> Focused(c)
          [] e.op = "dock" -> Docked
          [] OTHER -> UNCHANGED <<listed, client, active, marked>>

HandleEvent ==
    /\ events # << >>
    /\ Effect(Head(events))
    /\ events' = Tail(events)
    /\ UNCHANGED <<phase, started, engineVars, hostVars, view, calls, spent>>

\* X11Desktop::snapshot leaves out a window it cannot read.
Readable == Chosen(listed, {c \in Ids : client[c].alive})
Unnumbered == Chosen(Readable, {c \in Ids : numbers[c] = 0})

\* Mutant: every window counts its own generations, from 1.
CountedFromOne ==
    [c \in Ids |-> IF \E i \in DOMAIN Readable : Readable[i] = c /\ numbers[c] = 0
                   THEN 1 ELSE numbers[c]]

\* ensure_generation, of every window that is read.
Numbered ==
    LET fresh == Unnumbered
    IN  [c \in Ids |-> IF \E i \in DOMAIN fresh : fresh[i] = c
                       THEN next - 1 + CHOOSE i \in DOMAIN fresh : fresh[i] = c
                       ELSE numbers[c]]

Snapshot(numbering) ==
    LET read == Readable
    IN  [i \in DOMAIN read |->
            [ref |-> Ref(read[i], numbering[read[i]]), app |-> client[read[i]].app,
             mini |-> client[read[i]].mini, focused |-> active = read[i]]]

\* WindowService::refresh
RefreshList ==
    /\ numbers' = Numbered
    /\ next' = next + Len(Unnumbered)
    /\ cached' = Snapshot(numbers')
    /\ UNCHANGED carried

\* Mutant: a reconciled strip keeps its revision.
SameRevision ==
    /\ RefreshList
    /\ strip' = IF cached' # cached THEN Reconcile(strip, cached') ELSE strip
    /\ reconciled' = (reconciled \/ cached' # cached)
    /\ UNCHANGED revision

\* refresh_windows: the strip is brought in step only when the list changed.
Refresh ==
    /\ RefreshList
    /\ strip' = IF cached' # cached THEN Reconcile(strip, cached') ELSE strip
    /\ revision' = IF strip' # strip THEN revision + 1 ELSE revision
    /\ reconciled' = (reconciled \/ cached' # cached)

\* PlatformHost::start refreshes the list and leaves the strip as it is; the
\* flush that follows finds no change.
HostStarts ==
    /\ phase = "drain"
    /\ ~started
    /\ started' = TRUE
    /\ RefreshList
    /\ marked' = {}
    /\ phase' = "rest"
    /\ UNCHANGED <<xVars, strip, revision, reconciled, view, calls, spent>>

\* The panels are announced when the refresh changed them, or were marked alone.
PanelsAnnounced ==
    IF "windows" \in marked THEN strip' # strip ELSE "panels" \in marked

\* flush_wm_changes.  Revision 0 is a shell that has not loaded its view.
Flush ==
    /\ phase = "drain"
    /\ started
    /\ phase' = "rest"
    /\ marked' = {}
    /\ IF "windows" \in marked THEN Refresh ELSE UNCHANGED <<engineVars, hostVars>>
    /\ view' = IF view.revision = 0 THEN view
               ELSE [windows |-> IF cached' # cached THEN cached' ELSE view.windows,
                     revision |-> IF PanelsAnnounced THEN revision' ELSE view.revision,
                     tasks |-> IF PanelsAnnounced THEN strip' ELSE view.tasks]
    /\ UNCHANGED <<xVars, started, calls, spent>>

\* The wait ends with an X event, or with another of the thread's sources.
Wakes ==
    /\ phase = "rest"
    /\ phase' = "drain"
    /\ UNCHANGED <<xVars, marked, started, engineVars, hostVars, view, calls, spent>>

-----------------------------------------------------------------------------
(* The shell and other clients of the bus. *)

ShellKeeps == UNCHANGED <<xVars, phase, marked, started, engineVars, hostVars, view>>

Send(new) ==
    /\ view.revision > 0
    /\ Spends("calls", MaxCalls)
    /\ Len(calls) + Len(new) <= QueueBound
    /\ calls' = calls \o new
    /\ ShellKeeps

WindowOps == {"activate", "minimize", "restore", "close"}
WindowCall(op, ref) == [op |-> op, ref |-> ref]

Seen(ref) == {w \in ToSet(view.windows) : w.ref = ref}

\* task_click_action: what a click on the button of a window asks for.
ClickCalls(ref) ==
    IF \E w \in Seen(ref) : w.mini
    THEN <<WindowCall("restore", ref), WindowCall("activate", ref)>>
    ELSE IF \E w \in Seen(ref) : w.focused
    THEN <<WindowCall("minimize", ref)>>
    ELSE <<WindowCall("activate", ref)>>

Click(i) == view.tasks[i].ref # NoRef /\ Send(ClickCalls(view.tasks[i].ref))

\* The menu of an entry that is not pinned.
MenuAsks(op, i) ==
    /\ ~view.tasks[i].pinned
    /\ Seen(view.tasks[i].ref) # {}
    /\ Send(<<WindowCall(op, view.tasks[i].ref)>>)

\* Commands about the strip carry the revision of the view; history: its tasks.
PanelOps == {"pin", "unpin", "move"}
PanelCall(op, app, from, to) ==
    [op |-> op, app |-> app, id |-> IdOf(view.tasks[from]), to |-> to,
     revision |-> view.revision, tasks |-> view.tasks]
AppCall(op, app) ==
    [op |-> op, app |-> app, id |-> << >>, to |-> 0,
     revision |-> view.revision, tasks |-> view.tasks]

AsksUnpin(app) == PinnedAt(view.tasks, app) # {} /\ Send(<<AppCall("unpin", app)>>)
AsksPin(app) == PinnedAt(view.tasks, app) = {} /\ Send(<<AppCall("pin", app)>>)
AsksMove(from, to) ==
    from # to /\ Send(<<PanelCall("move", view.tasks[from].app, from, to)>>)

-----------------------------------------------------------------------------
(* A call reaches the WM thread: at most one per wait, the caller waits. *)

Taken ==
    /\ phase = "rest"
    /\ started
    /\ phase' = "drain"
    /\ calls' = Tail(calls)
    /\ UNCHANGED <<listed, client, active, marked, started, spent, view>>

\* check_window and WindowService::get.
Accepted(ref) ==
    /\ ref[1] \in Listed
    /\ client[ref[1]].alive
    /\ numbers[ref[1]] = ref[2]

\* The command renumbers the window and sends the WM a message; closing
\* forgets the number.
RunWindowCall ==
    LET call == Head(calls)
        c == call.ref[1]
    IN  /\ calls # << >>
        /\ call.op \in WindowOps
        /\ IF Accepted(call.ref)
           THEN /\ Room
                /\ numbers' = [numbers EXCEPT ![c] = IF call.op = "close" THEN 0 ELSE next]
                /\ next' = next + 1
                /\ carried' = carried \cup {call.ref}
                /\ Post(call.op, c)
           ELSE UNCHANGED <<engineVars, events>>
        /\ Taken
        /\ UNCHANGED hostVars

PlacesOf(id) == Places(strip, LAMBDA e : IdOf(e) = id)

StripFor(call) ==
    CASE call.op = "pin" -> Pin(strip, call.app)
      [] call.op = "unpin" -> Unpin(strip, call.app)
      [] call.op = "move" -> MoveEntry(strip, FirstOf(PlacesOf(call.id)), call.to)

\* require_revision; a move needs its entry and a place in range.
PanelAccepts(call) ==
    /\ call.revision = revision
    /\ call.op = "move" => PlacesOf(call.id) # {} /\ call.to \in DOMAIN strip

\* No signal follows: Wm.changes is left alone.
RunPanelCall ==
    LET call == Head(calls)
    IN  /\ calls # << >>
        /\ call.op \in PanelOps
        /\ IF PanelAccepts(call)
           THEN /\ strip' = StripFor(call)
                /\ revision' = IF strip' # strip THEN revision + 1 ELSE revision
           ELSE UNCHANGED <<strip, revision>>
        /\ Taken
        /\ UNCHANGED <<events, engineVars, cached, reconciled>>

\* The shell starts, again perhaps: GetShellBootstrap.  What the one before had
\* not sent is gone.
ShellLoads ==
    /\ phase = "rest"
    /\ started
    /\ Refresh
    /\ view' = [windows |-> cached', revision |-> revision', tasks |-> strip']
    /\ calls' = << >>
    /\ phase' = "drain"
    /\ UNCHANGED <<xVars, marked, started, spent>>

-----------------------------------------------------------------------------

Environment ==
    \/ \E c \in Ids, app \in Apps : Opens(c, app) \/ Renames(c, app)
    \/ \E c \in Ids : Vanishes(c)
    \/ \E c \in Ids, op \in {"minimize", "deiconify", "activate"} : Asks(op, c)
    \/ DockChanges

WmTurn == HandleEvent \/ HostStarts \/ Flush \/ Wakes

Clients ==
    \/ \E i \in DOMAIN view.tasks : Click(i)
    \/ \E i \in DOMAIN view.tasks, op \in {"activate", "close"} : MenuAsks(op, i)
    \/ \E app \in Apps : AsksPin(app) \/ AsksUnpin(app)
    \/ \E i, j \in DOMAIN view.tasks : AsksMove(i, j)

Next == Environment \/ WmTurn \/ Clients \/ RunWindowCall \/ RunPanelCall \/ ShellLoads

Spec == Init /\ [][Next]_vars
-----------------------------------------------------------------------------
(* Properties. *)

RefSet == (Ids \X Nat) \cup {NoRef}
Snapshots == Seq([ref : Ids \X Nat, app : Apps, mini : BOOLEAN, focused : BOOLEAN])
Strips == Seq([app : Apps, pinned : BOOLEAN, ref : RefSet])

Messages ==
    [op : {"map", "destroyed", "minimize", "deiconify", "activate", "restore", "close"},
     id : Ids] \cup {Message("dock", NoId)}
EntryIds == ({"pin"} \X Apps) \cup ({"win"} \X RefSet) \cup {<< >>}
Commands ==
    [op : WindowOps, ref : Ids \X Nat] \cup
    [op : PanelOps, app : Apps, id : EntryIds, to : Nat, revision : Nat, tasks : Strips]

RefsOfCalls == {calls[i].ref : i \in {j \in DOMAIN calls : calls[j].op \in WindowOps}}

\* Types: every variable stays in its set and its bounds.
TypeOK ==
    /\ listed \in Seq(Ids)
    /\ client \in [Ids -> [app : Apps \cup {NoApp}, mini : BOOLEAN, alive : BOOLEAN]]
    /\ active \in Ids \cup {NoId}
    /\ events \in Seq(Messages) /\ Len(events) <= EventBound
    /\ calls \in Seq(Commands) /\ Len(calls) <= QueueBound
    /\ phase \in {"drain", "rest"}
    /\ marked \subseteq {"windows", "panels"}
    /\ started \in BOOLEAN /\ reconciled \in BOOLEAN
    /\ numbers \in [Ids -> Nat]
    /\ next \in Nat \ {0}
    /\ carried \subseteq Ids \X Nat
    /\ cached \in Snapshots
    /\ strip \in Strips
    /\ revision \in Nat \ {0}
    /\ view \in [windows : Snapshots, revision : Nat, tasks : Strips]
    /\ spent \in [opens : 0 .. MaxOpens, asks : 0 .. MaxAsks, calls : 0 .. MaxCalls]

\* However windows come, go, are renumbered and change their application while
\* entries are pinned, unpinned and moved: a window has one entry, an
\* application one slot, and a slot is empty only while no other entry of its
\* application has a window to give.
StripIsWellFormed == WellFormed(strip)

\* From the first change on, the entries stand for exactly the windows of the
\* platform's list, though they are edited step by step and the list is
\* replaced.
StripShowsCache ==
    reconciled => RefsIn(strip) = RefsOfList(cached)

\* A reference is good for one command: of two clicks on one snapshot, a repeated
\* call or one that was overtaken, at most one is carried out, also after the window
\* was closed, or another took its identifier, between the two.
OneCommandPerReference == \A ref \in carried : ~Accepted(ref)

\* The strip changes with the platform's list, or by a pin, unpin or move whose
\* sender has seen exactly the strip it changes.
ActsOnWhatWasSeen ==
    [][strip' # strip /\ cached' = cached =>
        calls # << >> /\ Head(calls).op \in PanelOps /\ Head(calls).tasks = strip]_vars

\* Windows that come and go leave the slots in their order.
SlotsKeepTheirOrder ==
    [][strip' # strip /\ cached' # cached =>
        \A i, j \in DOMAIN strip :
            i < j /\ strip[i].pinned /\ strip[j].pinned =>
                FirstOf(PinnedAt(strip', strip[i].app))
                    < FirstOf(PinnedAt(strip', strip[j].app))]_vars

-----------------------------------------------------------------------------
(* Statements that do not hold. *)

\* A click on the button of a minimised window is two commands; the first
\* leaves the reference of the second good.
ClickIsCarriedOut ==
    [][\A ref \in RefsOfCalls :
        /\ RunWindowCall
        /\ Len(calls) > 1
        /\ calls[1] = WindowCall("restore", ref)
        /\ calls[2] = WindowCall("activate", ref)
        /\ Accepted(ref)
        => Accepted(ref)']_vars

\* A command meets the window it was meant for: one that is managed has a number
\* that no command on its way carries.  The engine keeps the number of a window that
\* is gone (only closing by command forgets it) and gives it to the next with that
\* identifier.
NewWindowIsUnknown ==
    [][\A c \in Ids : c \in ToSet(listed') \ Listed => Ref(c, numbers[c]) \notin RefsOfCalls]_vars

\* With nothing on its way, the shell shows what the platform holds.
ViewIsCurrent ==
    phase = "rest" /\ events = << >> /\ view.revision > 0
        => view.tasks = strip /\ view.windows = cached /\ marked = {}

\* The strip shows the windows of the list from the start.
StartShowsWindows ==
    started => RefsIn(strip) = RefsOfList(cached)

\* An entry belongs to the application of its window.
EntryShowsItsApp ==
    \A i \in DOMAIN strip, j \in DOMAIN cached :
        reconciled /\ strip[i].ref = cached[j].ref => strip[i].app = cached[j].app
=============================================================================
