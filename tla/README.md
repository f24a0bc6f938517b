# FlameWM in TLA+

TLA+ modules of the parts of FlameWM whose correctness depends on order,
concurrency or failure: they are translated from the Rust source, model-checked
with TLC on small instances, and, for their types and all safety properties the
runs check, proved with TLAPS for every value of their constants. Source paths are relative to `crates/` unless
they start elsewhere.

`PROJECT.json` ties everything together: the components, the runs, the mutant of
a mapped definition that breaks each property, the source lines behind every
definition, the findings, the hazards and the theorems. All of the program is
Rust: about 95,000 lines with its tests. The C and C++ files of the repository are
IceWM and a C++ derivative of it, kept for reference under `src/.vendor`; nothing
builds them and no module models them, so a count of lines that looks at C and C++
only finds none of the modelled code.

| part | module | model-checked | proved |
|---|---|---|---|
| control mutation queue | `MutationQueue`, `FifoService` | `MutationQueue` | safety, refinement |
| stale-revision retry | `SystemRetry`, `OneCall` | `SystemRetry` | safety, refinement |
| client table of the WM | `WmClients` | `WmLifecycle`, `WmTwo`, `WmDies` | safety |
| icons of the shell | `IconPipeline` | `IconPipeline` | safety |
| display transactions | `DisplayTransaction`, `TrialChange` | `DisplayTransaction`, `DisplayStranded` | safety, refinement |
| audio provider | `PulseAdapter` | `PulseAdapter` | types and two invariants |
| quick controls | `QuickControls` | `QuickControls` | types and two invariants |
| task bar, window references | `TaskStrip`, `TaskBar` | `TaskBar` | safety |
| snap preview | `SnapPreview`, `LatestAnswer` | `SnapPreview` | safety, refinement |

## The system

FlameWM is a desktop environment for X11: a window manager, a panel shell, a
desktop surface and a settings program, built from some thirty crates. Four
processes matter.

* **The WM process** (`flamewm-wm-x11`) is one thread over one calloop reactor.
  It owns the client table (`wm.rs`), and next to it, on a second X connection,
  a `PlatformHost` (`flamewm-platform`) over the engine `X11Desktop` (`lib.rs`),
  which the D-Bus control server exposes to everyone else. The platform keeps
  the product state: windows and their generations, workspaces, panels and task
  strips, display transactions, shortcuts, settings, system state.
* **The shell** (`flamewm-shell`) draws panel, start menu and popups. It keeps a
  snapshot of the platform's state, refreshed on D-Bus signals, and sends every
  change back as a control request through a mutation queue drained by a worker
  thread. Icons are resolved by a second worker.
* **The quick-control host** is a child process of the shell, supervised by it.
* **The desktop process** (`flamewm-desktop`) draws icons and sticky notes and
  uses the same mutation queue.

### Components, their state, and what makes them correct

| component | state | operations | hard behaviour | correct when |
|---|---|---|---|---|
| control mutation queue (`control-core/mutations.rs`, `control-dbus/mutation_queue.rs`) | pending and result FIFO, closed flag, condvar, wake socket | submit, take, push, drain, close, join | two threads, wake bytes and results move separately | nothing lost, reordered or answered twice; no lost wake-up; shutdown drains |
| stale-revision retry (`mutation_queue.rs`, `platform/system.rs`) | revision and provider generations | call, refetch, retry | providers rotate between two calls | a secret or a volume never reaches a provider that rotated; at most one retry |
| WM client table (`wm-x11/wm.rs`) | clients, frames, minimised, workspace, `ignore_unmap`, active | manage, unmanage, minimise, restore, focus, close, workspaces | X events are read later than they happen; the WM's own unmaps look like the client's | no window lost or thrown out; focus and published state coherent |
| window references (`wm-x11/lib.rs`) | generation of each window | activate, minimise, restore, close | commands carry a generation seen earlier | a command never hits another incarnation |
| display transactions (`platform/display.rs`, `services/display.rs`, `wm-x11/lib.rs`) | pending change, cached snapshot, engine's pending mode | begin, keep, revert, tick, refresh | RandR may refuse, outputs vanish, the client dies | one pending change, known to both sides; an unconfirmed mode is reverted |
| panels and tasks (`platform/task.rs`, `panel.rs`) | pinned apps, entries per panel | reconcile, pin, unpin, reorder | many small list edits | every window exactly once, every pin exactly once |
| workspaces (`platform/workspace.rs`) | ordered workspaces, current | insert, remove, activate | references by index across edits | stable identity, current exists |
| shortcuts and settings (`platform/shortcuts.rs`, `settings.rs`) | bindings, revision, config file | set, clear, reset, apply, persist | prepare, commit, rollback across engine and disk | no two actions share a binding; memory, engine and disk agree |
| icon pipeline (`shell/async_projection.rs`, `icon_loader.rs`, `integrations-linux/icon_service.rs`) | bindings, cache, queues, epochs | request, complete, reproject | results arrive after the view changed | an icon is never beside another application's label |
| quick-control supervisor (`shell/quick_controls/supervisor.rs`) | child, protocol state, restart budget | spawn, message, exit, restart | child dies at any time | bounded restarts, no stale child |
| frame interaction (`wm-x11/frame/*`) | one pointer session per frame | press, motion, release, cancel | grabs lost mid-way | no stuck session or grab |
| snap preview worker (`wm-x11/snap_preview/worker.rs`) | latest request, latest result | submit, render, drain | latest wins across threads | never an older preview over a newer |
| integrations (`integrations-*`) | provider snapshots, generations | owner changes, updates, commands | owner loss, late replies | stale replies are dropped |
| desktop (`desktop-core`) | icons, sticky notes, trash | layout, save, move to trash | partial failure on disk | nothing lost |
| rendering, UI toolkits, encoding, profiler, canary | layout, pixels, encodings, tests | | | outside the models |

Components interact through four channels: direct calls inside the WM process;
control requests and signals over D-Bus; X events and properties between the WM,
its engine connection and clients; and worker threads that hand results back
through a wake file descriptor.

## Modules

### `MutationQueue`, `FifoService`, `MutationQueueProofs`

The queue between a UI thread and the worker that calls the control bus. An
action is one critical section of the queue's mutex, or one access to the wake
socket pair, because the code performs the two separately: `push_result`
publishes the result (`PushResult`) and then writes a byte (`WriteWake`);
`try_recv_result` pops (`PopResult`) and then reads up to 64 bytes (`ReadWake`).
`Notified` is the condition variable. A mutation is its id: lanes, requests and
outcomes do not steer the queue.

`FifoService` is the promise in three variables; `ImplementsService` is the
refinement, with the accepted mutations read off `next_id` and the answered ones
off the last result delivered.

Run `MutationQueue` checks five properties over all interleavings of six
mutations through a queue of two and a socket of two bytes: small enough that
the queue is full, the socket overflows and several results are drained by one
wake, all of which the run reaches. `NoLostWake` is the
pairing of results and bytes, `ShutdownDrains` what a shutdown leaves behind,
`AcceptedIsAnswered` and `ShutdownReturns` the liveness of both threads. Its types,
`ExactlyOnceInOrder` (which the refinement implies) and `SleepIsJustified` are
proved. `ComesToRest` does not hold: a wake byte can outlive its result, and then
the level-triggered reactor source keeps the idle UI thread spinning.

Fairness: the worker and the drain callback are weakly fair (the OS schedules
both threads and a bus call returns, bounded by libdbus's timeout), and so is
the return of `join`. Submissions and shutdown carry none.

### `WmClients`, `MCWmClients`

The client table of the WM with the X server it drives. The server part is what
the WM relies on: the event queue of its connection, which windows exist, are
mapped and are watched. Clients map, unmap and destroy their windows at any
time; pagers (and `X11Desktop`) send client messages; the WM handles one event
to the end before the next. What makes this hard is in the model: an event is
read later than it was queued, round trips see the present, and the unmaps the
WM causes itself (by reparenting a mapped window or hiding a frame) arrive on
the same queue as the client's and are told apart by `ignore_unmap` only.

`Manage`, `Unmanage`, `Iconify`, `Deiconify`, `Activate`, `CloseAsks`,
`CloseKills`, `MoveToWorkspace`, `SwitchWorkspace` and `SetWorkspaceCount` are
the handlers of the same name in `wm.rs`; `Die` is an error that leaves
`run_reactor`; `Ignore` collects the early returns. Geometry, titles, icons,
docks and popups are left out: they change none of these variables.

| run | instance | shows |
|---|---|---|
| `WmLifecycle` | one window, queue of 3, patient client, every message | unmaps of the WM's own making never throw a window out; a window that asks is framed; a destroyed one is forgotten; one that should be visible is on the screen |
| `WmTwo` | two windows, the second a transient of the first and hasty, queue of 3; minimise, move, change of the workspace count | the focus stays coherent, also when windows are adopted again; the published workspace follows the WM's, except for a transient of a window on another workspace |
| `WmDies` | one window | a finding, see below: a MapRequest read after its window is gone ends the event loop |

`DesktopIsTold` names its exception (`FollowsOwnerAway`), which `WmTwo` reaches: manage
puts a transient on the workspace of its owner and publishes the current one.
`WmSurvives` is about the event loop; a window that goes away while `scan_existing`
still adopts the windows found at the start ends the WM as well (`ScanDies`,
wm.rs:1903), and is not what the finding counts.

Bounds: `QueueBound` unread events is where clients and pagers pause, and a
handler may add up to four more, beyond the bound. That is enough for the
reparent unmap, a client unmap, a map request and a message to be unread
together, which is where `ignore_unmap` can go wrong.
Two workspaces and `IgnoreMax = 2` (255 in the code) keep the saturation reachable;
`WmTwo`, whose properties do not depend on the count, has 1.
A *patient* client waits until its MapRequest is read, as toolkits do; a *hasty* one
does not. `NeverThrownOut` and the liveness properties are about patient clients: a
hasty one can start the WM on a loop of its own, see `OwnEventsRunDry` below.
`ReadBound` is where the model stops reading: with a patient client 20 is out of
reach, with a hasty one 4 cuts that loop short, so `WmTwo` checks no liveness.
Six frame ids are more than can be
live or named by an unread event at once, so the guard of `Manage` that asks for a
free one never holds it back. The theorems need none of these bounds: they hold for
every number of windows, owners and unread events, patient clients or not;
`NeverThrownOut` alone is proved of patient clients only.

Fairness: `WF_vars(WmStep)`. The loop never sleeps on unread events. Clients and
pagers owe nothing. `CHECK_DEADLOCK FALSE`: once every window is destroyed, or the
WM is dead, nothing happens.

### IconPipeline

`IconPipeline` composes the pieces through which an icon reaches a task slot of the
panel: the snapshot and its dirty flags (`shell/runtime.rs`), the projections
(`shell/async_projection.rs`), the loader and its worker thread
(`shell/icon_loader.rs`) and the tick (`shell/app.rs`).

| state | code |
|---|---|
| `view`, `dirty` | application of each slot in `ShellSnapshot.panels`, and `ShellDirty` |
| `label`, `shows`, `onPanel` | what the document has: label and image of each slot, and which slots are visible |
| `binding`, `epoch` | `IconBinding` of each target and the view epoch of the task slots |
| `cache` | names in `icon_cache()` |
| `pending` | `IconLoader.pending` |
| `requests`, `results` | the two `sync_channel`s |
| `wake` | the loader's wake socket has a byte to read |
| `ui`, `at` | where the UI thread is: dispatch, events, drain, refresh; and the slot a projection is at |
| `inHand`, `posting` | the worker between `recv`, `try_send` and `write_all` |

There are two projections. When the windows have changed, `project_task_slots_async`
moves the view epoch and goes through the slots, label and icon each (`Project`,
`ProjectNothing`, `ProjectCached`, `ProjectMissing`); it is not one step: the worker may
take, finish and announce requests between two slots of it. When the panels alone have
changed, `project_panel_geometry` shows and hides the slots for the new strip and
touches neither label, icon nor epoch (`ProjectGeometry`). The two signals may come in
one turn or in two. The first projection, before the loop, has no loader (`Init`).

The UI turn has the order of `run_surface_runtime_with_reactor_access`: dispatch (the
wake source empties the pipe, the signals are noted), events, tick (`drain_icons`, then
`refresh_dynamic`).

`IconPipeline` checks two slots over three applications with both channels holding
one message:

* `RightIcon`: the icon beside a label is that of the label's application, or the
  placeholder, whatever arrives late. The mutant that compares the name and not
  the epoch breaks it: request `a`, project `b` from the cache (which leaves the
  binding of `a` in place), then the result for `a`. That label and icon are those
  of the application the snapshot has in the slot is more than the code does, see
  `SlotIsCurrent` below.
* `OneResolvePerKey`: what is queued, being resolved or finished is pending, and
  is there once. The mutant that asks whatever `pending` says breaks it.
* `ResultsAreDrained`: a finished result does not wait for a user event.
  Fairness: both threads are scheduled, and dispatch returns when the wake pipe
  holds a byte (the source is level-triggered).

`NoResultIsStranded` is what the last one needs at every instant: the thread does not
block on a finished result whose byte is neither unread nor about to be written. It
is proved, and no run lists it.

What the module states and the code does not keep are `PendingIsOnItsWay` and
`SlotIsCurrent`, see "Statements that do not hold".

Bounds: `MaxEpoch` projections of the slots (3, the first among them), any number of
signals and geometry passes; rooms of 1 so that two slots and one key in
the worker's hand fill both channels. With 16 and 8 slots per domain the code
fills them when several projections fall in one turn. The slots of the
Start menu, which has an epoch of its own, only share the channels. A slot without a
label keeps the icon it had, so that is not constrained.

### DisplayTransaction, MCDisplayTransaction, TrialChange

A mode change is in effect from the moment it is begun and is then kept or
reverted. Three parties remember it: the X server (which mode is set on which CRTC), the
engine (`X11Desktop.pending_mode`, with the mode to go back to) and the platform
(`DisplayCoordinator.pending`, with the deadline).

| state | code |
|---|---|
| `connected`, `crtc`, `mode`, `time` | the X server: connected outputs, the CRTC of each, the mode of each CRTC, `config_timestamp` |
| `engine`, `issued` | `X11Desktop.pending_mode`, `next_transaction` |
| `coordinator`, `cached`, `seenTime` | `DisplayCoordinator.pending`, `DisplayService.cached`, `engine_generation` |
| `call` | the `begin_mode` being handled, between its X requests |
| `answer`, `held` | what each client was last told, and `pending_display_transaction` of `SettingsClient` with the output and mode its user was shown |
| `confirmed` | history: what each output shows for good |

A mode is set on a CRTC, and several outputs may be on one (a mirror). `apply_mode`
sets the CRTC with all its outputs, `revert_mode` with `&[pending.output]` alone, so
a rollback takes the picture from the mirrors: `BeginApply` and `RevertPending` do
the same, and an initial state may have any outputs on one CRTC or on none.

`begin_mode` is three steps because it uses what it read before a later X
request: the snapshot it checks, the mode it sets, the snapshot it publishes.
Hotplug may fall between them. The other handlers are one step: either they do
one X request, or a reconfiguration between their requests is the same as one
before or after the handler (`refresh` decides on a timestamp that only grows).
`MaxFaults` bounds the X requests that are refused or fail, at every place where
the code handles it: the rollback, the mode change, the trailing snapshot.

* `DisplayTransaction` (two clients, two outputs, two CRTCs, two changes, one shell
  scale, timestamp up to 3, one fault, the timer served or not at any time,
  symmetric outputs, CRTCs, modes and clients): `SidesAgree`, `AnswerIsLive`,
  `UnconfirmedIsRevertible`, `KeepsWhatItWasAsked` and `ImplementsTrial`. Two
  changes are needed for a client to hold the number of one that is over while
  another is pending; timestamp 3 is the first that strands a change by time.
  `KeepsWhatItWasAsked` compares what the keeping client was shown with what the X
  server has set; were a number given twice, a late keep would confirm a mode its
  user never saw. `ImplementsTrial` says that the module implements `TrialChange`: at
  most one change is on trial, its number is new, the outputs that show one picture
  go together, and it ends in one of two ways, kept as it was tried or undone, where
  the output of the change and all that took no part are as before and the mirrors
  have lost their picture. `pictures`, `kept`, `trial` and `last` of `TrialChange`
  are `Picture`, `confirmed`, `engine.transaction` and `issued`, `mirrors` the other
  outputs of the pending CRTC; hotplug, deadlines, snapshots, requests refused and
  the platform's own copy of the change are not visible there. The mutant that
  forgets the change and leaves its mode set ends a trial in a third way. The
  constant `TimerRuns` adds the platform's own timer, so the run covers the program
  both without it, as it is, and with it.
* `DisplayStranded` (`TimerRuns = FALSE`, one client) is a violation run, see
  Findings. With `TimerRuns = TRUE` the same property, `UnconfirmedEnds`, holds:
  the timer would end every expired change, also after a refused rollback.
  Fairness: the WM finishes the request it handles, time passes, the timer, where
  there is one, is served.

`CHECK_DEADLOCK FALSE`: the bounds let the model run out of steps.

Shell scales are kept as a bump of the cached generation. The connection to the
X server itself does not break (the WM process ends with it), so `flush` does
not fail.
Nobody but the WM sets a CRTC: a reconfiguration by another program between a begin
and its end is not modelled, hotplug is.
### PulseAdapter

Two threads share the audio provider. PulseAudio's main loop runs every callback
of a context and changes the controller; the WM thread drains a bounded channel
of snapshots into the product's state and sends volume commands.

| state | code |
|---|---|
| `up`, `life`, `level` | the audio server: running, which incarnation, what it would list |
| `context`, `asked` | the `Context` in the slot with the generation its callbacks captured; replies outstanding on it |
| `ctl` | `PulseController`: generation, server generation, state, listed endpoints, `reconnect_attempts` |
| `timer` | the reconnect timer is armed for a retry |
| `channel` | the `sync_channel` between the two threads, `ChannelRoom` for 32 |
| `service` | `SystemService.snapshot.audio` |
| `command` | a command that passed validation and waits for the main loop's lock |
| `lost`, `barren`, `hit` | history, read by the properties only |

`life` is what the code does not have: the identity of the server behind an
index. `KnowsItsServer` says with it that generation fencing works for replies;
`CommandMeetsItsServer`, which does not hold, says the same for commands.

* `PulseAdapter` (two incarnations, two attempts, two changes, room for two):
  `KnowsItsServer`, `RetryIsPending` (no failure ends in silence while attempts are
  left) and, as long as nothing was dropped, `CatchesUp`.
* `Reconnects`, `ResultArrives`, `NoRetryStorm` and `CommandMeetsItsServer` do not
  hold, see "Statements that do not hold".

Fairness: each kind of callback that stays possible is run by the main loop, the
server answers what it was asked, and the WM drains its channel and finishes its
command. Server changes are not fair. `CHECK_DEADLOCK FALSE`: after its last
change and its last attempt the system rests.

### SystemRetry, OneCall

The worker of the mutation queue executes a system action with up to three
requests: the action, `GetSystem` if the action was refused as stale, the action
again under the fresh revision. Providers rotate and the service's revision
moves between any two messages. A call is a message in the WM's socket (`wire`)
and a `reply`; a call that is given up leaves its message behind, and the WM may
still execute it while the worker is at the next mutation.

`OneCall` is the promise to the user: at most one effect, in order, success and
refusal tell the truth, and "unavailable" leaves both outcomes open.
`ImplementsOneCall` is the refinement, with the identity as mapping.

An action is read in two steps, as in the code: `Validate` (the revision and the
generation in `SystemService::perform_action`, the generation in the adapter)
and `Serve`. In between the WM's thread is busy, so the service and the network
adapter, which live on it, stand still; the PulseAudio adapter checks under the
lock of its controller, releases it and sends under the lock of the main loop,
and PulseAudio's thread may take a lost server and its successor in between.
`Threaded` names such providers.

* `SystemRetry` sets `Flattened = FALSE`: the worker sees the code of an error,
  as the unit tests script it. Two mutations, revisions to 2, one rotation for
  each of three providers (network: guarded; audio: guarded and threaded; media:
  neither), which is enough for a retry that goes stale again and for a late
  request that meets the next one. `RightProvider` holds through three guards
  (the retry's, the service's, the provider's), each of which covers a different
  moment. It says of every guarded provider that its last check was against the
  generation the user saw, and of network that the effect was under it. For
  audio the second half (`RightServer`) is false: Take, Validate, Rotate, Serve.
* With `Flattened = TRUE`, which is what `ControlClient::call` does,
  `StaleIsRetried` does not hold: the retry is never reached. The safety properties
  are proved for both values.

Fairness: a call returns, by its reply or by its timeout. `CHECK_DEADLOCK
FALSE`: after the last mutation nothing is left to do.

### QuickControls

The shell supervises a child process, `flamewm-shell --quick-control-host`, that
owns the audio, network and calendar popups. They share nothing but a pipe.

| state | code |
|---|---|
| `shell` | the life of the shell; `"quitting"` is `shut_down` in `shutdown` |
| `held`, `restarts`, `pending` | `child.is_some()`, `restarts`, `pending` of `QuickControlSupervisor` |
| `pipe` | the child's standard input: whole lines, because a line is shorter than `PIPE_BUF` |
| `helper` | the stage of the child process; `"exited"` is a process that has not been reaped |
| `inbox`, `eof` | `ParentInput` behind its mutex |
| `queue`, `stopping` | `HostState.queue`, `HostState.shutdown` |
| `open`, `mapped`, `grab` | `HelperSurfaces.open`, and what the X server shows and grabs |
| `opening` | the popup `open_request` is at work on |
| `asked` | history: the shell's last request, written or not |
| `written`, `overrun` | history: the last line written to this child, and whether its full pipe refused one since |

A cycle of the helper's reactor reads the pipe (`HelperReads`), handles X events
(`UserCloses`) and takes a turn (`TurnBegins`, `Coalesce`, `RunCommand`,
`PopupShown`, `PopupGrabbed`, `TurnEnds`). The turn is cut in steps because the
shell writes, and either process may die, in the middle of it.
`coalesce_commands` is taken from the front: an `OPEN` right before an `OPEN` is
skipped, which is the sequence the code builds. An `OPEN` closes the popup that is
open, then goes through the stages of `open_request`: projecting, measuring and
placing may fail with nothing on the screen (`PopupShown`); the grab may be refused
with the window mapped, and then the window is closed again (`PopupGrabbed`). `show`
has no failure after it mapped the window: `present_scene` (render-x11
app/render.rs:325) always succeeds.

* `QuickControls` (two popups, three lines, two restarts): `OnePopup`,
  `LastAskedIsShown`, and the liveness properties `ExitIsHandled`, `NoOrphan` and
  `PipeIsServed`. Three lines let an `OPEN` be superseded while a third line waits;
  two restarts let a helper die, come back, die again and stay away.
  `LastAskedIsShown` speaks of what the shell asked for, not of what it could write.
  Requests that find no helper, or a dead one, are lost as well, but then nothing is
  shown; a request that finds the pipe full is the one exception (`overrun`), and
  without it the statement (`LastAskedWins`) is false. `OnePopup` holds in the middle
  of a turn too, where a crash would find the screen.
* `StalledOpenIsSent`, what the comment of `open` says of a request that could not
  be written, does not hold, see "Statements that do not hold".

Fairness: the shell's turn is run at least at every tick of its clock timer and
polls the child; the helper's reactor is woken by its pipe and runs its turn to the
end; `kill` and `wait` follow each other. Clicks, deaths and the user are not fair.
`CHECK_DEADLOCK FALSE`: after both processes ended nothing happens.

### TaskStrip, TaskBar, MCTaskBar

From a window to its button and back. `TaskStrip` is the strip of the panel as a
value (`platform/task.rs`): entries in the order they are drawn, slots of pinned
applications among them. `Reconcile` is the pass that brings it in step with the
window list (`services/panels.rs`): `DropGone` is a fold over the entries, of which those
without a window lose theirs, and `AddAll` one over the windows of the list. A
filter of the code (`retain`, `filter`) is `Chosen`, a fold too: the provers cannot
look into `SelectSeq`.
`TaskBar` keeps one strip in its state, with everything on the way between the X
server and a click:

| state | code |
|---|---|
| `listed`, `client`, `active` | `_NET_CLIENT_LIST`, the windows behind it, `_NET_ACTIVE_WINDOW` |
| `events`, `phase`, `marked` | unread X events; before or after the hook of a turn; `Wm.changes` |
| `numbers`, `next` | `X11Desktop.generations`, `next_generation` |
| `cached`, `strip`, `revision`, `started` | `WindowService.cached`, `PanelService.tasks` and its revision, `PlatformHost::start` has run |
| `view` | the `ShellSnapshot` |
| `calls` | commands on their way, each with what its sender saw |
| `reconciled`, `carried`, `spent` | history; what is used of the bounds |

A turn of the WM thread drains events (`HandleEvent`), runs the hook (`Flush`:
refresh, reconcile, announce), drains again and blocks; a command of the bus is
served between two turns (`RunWindowCall`, `RunPanelCall`, `ShellLoads`). Every
command of `X11Desktop` gives its window a new number, and every one carries the
number its sender saw.

Signals and calls are FIFO and the shell only reacts, so a snapshot read late is a
command that arrives late: snapshots reach the view at once and only calls wait.
One snapshot is read at one moment. Maximising, geometry, titles, the outputs and
the size of the panels are left out, with the revision bumps of the latter; an X
identifier is not used again before the WM has forgotten the window that had it.

Run `TaskBar`:

* `StripIsWellFormed`: a window has one entry, an application one slot, a slot is
  empty only while no entry of its application has a window to give. Its mutant
  forgets the sibling that must leave its own place when it fills the slot.
* `StripShowsCache`: from the first change on the entries stand for exactly the
  windows of the list. Before it they need not, see below.
* `OneCommandPerReference`: of the commands that carry one reference at most one is
  carried out, also when the window was closed, or its identifier taken by another,
  between the two. Its mutant lets every window count from 1. The property does not say that
  the one meets the window it was made for: the engine keeps the number of a window
  that is gone, and `NewWindowIsUnknown` below is false.
* `ActsOnWhatWasSeen`: a pin, unpin or move changes exactly the strip its sender
  saw, or nothing. The mutant that leaves the revision alone when a refresh changes
  the strip breaks it.
* `SlotsKeepTheirOrder`: windows that come and go leave the slots in their order.

Bounds: two identifiers, two applications, one window opened beside those at the
start, two asks, two commands, two commands waiting, one unread event. Two
applications are needed for a slot to move past another, two identifiers for a
sibling, two commands for one that is overtaken. Identifiers and applications are
symmetric: nothing orders them, and the properties of the run are safety
properties.

### SnapPreview, LatestAnswer

The overlay that shows where a dragged window would land is drawn at once, and
later on top of a picture of the screen that a worker thread reads back from the
X server. The WM thread and the worker share a mailbox of one request, a slot of
one result and a socket pair.

| state | code |
|---|---|
| `wm` | where the WM thread is: handling events, between `drain_wake` and `take_result`, blocked in `dispatch`, in `Drop` |
| `generation`, `target`, `visible`, `backdrop` | `SnapPreviewSurface`: generation, candidate and geometry, visible; the request whose pixels the document shows |
| `mailbox`, `last` | `SnapPreviewWorker.requests`, `.last_request` |
| `stopped`, `result`, `bytes` | the flag, the slot and the unread bytes |
| `worker`, `job` | where the worker thread is, and on what |

One action is one critical section of a mutex, one access to the socket, or what
the WM thread does alone in between. That is what the code leaves open: the worker
may be between its look at `stopped` and its `wait` (`"locked"`), between storing
a result and writing its byte (`"waking"`), or capturing for a request that is
void. Every drawing call, the capture and the creation of the surface may fail.

Run `SnapPreview`:

* `BackdropIsCurrent`: what is on the screen is the request sent last, for the
  present candidate and generation, and its picture was taken for that request and
  no other. The mutant compares the candidate and not the generation: move away,
  come back, and the first capture is shown.
* `RequestsPassOnce`: what the document shows, what was captured, what is being
  captured and what waits are each older than the next. So a request is captured
  once, and never after a younger one. The mutant that leaves the request in the
  mailbox captures it twice.
* `ImplementsLatest`: the preview implements `LatestAnswer`, which knows neither the
  worker nor its mailbox, slot or socket: a number, what is asked for and on the
  screen, and the picture it shows. A preview comes to the screen only by being asked
  for, without a picture; its own picture may come once and stays; it goes at any
  time. A late answer that brought a hidden preview back, or replaced a picture,
  would be no step of it. `asked` is mapped to `last` and `shown` to `backdrop` while
  the surface is visible, and both to `None` while it is not: a hidden document keeps
  its old backdrop. The mutant that keeps the backdrop in an update shows the old
  picture for the new request.
* `RequestIsAnswered`: a preview that stays gets its picture, or is hidden because
  that failed, through a mailbox and a slot that are overwritten and a socket that
  drops bytes. The mutant that keeps the older of two requests loses the newest.
* `DropReturns`: the thread that drops the worker gets through its `join`, except
  from one state of the worker. The exception is real, see `DropAlwaysReturns`
  under "Statements that do not hold".

`SnapAssumption` says of the constants that `None` is neither a candidate, a request
nor a result, as an `Option` guarantees, and that socket and generations have room for one.

Bounds: two candidates, seven generations (every update and every hide takes one),
two bytes: enough for a request to be replaced in the mailbox and to be void while
its capture runs, and for the socket to be full. `CHECK_DEADLOCK FALSE`: after
`Drop` both threads are gone.

Fairness: the WM thread goes through its turn and through `Drop` (its loop has no
other wait than `dispatch`, which returns when a byte is there), and the worker
runs: it holds no lock while it captures, and the X server answers. No event, error
or spurious wake-up is fair.

## Proofs

`MutationQueueProofs` proves, for every capacity, socket size, read chunk and
number of mutations (`QueueAssumption`: the first three are positive), that
`Spec` satisfies `TypeOK`, `ExactlyOnceInOrder`, `NoLostWake`,
`SleepIsJustified` and `ShutdownDrains`, and that it implements `FifoService`.
None of the five is inductive by itself: `QueueInv` joins them with `PlacesOK`,
which says what a thread's position implies (an exited worker left an empty,
closed queue behind; a UI thread that joins has closed the queue; a worker that
is not executing holds nothing). `ExactlyOnceInOrder` is preserved because the
two ends of a FIFO move by one place (`PutLemma`, `PopLemma`); `NoLostWake`
because the pop leaves the thread draining until it has seen an empty queue and
the byte is written by a worker that is in `waking` until then.

`SystemRetryProofs` proves, for every set of providers, guarded or not, every
number of mutations, revisions and rotations, for providers that rotate on a thread
of their own or not, and whether the call keeps the code of an error or not
(`RetryAssumption`), that `Spec` satisfies `TypeOK` and
`RightProvider` and implements `OneCall`. The argument is about what is still in
the WM's socket. `RetryInv` says that the messages there are in the order of
their mutations, that each carries the provider and generation its user saw, and
that a mutation with a message left has had no effect and no refusal
(`WireOK`, `OrderOK`); that the last message belongs to the call under way
(`CallOK`); and that a worker which holds a refusal, or looks at a fresh
snapshot, has no message of its mutation left (`ReplyOK`). The last one is why a
retry is no second effect, and why a call that timed out, whose message is left,
must not be retried: the step of `FirstReturns` needs it. `CheckOK` carries the check of an
action to its effect: what was checked is still the first message, and the provider is
still where it was unless another thread moves it (`ValidateStep`, `ServeStep`). Reading a message
preserves `RetryInv` by `PopStep`, sending one by `SendStep`, answering the user
by `DoneStep`. The bounds `MaxMutations`, `MaxRevision` and `MaxRotations` are
constants of the theorems, so they are limits of the runs only.

`WmClientsProofs` proves for any number of windows, transients, workspaces and
unread events (`WmAssumption`) that a visible window has its frame on the screen,
that the focus is on a managed window that is not minimised and is the one
published, and that no window is on a workspace that does not exist. The three are
inductive together with the types: a handler keeps them whatever it finds in the
queue, so neither a bound on the queue nor the patience of clients is used.
`ManageStep` and `UnmanageStep` are the two ways into and out of the table; every
other handler changes one window of it, or all in one pass. `WmTypeCorrect` adds
what the server holds and the width of `ignore_unmap` (`Around`). `DesktopAlwaysTold`
is a fact about each step, for any owners: its one help is that a window
`scan_existing` has still to adopt has no frame yet (`Unadopted`), so the adoption that
follows an owner is the only step whose published workspace differs.

`NeverThrownOut` needs what the queue holds. The WM tells its own unmaps from those
of a client by counting, and the proof by their place: an unmap that a reparent
causes is followed by a MapNotify (`Followed`). `Calm` says of a window that an
unmap which a map follows is the only one of its kind, is still counted by
`ignore_unmap` and is read before any unmap of the frame, which the same counter
counts (`Counted`); that any other unmap is the client's (`Meant`); that a window
without a frame is mapped only while the scan is to adopt it (`Unframed`, `Listed`);
and that the one unread map request comes after every unmap (`OneRequest`). The last
is where patience is used: a hasty client puts an unmap behind its request, and
`OwnEventsRunDry` below shows what follows. `Calm` is kept for each patient client
by itself, whatever the others do (`PatientStays`); that every client is patient is
the hypothesis of `NobodyIsThrownOut`. A step that adds nothing about the window
keeps it by `QuietStep`; the rest are the eight actions that are about it. TLC checked
`Calm` on the instances of the three runs before it was proved.

`WorkerProofs` proves `RightIcon`, `OneResolvePerKey` and the types for every
number of slots, set of names and size of the two channels. `BindingsAreLive` makes
the first inductive: a binding counts only in the view epoch in which it was made,
and one projection passes each slot once, so the slot of a binding that counts has
been passed and nothing has changed its label since. For the second the worker's
hand, the two channels and `pending` are one bag: a key is in one place of it.

`NoResultIsStranded` is proved beside them: the thread reads bytes only before it
takes every result, so a result that is left came after the drain, and its byte is
unread or still to come.

It proves the snap preview too, whose worker is the other thread that answers late,
for any candidates, room of the socket and number of generations (`SnapAssumption`):
`BackdropIsCurrent`, `RequestsPassOnce`, the types, and that it implements
`LatestAnswer`. `SnapInv` says that a request in the mailbox, the hand of the worker or
the slot is the one sent last or carries an older generation, and that no generation
is ahead of the preview's (`RequestsAreInOrder`): a result with the present candidate
and generation is therefore the answer to the last request. `PassInv` adds
`RequestsPassOnce`, which is inductive because a request moves one place at a time and
a new one has a generation of its own, and `ShownIsWanted`: a surface is on the screen
as long as there is a candidate. The last is the heart of the refinement
(`SnapRefinement`): a result is shown only for a candidate that is there, so drawing it
brings no hidden preview back, and what is replaced was no picture or the same one.
From `PassInv` follows also `NewestIsUnderWay` (`SnapNothingLost`), what
`RequestIsAnswered` needs at every instant: mailbox and slot are overwritten only by
what is younger (`NextNewest`), so the request that is lost is never the newest, the
worker is awake for it, and the byte for its result is there or about to be written.

`DisplayTransactionProofs` proves the four safety properties of the run, the types and
the refinement, for any outputs, CRTCs, modes, clients, changes and failures, with the
timer or without. What makes them inductive is `OldIsConfirmed`: an output whose CRTC has
no pending change shows what is confirmed, and the mode the engine would go back to is the
confirmed one of every output of its CRTC. `ModeApplied` and `PictureReverted` say what
setting a CRTC does to each output's picture, with all its outputs and with one of them.
`KeepsWhatItWasAsked` is proved from what a client may hold (`HeldInv`): a number that was
given, and if it is the pending one, the pending output and mode, which the CRTC shows
(`OfferIsSet`); the guard on the number alone would not do, since it says nothing of what
the user was shown. The refinement follows from `BeginTries`, `KeepKeeps` and
`RevertUndoes`: a change begins from confirmed pictures and its end leaves only the
mirrors without theirs. `DisplayRestores` adds that where no two outputs share a CRTC
(`Unmirrored`) an undone change leaves every picture as it was; with mirrors this is
false, see `UndoneIsAsBefore`. `SidesAgree` is needed where a change ends: what the
platform reverts is what the engine holds.

`PulseAdapterProofs` proves `KnowsItsServer`, `RetryIsPending` and the types for every
backoff, channel and number of restarts. The list of the controller is emptied
before the context changes and filled only by a reply to the present one; the
strengthening is that a context which still connects has listed nothing.

`QuickControlsProofs` proves `OnePopup`, `LastAskedIsShown` and the types for every set
of popups, room of the pipe and restart budget. The last line written travels
(`Carried`): it ends the first of pipe, inbox and queue that is not empty, and when
all are empty it has been carried out. `Stages` says which of the three can be
filled in which stage of the helper, and `Heard` that the last line written is the
last request, or the child has been asked for nothing yet, unless its pipe was full.

`TaskBarProofs` proves everything the run checks, for any identifiers, applications
and bounds.

* The strip. `ReconcileKeeps` is the result to read first: from any well-formed strip
  and any window list, `reconcile_windows` yields a well-formed strip that shows
  exactly the windows of the list and keeps the slots in their order. `Reconcile` is
  two folds, and a property of a fold is an induction. The induction theorems of the
  library take the property as an operator, which the provers cannot instantiate;
  `InductionUpTo` takes a set instead, and follows from the well-foundedness of the
  naturals (`WFMin`). `FoldOfFirst` says once what a fold is, place by place
  (`AddSteps`, `DropSteps` and `ChosenSteps` apply it), after which one step of the fold
  is an ordinary lemma: `AddKeeps`, `RemoveKeeps`. Pin, unpin and move have theirs.
* The path. `Inv` joins the types, `StripIsWellFormed` and `StripShowsCache` with
  `NumbersAreOld` (every number that a view, the list, the strip or a waiting command
  holds is below `next`), `LiveHasApp`, and that a strip is reconciled only after the
  platform started. `SlotsStayInOrder` follows from `ReconcileKeeps`, for only a
  refresh changes strip and list together (`OrderStep`).
* The references. `OneCommandPerReference` needs that a reference with which a command
  was carried out has a number that was given out and is not its window's any more
  (`CarriedIsOver`): a window gets a number only from `next`. Closing gives it 0, so
  nobody may hold a reference with 0 (`HeldIsNumbered`), which holds since everything
  held was read from a list (`HeldFrom`) and what is read has been numbered
  (`ReadAreNumbered`).
* The revision. `RevisionNamesStrip`: a view or a waiting command that holds the
  present revision holds the present strip. This part does not look into the strip.

`TypeOK` of `TaskBar` says more than it did for the runs alone: what a waiting event
or command is made of. `Inv` was checked by TLC on the instance of the run (3.6
million states) before it was proved.

The type invariants, `NoResultIsStranded` and `NewestIsUnderWay` are theorems that no run lists; TLC checked each on the instance of
its run before it was proved.

Model-checked only: liveness, in every module that states it, under the fairness of
its section (`AcceptedIsAnswered`, `ShutdownReturns`, `MappedIsFramed`,
`DestroyedIsForgotten`, `ResultsAreDrained`, `CatchesUp`, `Answered`, `ExitIsHandled`, `NoOrphan`, `PipeIsServed`, `RequestIsAnswered`, `DropReturns`): the
provers have neither fairness nor ENABLED. Every invariant and every action property
of a passing run is a theorem.
## Findings

Each is a violation run with one property; `PROJECT.json` quotes the document that
says otherwise.

| run | what the code does |
|---|---|
| `WmDies` | a client that maps and destroys a window before the WM reads the request ends the WM |
| `DisplayStranded` | nothing calls the platform's display timer; when the client dies the unconfirmed mode stays |

### Statements that do not hold

The modules also keep these properties, under the name a repair would make true.
No run lists them. TLC refutes each on the instance named.

| module, property | instance | what the code does |
|---|---|---|
| `MutationQueue`, `ComesToRest` | `MutationQueue` | `try_recv_result` reads the socket only after it popped a result, and `push_result` writes its byte after the unlock (mutations.rs:225, :236): a byte whose result is already gone is read by nobody, and the level-triggered source runs the drain for ever. README.md:100 of the repository promises "effectively idle when no user/system event occurs" |
| `SystemRetry`, `StaleIsRetried` | `SystemRetry` with `Flattened = TRUE` | `ControlClient::call` maps every error to Unavailable (control-dbus lib.rs:167), so the stale-revision retry never runs over the bus |
| `SystemRetry`, `RightServer` | `SystemRetry` | PulseAudio's thread takes a new server between the check of a command and its effect (integrations-linux pulse.rs:324, :333); mutations.rs:66 says that an audio command "is never replayed against a provider that already rotated underneath it" |
| `WmClients`, `WithdrawnIsForgotten` | `WmDies` with a queue of 3 | `restore_minimized` (wm.rs:3328) raises `ignore_unmap` though mapping makes no UnmapNotify; a later withdrawal is swallowed and the window stays framed |
| `WmClients`, `UnhideRestores` | one window, commands "iconify" and "unhide" | `X11Desktop::restore` (lib.rs:415) sends the Remove action for `_NET_WM_STATE_HIDDEN`, which `apply_net_wm_state` (wm.rs:3183) ignores |
| `WmClients`, `OnlyAskedIsFramed` | one window, no commands, `Patient = {}`, queue of 3 | a window its client has unmapped is framed and mapped again by a late MapNotify (wm.rs:2643) |
| `WmClients`, `OwnEventsRunDry` | the same with `ReadBound = 9` | a window mapped twice before the WM reads, and unmapped in between, is adopted, thrown out by an unmap that `ignore_unmap` (1, although a window seen before reports each unmap twice) does not cover, and adopted again by the MapNotify of its own reparenting, for ever and with no further client request (wm.rs:2180, :2643). README.md:100 promises "effectively idle when no user/system event occurs" |
| `WmClients`, `DesktopIsRight` | `WmTwo` | a transient of a window on another workspace is published on the current one (wm.rs:2216), and stays so until it is moved; that nothing else publishes a wrong workspace is proved (`DesktopAlwaysTold`) |
| `IconPipeline`, `SlotIsCurrent` | `IconPipeline` | a strip that changes without its windows is projected by `project_panel_geometry` alone (async_projection.rs:660), and wm-x11 runtime.rs:354 sends such changes: slots come and go, but label and icon stay those of the old strip, an added slot has none, and a click is sent for the new entry. The comment at async_projection.rs:655 intends it for "ownership counts only", and the one at :402 says that Panels owns "task-slot/pager ownership counts" |
| `IconPipeline`, `PendingIsOnItsWay` | two names, both resolvable, rooms of 2, four projections | a result that finds the channel full is dropped and its key stays pending for ever (icon_loader.rs:93) |
| `DisplayTransaction`, `UndoneIsAsBefore` | `DisplayTransaction` | the change sets the CRTC with all its outputs and the rollback with the one that was asked for (wm-x11 lib.rs:904, :961), so a mirrored output is dark after a revert. The blueprint (project_sources/reports/FLAMEWM_PLATFORM_ICEWM_BRIDGE_ARCHITECTURE_AND_MIGRATION_BLUEPRINT.md:1628) says "OR Revert/timeout/settings-owner-loss/hotplug restores captured state". Without mirrored outputs it holds, and is proved (`DisplayRestores`) |
| `DisplayTransaction`, `GenerationNamesTopology` | two clients, one change, no faults | `keep` publishes the topology it finds under the old product generation (services/display.rs:154) |
| `PulseAdapter`, `Reconnects` | two incarnations, no changes | after the last of 8 attempts (half a minute) `mark_disconnected` arms no timer: a server that starts later is never connected to (integrations-core pulse.rs:172), though FEATURE_INTEGRATIONS.md:35 asks to "reconnect when server restarts" |
| `PulseAdapter`, `ResultArrives` | one server, room for one snapshot | the newest snapshot is the one a full channel drops (runtime.rs:103) |
| `PulseAdapter`, `NoRetryStorm` | one server, four replies without a sink | each connection that becomes ready resets the attempts, so a server without a default sink is reconnected to every 300 ms without end (integrations-linux pulse.rs:559) |
| `PulseAdapter`, `CommandMeetsItsServer` | two incarnations | `set_volume` validates under one lock and sends under another; a restart between them takes the index to the next server (integrations-linux pulse.rs:323) |
| `QuickControls`, `StalledOpenIsSent` | `QuickControls` | `open` stores a request it could not write, and nothing reads `pending` (supervisor.rs:139); its comment says "the next tick's newest state wins" |
| `QuickControls`, `LastAskedWins` | `QuickControls` | a request that finds the pipe full is lost: `close` swallows it and `open` stores it for nobody (supervisor.rs:139, :150), so the popup of an earlier request stays |
| `TaskBar`, `ClickIsCarriedOut` | one window, one application, one ask, one command | a click on a minimised window is a restore and an activation with one reference; the restore renumbers the window (wm-x11 lib.rs:415), so the activation is refused as stale. FLAMEWM_V8_PORTING_CONTRACT.md:64 says "Clicking an entry activates/restores that exact window" |
| `TaskBar`, `ViewIsCurrent` | the same | a pin is announced by nobody, and neither is a change that a refresh asked for by a client has found first (wm-x11 runtime.rs:338); the shell "only consumes dirty flags" (shell/runtime.rs:249) |
| `TaskBar`, `StartShowsWindows` | the same | `PlatformHost::start` refreshes the window list and reconciles no strip (host.rs:73), and later refreshes reconcile only what changed |
| `TaskBar`, `NewWindowIsUnknown` | `TaskBar` | `X11Desktop` forgets a number only when it closes the window itself (wm-x11 lib.rs:208, :437), so a new window on the identifier of one that is gone keeps its number, and a click made for the old window is carried out on the new one. flamewm-rust-systems/SKILL.md:14 asks to "Fence stale generations after reconnect, restart, replacement, or teardown" |
| `TaskBar`, `EntryShowsItsApp` | `TaskBar` | an entry keeps the application its window had when it came, though WM_CLASS may change (services/panels.rs:149) |
| `SnapPreview`, `DropAlwaysReturns` | `SnapPreview` | `Drop` sets `stopped` and notifies without the mutex (worker.rs:541). A worker that has looked at the flag and not yet waited misses the notification, and `join` waits for ever; flamewm-rust-systems/SKILL.md:15 asks to "ensure resources release on success, error, cancellation, and drop paths" |
| `SnapPreview`, `IntentIsRecorded` | `SnapPreview` | an update whose surface cannot be shown hides the preview, which clears candidate and geometry (snap_preview.rs:186); the comment above it says "records intent, leaves `visible` false", and each further motion sends a capture anew |

Observations that contradict no document: `restore_minimized` and `manage` of a
transient map the frame of a window of a hidden workspace; `move_to_workspace`
leaves the focus on the moved window; the result queue of the dispatcher is not
bounded; `retry_connection` takes the lock of PulseAudio's main loop in the loop's
own thread; a request that finds the icon loader's channel full is sent again only
by the next projection; the restart budget of the quick controls counts clean exits
too; RandR's timestamp wraps after 49 days; `X11Desktop::prepare_shortcuts` and
`commit_shortcuts` (wm-x11 lib.rs:653) always answer Unsupported, so no
settings transaction can be applied through it (platform services/settings.rs:75); `managed_windows` tests `get_geometry(..).is_ok()`,
which does not wait for the reply; `DisplayCoordinator::topology_changed`,
`TaskStrip::pin_window` (platform task.rs:199) and the shell's `begin_reorder`
(shell taskbar/tasks/mod.rs:174) have no caller outside tests.

## Plan

What was built, in this order, and what a continuation would take up.

| module | composes or refines | instance | state |
|---|---|---|---|
| `MutationQueue` | implements `FifoService` | six mutations, capacity 2 | checked, proved |
| `WmClients` | WM, X server, clients | one window with queue 3; two windows, one hasty, with queue 3 | checked, proved |
| `IconPipeline` | projection, worker, tick | two slots, rooms 1, three projections | checked, proved |
| `DisplayTransaction` | X server, engine, platform, clients; implements `TrialChange` | two clients, two changes | checked, proved |
| `PulseAdapter` | audio server, PulseAudio thread, WM thread | two incarnations, two attempts | checked, proved |
| `SystemRetry` | worker, bus, service, providers; implements `OneCall` | two mutations, revisions to 2 | checked, proved |
| `QuickControls` | shell, pipe, helper | two popups, three lines, two restarts | checked, proved |
| `TaskBar` | WM thread, engine, platform, shell; uses `TaskStrip` | two windows, two applications, two commands | checked, proved |
| `SnapPreview` | WM thread and worker; implements `LatestAnswer` | two candidates, seven generations | checked, proved |
| `SettingsApply` | settings service, shortcuts, engine, config file | one failure at each place | open |
| `FrameSession` | pointer grabs, move and resize sessions | one frame, lost grab | open |
| `DesktopStore` | sticky notes and trash on disk | one failure between two writes | open |

Abstract specifications: `FifoService` (the queue), `OneCall` (one mutation as the user
sees it), `TrialChange` (a change of the display mode) and `LatestAnswer` (a preview
during a drag). All four refinements are proved.

## What is not modelled

* Layout, text, pixels, themes, decorations, the profiler and the canary: no
  control state that a model checker would reach and a test would not.
* The D-Bus encoding and the method dispatch table: data. What the client makes
  of an error is control, and is in `SystemRetry`.
* libdbus, libpulse, Xlib and calloop: external; modelled by what the code calls
  on them (FIFO delivery, callbacks under one lock, level-triggered sources).
* Maximise, fullscreen, docks, popups and struts of the WM, NetworkManager and
  MPRIS, the session and start-up of the processes, the desktop's files, settings
  and shortcuts, and the pointer sessions of frames.
* Restart of the WM: it keeps nothing on disk that `WmClients` or
  `DisplayTransaction` describe.
* The code under `src/.vendor`: reference material that is not part of the build.
