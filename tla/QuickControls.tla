---------------------------- MODULE QuickControls ----------------------------
(***************************************************************************)
(* The quick-control helper and its supervisor.  The shell starts a child  *)
(* process that owns the audio, network and calendar popups, and writes    *)
(* OPEN, CLOSE and SHUTDOWN lines on its standard input, a pipe that is    *)
(* never waited for (quick_controls/supervisor.rs).  The child reads the   *)
(* pipe, reacts to the user and, in its turn, carries out what it read     *)
(* (quick_controls/host.rs).  A child that died is reaped and replaced by  *)
(* the shell's turn, a bounded number of times.                            *)
(*                                                                         *)
(* A request is the kind of its popup: anchor, work area and edge are data *)
(* that travel with it.  A line is shorter than PIPE_BUF, so the kernel    *)
(* takes it whole or not at all, and the pipe is a bounded sequence.       *)
(* Setting the pipe non-blocking is taken to succeed, and so is presenting *)
(* a window that was mapped (present_scene has no error of its own).       *)
(***************************************************************************)
EXTENDS Naturals, Sequences

CONSTANTS
    Kinds,       \* QuickControlKind: audio, network, calendar
    NoKind,      \* no popup
    PipeCap,     \* lines the pipe holds
    MaxRestarts  \* DEFAULT_MAX_RESTARTS, 3 in the code

ASSUME QuickAssumption ==
    /\ Kinds # {}
    /\ NoKind \notin Kinds
    /\ PipeCap \in Nat \ {0}
    /\ MaxRestarts \in Nat

VARIABLES
    shell,     \* "starting", "running", "quitting" (shut_down), "gone"
    held,      \* the supervisor holds a child
    restarts,  \* restarts it has used up
    pending,   \* the OPEN that was not written
    pipe,      \* lines written and not read
    helper,    \* "none", "starting", "waiting" in its reactor, "turning", "exited"
    inbox,     \* ParentInput.queue
    eof,       \* ParentInput.eof
    queue,     \* HostState.queue
    stopping,  \* HostState.shutdown
    open,      \* HelperSurfaces.open
    opening,   \* the popup open_request is at work on
    mapped,    \* popups on the screen
    grab,      \* the popup that holds the pointer
    asked,     \* history: the shell's last request, whether written or not
    written,   \* history: the last line written to this child
    overrun    \* history: that request found this child's pipe full

screenVars == <<open, opening, mapped, grab>>
askVars == <<asked, written, overrun>>
vars == <<shell, held, restarts, pending, pipe, helper, inbox, eof, queue,
          stopping, open, opening, mapped, grab, asked, written, overrun>>

Open(k) == [op |-> "OPEN", kind |-> k]
Close == [op |-> "CLOSE", kind |-> NoKind]
Shutdown == [op |-> "SHUTDOWN", kind |-> NoKind]
Commands == {Open(k) : k \in Kinds} \cup {Close, Shutdown}
IsOpen(c) == c.op = "OPEN"

Alive == helper \in {"starting", "waiting", "turning"}

Init ==
    /\ shell = "starting"
    /\ held = FALSE
    /\ restarts = 0
    /\ pending = NoKind
    /\ pipe = << >>
    /\ helper = "none"
    /\ inbox = << >>
    /\ eof = FALSE
    /\ queue = << >>
    /\ stopping = FALSE
    /\ open = NoKind
    /\ opening = NoKind
    /\ mapped = {}
    /\ grab = NoKind
    /\ asked = Close
    /\ written = Close
    /\ overrun = FALSE

-----------------------------------------------------------------------------
(* The process and its windows. *)

\* A process that begins: an empty pipe, nothing read, nothing shown.
Spawned ==
    /\ held' = TRUE
    /\ helper' = "starting"
    /\ pipe' = << >>
    /\ inbox' = << >>
    /\ eof' = FALSE
    /\ queue' = << >>
    /\ stopping' = FALSE
    /\ written' = Close
    /\ overrun' = FALSE

\* No process begins: what is left of the last one stays.
NotSpawned == UNCHANGED <<pipe, inbox, eof, queue, stopping, written, overrun>>

NoChild ==
    /\ held' = FALSE
    /\ helper' = "none"

\* The end of a process: the X server unmaps its windows and ends its grab.
ScreenCleared ==
    /\ open' = NoKind
    /\ opening' = NoKind
    /\ mapped' = {}
    /\ grab' = NoKind

\* HelperSurfaces::close: no call when nothing is open.
Closed ==
    /\ open' = NoKind
    /\ mapped' = mapped \ {open}
    /\ grab' = IF open = NoKind THEN grab ELSE NoKind

-----------------------------------------------------------------------------
(* The shell. *)

\* start_after_panel, once, when the panel is up; a failure is only logged.
StartAfterPanel ==
    /\ shell = "starting"
    /\ shell' = "running"
    /\ Spawned \/ (NotSpawned /\ UNCHANGED <<held, helper>>)
    /\ UNCHANGED <<restarts, pending, screenVars, asked>>

\* NotRunning, a broken pipe, or WouldBlock: nothing is written.
Reachable == held /\ helper # "exited"
Writable == Reachable /\ Len(pipe) < PipeCap

\* A request of the shell: its line is written or lost.
Write(c) ==
    /\ asked' = c
    /\ IF Writable
       THEN pipe' = Append(pipe, c) /\ written' = c /\ overrun' = FALSE
       ELSE overrun' = (overrun \/ Reachable) /\ UNCHANGED <<pipe, written>>

\* A click on a status icon.
ShellOpens(k) ==
    /\ shell = "running"
    /\ Write(Open(k))
    /\ pending' = IF Writable THEN NoKind ELSE k
    /\ UNCHANGED <<shell, held, restarts, helper, inbox, eof, queue, stopping,
                   screenVars>>

\* Escape, a click elsewhere, another menu, a change of workspace or geometry.
ShellCloses ==
    /\ shell = "running"
    /\ Write(Close)
    /\ UNCHANGED <<shell, held, restarts, pending, helper, inbox, eof, queue,
                   stopping, screenVars>>

PollWithoutReap ==
    /\ shell = "running"
    /\ held
    /\ helper = "exited"
    /\ restarts < MaxRestarts
    /\ restarts' = restarts + 1
    /\ Spawned
    /\ UNCHANGED <<shell, pending, screenVars, asked>>

\* poll, in every turn of the shell: the child is reaped, and replaced while
\* the budget lasts; a spawn that fails has used up one restart as well.
Poll ==
    /\ shell = "running"
    /\ held
    /\ helper = "exited"
    /\ IF restarts >= MaxRestarts
       THEN NoChild /\ NotSpawned /\ UNCHANGED restarts
       ELSE /\ restarts' = restarts + 1
            /\ Spawned \/ (NoChild /\ NotSpawned)
    /\ UNCHANGED <<shell, pending, screenVars, asked>>

\* Drop, first half: the SHUTDOWN line, if there is room for it.
ShellQuits ==
    /\ shell = "running"
    /\ shell' = "quitting"
    /\ Write(Shutdown)
    /\ UNCHANGED <<held, restarts, pending, helper, inbox, eof, queue, stopping,
                   screenVars>>

\* Second half: the child is killed and waited for, and the shell ends.
ShellKills ==
    /\ shell = "quitting"
    /\ shell' = "gone"
    /\ NoChild
    /\ ScreenCleared
    /\ UNCHANGED <<restarts, pending, pipe, inbox, eof, queue, stopping, askVars>>

\* The shell dies without running Drop: its end of the pipe closes.
ShellDies ==
    /\ shell \in {"starting", "running", "quitting"}
    /\ shell' = "gone"
    /\ held' = FALSE
    /\ UNCHANGED <<restarts, pending, pipe, helper, inbox, eof, queue, stopping,
                   screenVars, askVars>>

-----------------------------------------------------------------------------
(* The helper. *)

\* The bus and the X server answer, or one does not and the process exits.
HelperStarts ==
    /\ helper = "starting"
    /\ helper' \in {"waiting", "exited"}
    /\ UNCHANGED <<shell, held, restarts, pending, pipe, inbox, eof, queue,
                   stopping, screenVars, askVars>>

HelperReadsLines ==
    /\ helper = "waiting"
    /\ inbox = << >>
    /\ pipe # << >>
    /\ inbox' = pipe
    /\ pipe' = << >>
    /\ UNCHANGED <<shell, held, restarts, pending, helper, eof, queue, stopping,
                   screenVars, askVars>>

\* drain_parent_fd, at most once in a cycle of the reactor: all that is
\* there, and the end of the file when the shell is gone.
HelperReads ==
    /\ helper = "waiting"
    /\ inbox = << >>
    /\ pipe # << >> \/ (shell = "gone" /\ ~eof)
    /\ inbox' = pipe
    /\ pipe' = << >>
    /\ eof' = (shell = "gone")
    /\ UNCHANGED <<shell, held, restarts, pending, helper, queue, stopping,
                   screenVars, askVars>>

\* Escape, or a release outside the popup.
UserCloses ==
    /\ helper = "waiting"
    /\ open # NoKind
    /\ Closed
    /\ UNCHANGED <<shell, held, restarts, pending, pipe, helper, inbox, eof, queue,
                   stopping, opening, askVars>>

TurnClones ==
    /\ helper = "waiting"
    /\ inbox # << >> \/ eof
    /\ helper' = "turning"
    /\ queue' = queue \o inbox
    /\ stopping' = (stopping \/ eof)
    /\ UNCHANGED <<shell, held, restarts, pending, pipe, inbox, eof, screenVars, askVars>>

\* The tick takes what was read; without anything it changes nothing here.
TurnBegins ==
    /\ helper = "waiting"
    /\ inbox # << >> \/ eof
    /\ helper' = "turning"
    /\ queue' = queue \o inbox
    /\ inbox' = << >>
    /\ stopping' = (stopping \/ eof)
    /\ UNCHANGED <<shell, held, restarts, pending, pipe, eof, screenVars, askVars>>

\* coalesce_commands, seen from the front: of consecutive OPENs the last is left.
Superseded(q) == Len(q) > 1 /\ IsOpen(q[1]) /\ IsOpen(q[2])

OldestLeft(q) == IF Superseded(q) THEN <<Head(q)>> \o Tail(Tail(q)) ELSE q
Coalesced(q) == IF Superseded(q) THEN Tail(q) ELSE q

Coalesce ==
    /\ helper = "turning"
    /\ opening = NoKind
    /\ Superseded(queue)
    /\ queue' = Coalesced(queue)
    /\ UNCHANGED <<shell, held, restarts, pending, pipe, helper, inbox, eof, stopping,
                   screenVars, askVars>>

\* One command of the drain; an OPEN closes the current popup before its own.
RunCommand ==
    /\ helper = "turning"
    /\ opening = NoKind
    /\ queue # << >>
    /\ ~Superseded(queue)
    /\ queue' = Tail(queue)
    /\ IF Head(queue) = Shutdown
       THEN stopping' = TRUE /\ UNCHANGED screenVars
       ELSE Closed /\ opening' = Head(queue).kind /\ UNCHANGED stopping
    /\ UNCHANGED <<shell, held, restarts, pending, pipe, helper, inbox, eof, askVars>>

\* open_request: projected, measured and placed, then shown; each of these may
\* fail, and nothing is on the screen.
PopupShown ==
    /\ opening # NoKind
    /\ opening \notin mapped
    /\ \/ mapped' = mapped \cup {opening} /\ UNCHANGED opening
       \/ opening' = NoKind /\ UNCHANGED mapped
    /\ UNCHANGED <<shell, held, restarts, pending, pipe, helper, inbox, eof, queue,
                   stopping, open, grab, askVars>>

RefusedPopupStays ==
    /\ opening \in mapped
    /\ \/ open' = opening /\ grab' = opening
       \/ UNCHANGED <<open, grab>>
    /\ opening' = NoKind
    /\ UNCHANGED <<shell, held, restarts, pending, pipe, helper, inbox, eof, queue,
                   stopping, mapped, askVars>>

\* Its last stage: the grab, without which the popup is closed again.
PopupGrabbed ==
    /\ opening \in mapped
    /\ \/ open' = opening /\ grab' = opening /\ UNCHANGED mapped
       \/ mapped' = mapped \ {opening} /\ UNCHANGED <<open, grab>>
    /\ opening' = NoKind
    /\ UNCHANGED <<shell, held, restarts, pending, pipe, helper, inbox, eof, queue,
                   stopping, askVars>>

\* The end of the tick: a helper that is to stop closes its popup, destroys
\* its surfaces and exits, whether or not the teardown reported an error.
TurnEnds ==
    /\ helper = "turning"
    /\ opening = NoKind
    /\ queue = << >>
    /\ IF stopping
       THEN helper' = "exited" /\ ScreenCleared
       ELSE helper' = "waiting" /\ UNCHANGED screenVars
    /\ UNCHANGED <<shell, held, restarts, pending, pipe, inbox, eof, queue, stopping,
                   askVars>>

\* A crash, or an error of the UI runtime that ends the process.
HelperDies ==
    /\ Alive
    /\ helper' = "exited"
    /\ ScreenCleared
    /\ UNCHANGED <<shell, held, restarts, pending, pipe, inbox, eof, queue, stopping,
                   askVars>>

-----------------------------------------------------------------------------
Next ==
    \/ StartAfterPanel
    \/ \E k \in Kinds : ShellOpens(k)
    \/ ShellCloses
    \/ Poll
    \/ ShellQuits
    \/ ShellKills
    \/ ShellDies
    \/ HelperStarts
    \/ HelperReads
    \/ UserCloses
    \/ TurnBegins
    \/ Coalesce
    \/ RunCommand
    \/ PopupShown
    \/ PopupGrabbed
    \/ TurnEnds
    \/ HelperDies

\* Both processes go on while they live: the shell's turn has a clock timer,
\* kill and wait follow each other, and the helper's reactor wakes for its pipe.
Fairness ==
    /\ WF_vars(Poll)
    /\ WF_vars(ShellKills)
    /\ WF_vars(HelperStarts)
    /\ WF_vars(HelperReads)
    /\ WF_vars(TurnBegins)
    /\ WF_vars(Coalesce)
    /\ WF_vars(RunCommand)
    /\ WF_vars(PopupShown)
    /\ WF_vars(PopupGrabbed)
    /\ WF_vars(TurnEnds)

Spec == Init /\ [][Next]_vars /\ Fairness

-----------------------------------------------------------------------------
(* Properties. *)

\* Types; the restarts stay within the budget and the pipe within its room.
TypeOK ==
    /\ shell \in {"starting", "running", "quitting", "gone"}
    /\ held \in BOOLEAN
    /\ restarts \in 0 .. MaxRestarts
    /\ pending \in Kinds \cup {NoKind}
    /\ pipe \in Seq(Commands) /\ Len(pipe) <= PipeCap
    /\ helper \in {"none", "starting", "waiting", "turning", "exited"}
    /\ inbox \in Seq(Commands)
    /\ eof \in BOOLEAN
    /\ queue \in Seq(Commands)
    /\ stopping \in BOOLEAN
    /\ open \in Kinds \cup {NoKind}
    /\ opening \in Kinds \cup {NoKind}
    /\ mapped \in SUBSET Kinds
    /\ grab \in Kinds \cup {NoKind}
    /\ asked \in Commands
    /\ written \in Commands
    /\ overrun \in BOOLEAN

\* host.rs, "One helper popup at a time": whatever stage of opening fails, and
\* whatever is closed by the user or cut short by a crash, the screen shows the
\* popup that open names and no other, and the pointer is grabbed for it and for
\* nothing else; at most the popup being opened is on its way, over no other.  A
\* popup or a grab that open does not name could not be closed any more.
OnePopup ==
    /\ grab = open
    /\ opening = NoKind => mapped = {open} \ {NoKind}
    /\ opening # NoKind => open = NoKind /\ mapped \subseteq {opening}

\* Nothing is on its way from the shell to the helper, whose turn is over.
Settled == pipe = << >> /\ inbox = << >> /\ queue = << >> /\ helper # "turning"

\* When all lines have been carried out, the popup shown is the one the shell
\* asked for last, unless a full pipe refused a line since the last one that was
\* written.  Coalescing, a helper that died between two lines and lines sent
\* while there was none leave no older popup, nor one closed since.
LastAskedIsShown == Settled /\ ~overrun => open = NoKind \/ asked = Open(open)

\* Not true: close is not tried again, and open is stored for nobody.
LastAskedWins == Settled => open = NoKind \/ asked = Open(open)

\* supervisor.rs, "reaps on poll": a helper that exited while the shell runs is
\* reaped; it is replaced, or the supervisor holds no child any more.
ExitIsHandled ==
    (shell = "running" /\ helper = "exited")
        ~> (shell # "running" \/ Alive \/ ~held)

\* A shell that dies without shutdown leaves no helper behind: the end of the
\* pipe ends it, whatever it was doing.
NoOrphan == shell = "gone" ~> ~Alive

\* Backpressure is temporary: a full pipe is read, or its reader is gone.
PipeIsServed == Len(pipe) = PipeCap ~> (Len(pipe) < PipeCap \/ ~Alive)

\* "the newest request replaces any stalled one; [...] the next tick's newest
\* state wins": a request that could not be written is written later.
StalledOpenIsSent ==
    \A k \in Kinds :
        (pending = k /\ shell = "running")
            ~> (pending # k \/ shell # "running" \/ ~held)

=============================================================================
