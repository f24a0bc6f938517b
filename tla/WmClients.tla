------------------------------ MODULE WmClients ------------------------------
(***************************************************************************)
(* The client table of the window manager (flamewm-wm-x11, wm.rs): which   *)
(* windows are framed, minimised, on which workspace and active, together  *)
(* with the X server it drives and the clients and pagers it shares that   *)
(* server with.                                                            *)
(*                                                                         *)
(* The WM is one thread: it handles the events of its connection in order, *)
(* one handler to the end.  Clients and pagers use other connections, so   *)
(* between the moment the server queues an event and the moment the WM     *)
(* handles it they may have mapped, withdrawn or destroyed the window; a   *)
(* handler reads the server's present state with round trips.              *)
(*                                                                         *)
(* Left out: titles, icons, geometry, docks and override-redirect windows, *)
(* none of which changes these variables, and pointer input, which reaches *)
(* them through the same focus, minimize and close.  A handler's own round *)
(* trips see the server as it is when the handler starts.  The two copies  *)
(* of a DestroyNotify or MapNotify the WM receives (StructureNotify on the *)
(* client, SubstructureNotify on its parent) are one event, for the second *)
(* finds nothing to do; the two UnmapNotify are two, for they are counted. *)
(***************************************************************************)
EXTENDS Naturals, Sequences, FiniteSets

CONSTANTS
    Windows,         \* client windows
    NoWindow,        \* no window at all
    Owner,           \* WM_TRANSIENT_FOR of each window, or NoWindow
    Frames,          \* ids of frame windows
    NoFrame,         \* the frame of a window that is not managed
    Workspaces,      \* workspace indices, 0 .. MaxWorkspaces - 1
    StartCount,      \* WmConfig.workspaces
    MaxWorkspaces,   \* upper end of the clamp in set_workspace_count, 18
    IgnoreMax,       \* largest ignore_unmap, 255
    Patient,         \* windows whose client waits for its MapRequest to be read
    QueueBound,      \* bound of the model: clients and pagers pause above it
    ReadBound,       \* bound of the model: the WM stops reading above it
    Commands         \* kinds of message the pagers of this instance send

CommandKinds == {"iconify", "deiconify", "unhide", "activate", "close",
                 "toDesktop", "currentDesktop", "desktopCount"}

ASSUME WmAssumption ==
    /\ NoWindow \notin Windows
    /\ NoFrame \notin Frames
    /\ Owner \in [Windows -> Windows \cup {NoWindow}]
    /\ MaxWorkspaces \in Nat \ {0}
    /\ Workspaces = 0 .. MaxWorkspaces - 1
    /\ StartCount \in 1 .. MaxWorkspaces
    /\ IgnoreMax \in Nat \ {0}
    /\ Patient \subseteq Windows
    /\ QueueBound \in Nat
    /\ ReadBound \in Nat
    /\ Commands \subseteq CommandKinds

VARIABLES
    \* the X server and its clients
    queue,       \* events not yet read by the WM, oldest first
    alive,       \* windows that exist
    mapped,      \* windows whose own map state is mapped
    shown,       \* windows whose frame is mapped
    asked,       \* windows whose client last asked to be mapped
    withdrew,    \* windows unmapped by their client since they were framed
    watched,     \* windows on which the WM has selected StructureNotify
    \* the window manager
    wm,          \* "running", or "dead" once run_reactor has returned an error
    scan,        \* windows scan_existing has listed and not yet adopted
    frame,       \* Wm.clients: the frame of each managed window
    minimized,   \* ManagedClient.minimized
    workspace,   \* ManagedClient.workspace
    ignoreUnmap, \* ManagedClient.ignore_unmap
    active,      \* Wm.active
    current,     \* Wm.current_workspace
    count,       \* Wm.workspace_count
    \* properties other programs read
    netActive,   \* _NET_ACTIVE_WINDOW
    netDesktop   \* _NET_WM_DESKTOP of each window

server == <<alive, mapped, asked, withdrew, watched>>
table == <<frame, minimized, workspace, ignoreUnmap>>
vars == <<queue, server, shown, wm, scan, table, active, current, count,
          netActive, netDesktop>>

Managed == {c \in Windows : frame[c] # NoFrame}

\* ManagedClient::visible_on (sticky is never set)
VisibleOn(c, k) == c \in Managed /\ ~minimized[c] /\ workspace[c] = k

-----------------------------------------------------------------------------
(* Events. *)

MapRequest(c) == [kind |-> "MapRequest", win |-> c]
MapNotify(c) == [kind |-> "MapNotify", win |-> c]
UnmapNotify(c) == [kind |-> "UnmapNotify", win |-> c]
DestroyNotify(c) == [kind |-> "DestroyNotify", win |-> c]
Message(k, c, n) == [kind |-> k, win |-> c, num |-> n]

\* One handler unmaps the frames in fs in a row; their UnmapNotify commute.
FramesUnmapped(fs) == [kind |-> "FramesUnmapped", frames |-> fs]
UnmapFrames(cs) ==
    LET fs == {frame[c] : c \in cs \cap shown}
    IN  IF fs = {} THEN << >> ELSE <<FramesUnmapped(fs)>>

EventFrames ==
    UNION {IF queue[i].kind = "FramesUnmapped" THEN queue[i].frames ELSE {} :
              i \in 1 .. Len(queue)}

\* A window id nothing refers to stands for a newly generated one.
FreeFrames ==
    {f \in Frames : f \notin EventFrames /\ \A c \in Windows : frame[c] # f}
FreshFrame == CHOOSE f \in FreeFrames : TRUE

-----------------------------------------------------------------------------
\* Windows already mapped when the WM starts are those scan_existing lists.
Init ==
    /\ queue = << >>
    /\ alive = Windows
    /\ mapped \in SUBSET Windows
    /\ asked = mapped
    /\ withdrew = {}
    /\ watched = {}
    /\ shown = {}
    /\ wm = "running"
    /\ scan = mapped
    /\ frame = [c \in Windows |-> NoFrame]
    /\ minimized = [c \in Windows |-> FALSE]
    /\ workspace = [c \in Windows |-> 0]
    /\ ignoreUnmap = [c \in Windows |-> 0]
    /\ active = NoWindow
    /\ current = 0
    /\ count = StartCount
    /\ netActive = NoWindow
    /\ netDesktop = [c \in Windows |-> 0]

-----------------------------------------------------------------------------
(* Clients and pagers. *)

MayPost == wm = "running" /\ Len(queue) < QueueBound

wmVars == <<wm, scan, table, active, current, count, netActive, netDesktop>>

\* A patient client maps or unmaps a window only when no MapRequest of it is
\* unread: it has seen the answer to its last one.
MayAsk(c) ==
    /\ MayPost
    /\ c \in Patient => \A i \in 1 .. Len(queue) : queue[i] # MapRequest(c)

\* XMapWindow: the WM holds SubstructureRedirect on the root and on its
\* frames, so the server asks it instead of mapping.
ClientMap(c) ==
    /\ MayAsk(c)
    /\ c \in alive \ mapped
    /\ queue' = Append(queue, MapRequest(c))
    /\ asked' = asked \cup {c}
    /\ UNCHANGED <<alive, mapped, withdrew, watched, shown, wmVars>>

\* The server unmaps a window: reported on its parent, a frame or the root,
\* and on the window itself where the WM watches it.
Unmapping(c) ==
    IF c \notin mapped THEN << >>
    ELSE IF c \in watched THEN <<UnmapNotify(c), UnmapNotify(c)>>
    ELSE <<UnmapNotify(c)>>

ClientUnmap(c) ==
    /\ MayAsk(c)
    /\ c \in alive \cap mapped
    /\ queue' = queue \o Unmapping(c)
    /\ mapped' = mapped \ {c}
    /\ asked' = asked \ {c}
    /\ withdrew' = withdrew \cup {c}
    /\ UNCHANGED <<alive, watched, shown, wmVars>>

\* XDestroyWindow, or the client's connection closes.
Destroying(c) == Append(Unmapping(c), DestroyNotify(c))

ClientDestroy(c) ==
    /\ MayPost
    /\ c \in alive
    /\ queue' = queue \o Destroying(c)
    /\ alive' = alive \ {c}
    /\ mapped' = mapped \ {c}
    /\ asked' = asked \ {c}
    /\ UNCHANGED <<withdrew, watched, shown, wmVars>>

\* A pager or X11Desktop sends a client message about a window it has seen in
\* _NET_CLIENT_LIST, or about the root window.
Send(m) ==
    /\ MayPost
    /\ m.kind \in Commands
    /\ queue' = Append(queue, m)
    /\ UNCHANGED <<server, shown, wmVars>>

SendToWindow ==
    \E c \in Managed :
        \/ \E k \in {"iconify", "deiconify", "unhide", "activate", "close"} :
              Send(Message(k, c, 0))
        \/ \E n \in Workspaces : Send(Message("toDesktop", c, n))

SendToRoot ==
    \E n \in 0 .. MaxWorkspaces :
        \/ Send(Message("currentDesktop", NoWindow, n))
        \/ Send(Message("desktopCount", NoWindow, n))

-----------------------------------------------------------------------------
(* The window manager. *)

Event == Head(queue)
Rest == Tail(queue)

\* The event loop reads one event; scan_existing runs before the loop.
Handling(k) ==
    /\ wm = "running"
    /\ scan = {}
    /\ Len(queue) \in 1 .. ReadBound
    /\ Event.kind = k

\* A round trip about a destroyed window fails; the error leaves the handler,
\* run_reactor and the process.
Die ==
    /\ wm' = "dead"
    /\ UNCHANGED <<queue, server, shown, scan, table, active, current, count,
                   netActive, netDesktop>>

\* ignore_unmap.saturating_add(1)
Bump(n) == IF n < IgnoreMax THEN n + 1 ELSE n

WithFrameForgotten(c) == shown

\* map_window and unmap_window of a frame
WithFrameUp(c) == shown \cup {c}
WithFrameDown(c) == shown \ {c}

UntoldDesktop(c, n) == netDesktop

\* set_client_workspace
ToldDesktop(c, n) == [netDesktop EXCEPT ![c] = n]

FirstIgnoreNone == 0

\* ManagedClient.ignore_unmap at manage: the reparent may unmap the window.
FirstIgnore == 1

Focused(c) ==
    /\ active' = c
    /\ netActive' = c

Unfocused ==
    /\ active' = NoWindow
    /\ netActive' = NoWindow

SameFocus == UNCHANGED <<active, netActive>>

KeepFocus(c) == SameFocus

\* A window that is forgotten or hidden gives up the focus it has.
LoseFocus(c) == IF active = c THEN Unfocused ELSE SameFocus

\* manage: frame, reparent, map and focus window c, with q the events still
\* to be read.  Reparenting a mapped window makes the server unmap and map it.
Manage(c, q) ==
    LET home == IF Owner[c] # NoWindow /\ Owner[c] \in Managed
                THEN workspace[Owner[c]] ELSE current
    IN  /\ FreeFrames # {} \* bound of the model: Frames is finite
        /\ frame' = [frame EXCEPT ![c] = FreshFrame]
        /\ minimized' = [minimized EXCEPT ![c] = FALSE]
        /\ workspace' = [workspace EXCEPT ![c] = home]
        /\ ignoreUnmap' = [ignoreUnmap EXCEPT ![c] = FirstIgnore]
        /\ netDesktop' = ToldDesktop(c, current)
        /\ queue' = (q \o Unmapping(c)) \o <<MapNotify(c)>>
        /\ mapped' = mapped \cup {c}
        /\ shown' = WithFrameUp(c)
        /\ watched' = watched \cup {c}
        /\ withdrew' = withdrew \ {c}
        /\ IF home = current THEN Focused(c) ELSE SameFocus
        /\ UNCHANGED <<alive, asked, wm, current, count>>

\* unmanage: forget c.  A withdrawn window goes back to the root; one that is
\* mapped all the same is unmapped, reparented and mapped by the server.
Unmanage(c) ==
    /\ frame' = [frame EXCEPT ![c] = NoFrame]
    /\ shown' = WithFrameDown(c)
    /\ queue' = IF c \in mapped
                THEN (Rest \o Unmapping(c)) \o <<MapNotify(c)>>
                ELSE Rest
    /\ LoseFocus(c)
    /\ UNCHANGED <<server, wm, scan, minimized, workspace, ignoreUnmap,
                   current, count, netDesktop>>

\* scan_existing adopts a window of its snapshot.
ScanAdopt(c) ==
    /\ wm = "running"
    /\ c \in scan
    /\ c \in alive
    /\ scan' = scan \ {c}
    /\ Manage(c, queue)

\* window_kind of a window that went away after the snapshot fails.
ScanDies ==
    /\ wm = "running"
    /\ scan \ alive # {}
    /\ Die

\* handle_map_request of a managed window maps it and its frame.
MapManaged ==
    /\ Handling("MapRequest")
    /\ Event.win \in Managed
    /\ mapped' = mapped \cup ({Event.win} \cap alive)
    /\ shown' = WithFrameUp(Event.win)
    /\ queue' = IF Event.win \in alive \ mapped
                THEN Append(Rest, MapNotify(Event.win)) ELSE Rest
    /\ UNCHANGED <<alive, asked, withdrew, watched, wm, scan, table, active,
                   current, count, netActive, netDesktop>>

\* handle_map_request of a new window reads its attributes, then manages it.
MapNew ==
    /\ Handling("MapRequest")
    /\ Event.win \in alive \ Managed
    /\ Manage(Event.win, Rest)
    /\ UNCHANGED scan

MapGone ==
    /\ Handling("MapRequest")
    /\ Event.win \notin alive \cup Managed
    /\ Die

\* handle_map_notify adopts a mapped window that has no frame.
AdoptMapped ==
    /\ Handling("MapNotify")
    /\ Event.win \in alive \ Managed
    /\ Manage(Event.win, Rest)
    /\ UNCHANGED scan

\* handle_unmap of the client window itself.
UnmapIgnored ==
    /\ Handling("UnmapNotify")
    /\ Event.win \in Managed
    /\ ignoreUnmap[Event.win] > 0
    /\ ignoreUnmap' = [ignoreUnmap EXCEPT ![Event.win] = @ - 1]
    /\ queue' = Rest
    /\ UNCHANGED <<server, shown, wm, scan, frame, minimized, workspace, active,
                   current, count, netActive, netDesktop>>

UnmapWithdraws ==
    /\ Handling("UnmapNotify")
    /\ Event.win \in Managed
    /\ ignoreUnmap[Event.win] = 0
    /\ Unmanage(Event.win)

\* handle_unmap of frames: the same counter, and never an unmanage.
FramesUnmap ==
    /\ Handling("FramesUnmapped")
    /\ ignoreUnmap' = [c \in Windows |->
          IF frame[c] \in Event.frames /\ ignoreUnmap[c] > 0
          THEN ignoreUnmap[c] - 1 ELSE ignoreUnmap[c]]
    /\ queue' = Rest
    /\ UNCHANGED <<server, shown, wm, scan, frame, minimized, workspace, active,
                   current, count, netActive, netDesktop>>

\* handle_client_message about a managed window.
AboutManaged(k) == Handling(k) /\ Event.win \in Managed

\* minimize: hide the frame and give up the focus.
Iconify ==
    /\ AboutManaged("iconify")
    /\ ~minimized[Event.win]
    /\ minimized' = [minimized EXCEPT ![Event.win] = TRUE]
    /\ ignoreUnmap' = [ignoreUnmap EXCEPT ![Event.win] = Bump(@)]
    /\ shown' = WithFrameDown(Event.win)
    /\ queue' = Rest \o UnmapFrames({Event.win})
    /\ LoseFocus(Event.win)
    /\ UNCHANGED <<server, wm, scan, frame, workspace, current, count,
                   netDesktop>>

\* restore_minimized: map the frame wherever the window lives, then focus,
\* which asks the client for its protocols if it is on the current workspace.
Deiconify ==
    /\ AboutManaged("deiconify")
    /\ minimized[Event.win]
    /\ Event.win \in alive \/ workspace[Event.win] # current
    /\ minimized' = [minimized EXCEPT ![Event.win] = FALSE]
    /\ ignoreUnmap' = [ignoreUnmap EXCEPT ![Event.win] = Bump(@)]
    /\ shown' = WithFrameUp(Event.win)
    /\ queue' = Rest
    /\ IF workspace[Event.win] = current
       THEN Focused(Event.win) ELSE SameFocus
    /\ UNCHANGED <<server, wm, scan, frame, workspace, current, count,
                   netDesktop>>

\* focus of a visible window.
Activate ==
    /\ AboutManaged("activate")
    /\ VisibleOn(Event.win, current)
    /\ Event.win \in alive
    /\ Focused(Event.win)
    /\ queue' = Rest
    /\ UNCHANGED <<server, shown, wm, scan, table, current, count, netDesktop>>

\* focus and close read WM_PROTOCOLS of the window: gone, the WM dies.
ProtocolsGone ==
    /\ \/ AboutManaged("activate") /\ VisibleOn(Event.win, current)
       \/ AboutManaged("deiconify") /\ minimized[Event.win]
                                    /\ workspace[Event.win] = current
       \/ AboutManaged("close")
    /\ Event.win \notin alive
    /\ Die

\* close: a client with WM_DELETE_WINDOW is asked, any other is killed.
CloseAsks ==
    /\ AboutManaged("close")
    /\ Event.win \in alive
    /\ queue' = Rest
    /\ UNCHANGED <<server, shown, wm, scan, table, active, current, count,
                   netActive, netDesktop>>

CloseKills ==
    /\ AboutManaged("close")
    /\ Event.win \in alive
    /\ queue' = Rest \o Destroying(Event.win)
    /\ alive' = alive \ {Event.win}
    /\ mapped' = mapped \ {Event.win}
    /\ asked' = asked \ {Event.win}
    /\ UNCHANGED <<withdrew, watched, shown, wm, scan, table, active, current,
                   count, netActive, netDesktop>>

\* move_to_workspace
MoveToWorkspace ==
    /\ AboutManaged("toDesktop")
    /\ Event.num < count
    /\ LET c == Event.win
           visible == ~minimized[c] /\ Event.num = current
       IN  /\ workspace' = [workspace EXCEPT ![c] = Event.num]
           /\ netDesktop' = ToldDesktop(c, Event.num)
           /\ shown' = IF visible THEN WithFrameUp(c) ELSE WithFrameDown(c)
           /\ ignoreUnmap' = IF visible THEN ignoreUnmap
                             ELSE [ignoreUnmap EXCEPT ![c] = Bump(@)]
           /\ queue' = IF visible THEN Rest ELSE Rest \o UnmapFrames({c})
    /\ UNCHANGED <<server, wm, scan, frame, minimized, active, current, count,
                   netActive>>

\* switch_workspace: only windows whose visibility changes are touched.
SwitchWorkspace ==
    /\ Handling("currentDesktop")
    /\ Event.num < count
    /\ Event.num # current
    /\ LET coming == {c \in Windows : VisibleOn(c, Event.num)}
           going == {c \in Windows : VisibleOn(c, current)}
       IN  /\ shown' = (shown \cup coming) \ going
           /\ ignoreUnmap' = [c \in Windows |->
                 IF c \in going THEN Bump(ignoreUnmap[c]) ELSE ignoreUnmap[c]]
           /\ queue' = Rest \o UnmapFrames(going)
    /\ current' = Event.num
    /\ Unfocused
    /\ UNCHANGED <<server, wm, scan, frame, minimized, workspace, count,
                   netDesktop>>

\* requested.clamp(1, 18)
Clamped(n) == IF n < 1 THEN 1 ELSE IF n > MaxWorkspaces THEN MaxWorkspaces ELSE n

\* Where a window goes when `last` becomes the last workspace.
Home(c, last) == IF workspace[c] > last THEN last ELSE workspace[c]

\* set_workspace_count: windows and the current workspace of a removed tail
\* move to the last one left, then reconcile_workspace_visibility maps or
\* unmaps every frame.
SetWorkspaceCount ==
    /\ Handling("desktopCount")
    /\ Clamped(Event.num) # count
    /\ LET last == Clamped(Event.num) - 1
           here == IF current > last THEN last ELSE current
           moved == {c \in Managed : Home(c, last) # workspace[c]}
           seen == {c \in Managed : ~minimized[c] /\ Home(c, last) = here}
       IN  /\ workspace' = [c \in Windows |->
                 IF c \in moved THEN Home(c, last) ELSE workspace[c]]
           /\ netDesktop' = [c \in Windows |->
                 IF c \in moved THEN Home(c, last) ELSE netDesktop[c]]
           /\ current' = here
           /\ count' = last + 1
           /\ shown' = seen
           /\ ignoreUnmap' = [c \in Windows |->
                 IF c \in Managed \ seen
                 THEN Bump(ignoreUnmap[c]) ELSE ignoreUnmap[c]]
           /\ queue' = Rest \o UnmapFrames(Managed \ seen)
    /\ UNCHANGED <<server, wm, scan, frame, minimized, active, netActive>>

\* Events whose handler returns without doing anything.  Among them is
\* "unhide", _NET_WM_STATE removing _NET_WM_STATE_HIDDEN: apply_net_wm_state
\* acts on that atom only when the action is not Remove.
Moot ==
    \/ Handling("MapNotify") /\ Event.win \notin alive \ Managed
    \/ Handling("UnmapNotify") /\ Event.win \notin Managed
    \/ Handling("DestroyNotify") /\ Event.win \notin Managed
    \/ Handling("iconify") /\ (Event.win \notin Managed \/ minimized[Event.win])
    \/ Handling("deiconify") /\ (Event.win \notin Managed \/ ~minimized[Event.win])
    \/ Handling("unhide")
    \/ Handling("activate") /\ ~VisibleOn(Event.win, current)
    \/ Handling("close") /\ Event.win \notin Managed
    \/ Handling("toDesktop") /\ (Event.win \notin Managed \/ Event.num >= count)
    \/ Handling("currentDesktop") /\ (Event.num >= count \/ Event.num = current)
    \/ Handling("desktopCount") /\ Clamped(Event.num) = count

Drop ==
    /\ queue' = Rest
    /\ UNCHANGED <<server, shown, wm, scan, table, active, current, count,
                   netActive, netDesktop>>

IgnoreRemap ==
    /\ Moot \/ (Handling("MapRequest") /\ Event.win \in watched \ Managed)
    /\ Drop

Ignore ==
    /\ Moot
    /\ Drop

DestroyedUnlessHidden ==
    /\ Handling("DestroyNotify")
    /\ Event.win \in Managed
    /\ IF minimized[Event.win] THEN Drop ELSE Unmanage(Event.win)

\* DestroyNotify of a managed window.
Destroyed ==
    /\ Handling("DestroyNotify")
    /\ Event.win \in Managed
    /\ Unmanage(Event.win)

-----------------------------------------------------------------------------
Clients ==
    \E c \in Windows : ClientMap(c) \/ ClientUnmap(c) \/ ClientDestroy(c)

Pagers == SendToWindow \/ SendToRoot

Lifecycle ==
    \/ \E c \in Windows : ScanAdopt(c)
    \/ ScanDies
    \/ MapManaged \/ MapNew \/ MapGone \/ AdoptMapped
    \/ UnmapIgnored \/ UnmapWithdraws \/ FramesUnmap \/ Destroyed

Requests ==
    \/ Iconify \/ Deiconify \/ Activate \/ ProtocolsGone
    \/ CloseAsks \/ CloseKills
    \/ MoveToWorkspace \/ SwitchWorkspace \/ SetWorkspaceCount

WmStep == Lifecycle \/ Requests \/ Ignore

Next == Clients \/ Pagers \/ WmStep

\* The event loop never sleeps on unread events; nobody else has to act.
Spec == Init /\ [][Next]_vars /\ WF_vars(WmStep)

-----------------------------------------------------------------------------
(* Properties. *)

EventOK(e) ==
    \/ e.kind \in {"MapRequest", "MapNotify", "UnmapNotify", "DestroyNotify"}
       /\ e.win \in Windows
    \/ e.kind = "FramesUnmapped" /\ e.frames \subseteq Frames
    \/ e.kind \in CommandKinds /\ e.win \in Windows \cup {NoWindow}
       /\ e.num \in 0 .. MaxWorkspaces

\* The variables have their types.
TypeOK ==
    /\ \A i \in 1 .. Len(queue) : EventOK(queue[i])
    /\ mapped \subseteq alive /\ asked \subseteq alive /\ alive \subseteq Windows
    /\ shown \subseteq Managed /\ withdrew \subseteq Windows
    /\ watched \subseteq Windows
    /\ wm \in {"running", "dead"}
    /\ scan \subseteq Windows
    /\ frame \in [Windows -> Frames \cup {NoFrame}]
    /\ minimized \in [Windows -> BOOLEAN]
    /\ workspace \in [Windows -> Workspaces]
    /\ ignoreUnmap \in [Windows -> 0 .. IgnoreMax]
    /\ active \in Windows \cup {NoWindow}
    /\ current \in Workspaces
    /\ count \in 1 .. MaxWorkspaces
    /\ netActive \in Windows \cup {NoWindow}
    /\ netDesktop \in [Windows -> Workspaces]

\* No window is lost: one that is managed, not minimised and on the current
\* workspace has its frame on the screen, whatever sequence of minimise,
\* restore, move, switch and change of the workspace count led there.
NoWindowIsLost ==
    \A c \in Windows : VisibleOn(c, current) => c \in shown

\* The focus is on a managed window that is not minimised, and it is the one
\* _NET_ACTIVE_WINDOW tells other programs.
FocusIsCoherent ==
    /\ netActive = active
    /\ active # NoWindow => active \in Managed /\ ~minimized[active]

\* Every managed window and the current workspace are inside the workspace
\* count that was last published.
WorkspacesInRange ==
    /\ current < count
    /\ \A c \in Managed : workspace[c] < count

\* c is managed here as a transient of a window on another workspace.
FollowsOwnerAway(c) ==
    c \notin Managed /\ Owner[c] \in Managed /\ workspace[Owner[c]] # current

\* _NET_WM_DESKTOP, from which X11Desktop and pagers read the workspace of a
\* window, follows the workspace the WM keeps for it through adoption, moves
\* and cuts of the workspace count.  The one exception is in the formula: a
\* transient managed while its owner is on another workspace is published on
\* the current one (set_client_workspace in manage).
DesktopIsTold ==
    [][\A c \in Windows :
         frame'[c] # NoFrame =>
             \/ netDesktop'[c] = workspace'[c]
             \/ c \in Managed /\ UNCHANGED <<netDesktop[c], workspace[c]>>
             \/ FollowsOwnerAway(c)]_vars

\* The same without the exception.
DesktopIsRight == \A c \in Managed : netDesktop[c] = workspace[c]

\* The WM forgets a window only after its client unmapped it while framed or
\* destroyed it: the unmaps the WM itself causes, by reparenting a window it
\* adopts and by hiding frames, never end in an unmanage (ignore_unmap).
NeverThrownOut ==
    [][\A c \in Windows :
         c \in Managed /\ frame'[c] = NoFrame => c \in withdrew \/ c \notin alive]_vars

\* A window whose client has asked to be mapped and does not take it back is
\* framed in the end, unless the WM dies.
MappedIsFramed ==
    \A c \in Windows :
        <>[](c \in asked) => <>[](c \in Managed \/ wm = "dead")

\* A destroyed window does not stay in the client table.
DestroyedIsForgotten ==
    \A c \in Windows : c \notin alive ~> (c \notin Managed \/ wm = "dead")

\* No client can end the event loop, whatever it does with its own windows
\* (project_sources/FEATURE_DESKTOP.md: a crash of the desktop helper "must
\* not crash or wedge the WM").  A WM that dies before, while scan_existing
\* adopts what it has listed, is not counted.
WmSurvives == wm = "dead" => scan # {}

\* A window its client has withdrawn for good leaves the client table.
WithdrawnIsForgotten ==
    \A c \in Windows :
        <>[](c \in alive \ asked) => <>[](c \notin Managed \/ wm = "dead")

\* X11Desktop::restore, which removes _NET_WM_STATE_HIDDEN, restores a
\* minimised window.
UnhideRestores ==
    \A c \in Windows :
        Handling("unhide") /\ Event.win = c /\ minimized[c]
            ~> ~minimized[c] \/ c \notin Managed \/ wm = "dead"

\* The WM reads its events dry: what its own unmaps, reparents and maps add
\* stays within what one handler posts (README.md: "effectively idle when no
\* user/system event occurs").
OwnEventsRunDry == Len(queue) <= QueueBound + 4

\* Only a window its client wants mapped gets a frame (handle_map_notify is
\* there for a window whose MapRequest the WM missed).
OnlyAskedIsFramed ==
    [][\A c \in Windows :
         c \notin Managed /\ frame'[c] # NoFrame => c \in asked]_vars
=============================================================================
