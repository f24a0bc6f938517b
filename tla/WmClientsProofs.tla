--------------------------- MODULE WmClientsProofs ---------------------------
(***************************************************************************)
(* For any number of windows, workspaces and unread events: the focus is   *)
(* on a window of the client table, no visible window is left without its  *)
(* frame on the screen, and no window is on a workspace that does not      *)
(* exist.  Neither a bound on the queue nor the patience of clients is     *)
(* used: a handler keeps these properties whatever it finds in the queue.  *)
(*                                                                         *)
(* The three properties are inductive together with the types.  Two        *)
(* lemmas carry the two ways a window enters and leaves the table; the     *)
(* other handlers change one window of it, or all of them in one pass.     *)
(*                                                                         *)
(* The last part is about what the queue holds: the window of a client     *)
(* that waits for its map request to be read is never thrown out of the    *)
(* table by an unmap the WM itself has caused.                             *)
(***************************************************************************)
EXTENDS WmClients, SequenceTheorems, TLAPS

\* What the queue holds: an event names a window, some frames or a number.
Events ==
    [kind : {"MapRequest", "MapNotify", "UnmapNotify", "DestroyNotify"}, win : Windows]
        \cup [kind : {"FramesUnmapped"}, frames : SUBSET Frames]
        \cup [kind : CommandKinds, win : Windows \cup {NoWindow},
              num : 0 .. MaxWorkspaces]

Types ==
    /\ queue \in Seq(Events)
    /\ alive \subseteq Windows
    /\ shown \subseteq Managed
    /\ scan \subseteq Windows
    /\ frame \in [Windows -> Frames \cup {NoFrame}]
    /\ minimized \in [Windows -> BOOLEAN]
    /\ workspace \in [Windows -> Workspaces]
    /\ current \in Workspaces
    /\ count \in 1 .. MaxWorkspaces
    /\ active \in Windows \cup {NoWindow}

WmInv ==
    /\ Types
    /\ NoWindowIsLost
    /\ FocusIsCoherent
    /\ WorkspacesInRange

\* The part of the table the invariant is about.
desk == <<scan, frame, minimized, workspace, current, count, active, netActive>>

-----------------------------------------------------------------------------
(* Events. *)

LEMMA WindowEvents ==
    ASSUME NEW c \in Windows
    PROVE  /\ MapRequest(c) \in Events /\ MapNotify(c) \in Events
           /\ UnmapNotify(c) \in Events /\ DestroyNotify(c) \in Events
  BY DEF Events, MapRequest, MapNotify, UnmapNotify, DestroyNotify

LEMMA Joined ==
    ASSUME NEW S, NEW s \in Seq(S), NEW t \in Seq(S)
    PROVE  s \o t \in Seq(S)
  OBVIOUS

LEMMA UnmappingEvents ==
    ASSUME NEW c \in Windows
    PROVE  /\ Unmapping(c) \in Seq(Events) /\ Destroying(c) \in Seq(Events)
<1>1. << >> \in Seq(Events)  OBVIOUS
<1>2. <<UnmapNotify(c)>> \in Seq(Events)  BY WindowEvents
<1>3. <<UnmapNotify(c), UnmapNotify(c)>> \in Seq(Events)  BY WindowEvents
<1>4. Unmapping(c) \in Seq(Events)  BY <1>1, <1>2, <1>3 DEF Unmapping
<1>5. Destroying(c) \in Seq(Events)  BY <1>4, WindowEvents DEF Destroying
<1> QED  BY <1>4, <1>5

LEMMA FrameEvents ==
    ASSUME Types, NEW cs \in SUBSET Windows
    PROVE  UnmapFrames(cs) \in Seq(Events)
<1> DEFINE fs == {frame[c] : c \in cs \cap shown}
<1>1. fs \in SUBSET Frames  BY DEF Types, Managed
<1>2. FramesUnmapped(fs) \in Events  BY <1>1 DEF Events, FramesUnmapped
<1> HIDE DEF fs
<1>3. << >> \in Seq(Events) /\ <<FramesUnmapped(fs)>> \in Seq(Events)  BY <1>2
<1>4. UnmapFrames(cs) = << >> \/ UnmapFrames(cs) = <<FramesUnmapped(fs)>>
  BY DEF UnmapFrames, fs
<1> QED  BY <1>3, <1>4

LEMMA ReadEvent ==
    ASSUME Types, NEW k, Handling(k)
    PROVE  Event \in Events /\ Rest \in Seq(Events) /\ Event.kind = k
<1>1. queue # << >>
  BY DEF Types, Handling
<1> QED  BY <1>1 DEF Types, Handling, Event, Rest

-----------------------------------------------------------------------------
(* The window table. *)

LEMMA InitTable == Init => WmInv
<1> SUFFICES ASSUME Init PROVE WmInv  OBVIOUS
<1>1. 0 \in Workspaces /\ 0 < count /\ count \in 1 .. MaxWorkspaces
  BY WmAssumption DEF Init
<1>2. queue \in Seq(Events)  BY DEF Init
<1>3. Types
  BY <1>1, <1>2 DEF Init, Types
<1>4. Managed = {}  BY DEF Init, Managed
<1>5. NoWindowIsLost /\ FocusIsCoherent /\ WorkspacesInRange
  BY <1>1, <1>4
  DEF Init, NoWindowIsLost, VisibleOn, FocusIsCoherent, WorkspacesInRange
<1> QED  BY <1>3, <1>5 DEF WmInv

\* A handler that leaves the table alone may read and cause events, unmap or
\* destroy windows, and map frames.
LEMMA TableKept ==
    ASSUME WmInv, queue' \in Seq(Events), alive' \subseteq alive,
           shown \subseteq shown', shown' \subseteq shown \cup Managed,
           UNCHANGED desk
    PROVE  WmInv'
<1>1. Managed' = Managed  BY DEF Managed, desk
<1>2. Types'
  BY <1>1 DEF WmInv, Types, desk
<1>3. NoWindowIsLost'
  BY <1>1 DEF WmInv, NoWindowIsLost, VisibleOn, desk
<1>4. FocusIsCoherent' /\ WorkspacesInRange'
  BY <1>1 DEF WmInv, FocusIsCoherent, WorkspacesInRange, desk
<1> QED  BY <1>2, <1>3, <1>4 DEF WmInv

\* Whatever was active before, a window that is forgotten or hidden is not.
LEMMA FocusLost ==
    ASSUME NEW c, LoseFocus(c), netActive = active
    PROVE  /\ netActive' = active'
           /\ active' = NoWindow \/ (active' = active /\ active # c)
  BY DEF LoseFocus, Unfocused, SameFocus

LEMMA ManageStep ==
    ASSUME WmInv, NEW c \in Windows, NEW q \in Seq(Events), Manage(c, q),
           scan' \subseteq scan
    PROVE  WmInv'
<1> DEFINE home == IF Owner[c] # NoWindow /\ Owner[c] \in Managed
                   THEN workspace[Owner[c]] ELSE current
<1>1. FreshFrame \in Frames /\ FreshFrame # NoFrame
  BY WmAssumption DEF Manage, FreshFrame, FreeFrames
<1>2. /\ home \in Workspaces /\ home < count
  BY DEF WmInv, Types, WorkspacesInRange, Managed
<1>3. /\ frame' = [frame EXCEPT ![c] = FreshFrame]
      /\ minimized' = [minimized EXCEPT ![c] = FALSE]
      /\ workspace' = [workspace EXCEPT ![c] = home]
      /\ shown' = shown \cup {c}
      /\ UNCHANGED <<alive, current, count>>
      /\ IF home = current THEN Focused(c) ELSE SameFocus
  BY DEF Manage, WithFrameUp
<1> HIDE DEF home
<1>4. queue' \in Seq(Events)
  <2>1. queue' = (q \o Unmapping(c)) \o <<MapNotify(c)>>  BY DEF Manage
  <2>2. <<MapNotify(c)>> \in Seq(Events)  BY WindowEvents
  <2>3. q \o Unmapping(c) \in Seq(Events)  BY UnmappingEvents, Joined
  <2>4. (q \o Unmapping(c)) \o <<MapNotify(c)>> \in Seq(Events)
    BY <2>2, <2>3, Joined
  <2> QED  BY <2>1, <2>4
<1>5. active' = c \/ active' = active
  BY <1>3 DEF Focused, SameFocus
<1>6. Managed' = Managed \cup {c}
  BY <1>1, <1>3 DEF WmInv, Types, Managed
<1>7. Types'
  BY <1>1, <1>2, <1>3, <1>4, <1>5, <1>6 DEF WmInv, Types
<1>8. NoWindowIsLost'
  BY <1>3, <1>6 DEF WmInv, Types, NoWindowIsLost, VisibleOn
<1>9. FocusIsCoherent'
  <2>1. netActive' = active'
    BY <1>3 DEF Focused, SameFocus, WmInv, FocusIsCoherent
  <2>2. c \in Managed' /\ ~minimized'[c]
    BY <1>3, <1>6 DEF WmInv, Types
  <2>3. ASSUME active' = active, active # NoWindow
        PROVE  active' \in Managed' /\ ~minimized'[active']
    BY <1>3, <1>6, <2>2, <2>3 DEF WmInv, Types, FocusIsCoherent
  <2> QED  BY <1>5, <2>1, <2>2, <2>3 DEF FocusIsCoherent
<1>10. WorkspacesInRange'
  BY <1>2, <1>3, <1>6 DEF WmInv, Types, WorkspacesInRange
<1> QED  BY <1>7, <1>8, <1>9, <1>10 DEF WmInv

LEMMA UnmanageStep ==
    ASSUME WmInv, NEW c \in Windows, Unmanage(c), Rest \in Seq(Events)
    PROVE  WmInv'
<1>1. queue' \in Seq(Events)
  <2>1. <<MapNotify(c)>> \in Seq(Events)  BY WindowEvents
  <2>2. Rest \o Unmapping(c) \in Seq(Events)  BY UnmappingEvents, Joined
  <2>3. (Rest \o Unmapping(c)) \o <<MapNotify(c)>> \in Seq(Events)
    BY <2>1, <2>2, Joined
  <2>4. queue' = Rest \/ queue' = (Rest \o Unmapping(c)) \o <<MapNotify(c)>>
    BY DEF Unmanage
  <2> QED  BY <2>3, <2>4
<1>2. /\ frame' = [frame EXCEPT ![c] = NoFrame]
      /\ shown' = shown \ {c}
      /\ UNCHANGED <<alive, scan, minimized, workspace, current, count>>
  BY DEF Unmanage, WithFrameDown, server
<1>3. /\ netActive' = active'
      /\ active' = NoWindow \/ (active' = active /\ active # c)
  BY FocusLost DEF Unmanage, WmInv, FocusIsCoherent
<1>4. Managed' = Managed \ {c}
  BY <1>2 DEF WmInv, Types, Managed
<1>5. Types'
  BY <1>1, <1>2, <1>3, <1>4 DEF WmInv, Types
<1>6. NoWindowIsLost'
  BY <1>2, <1>4 DEF WmInv, NoWindowIsLost, VisibleOn
<1>7. FocusIsCoherent'
  BY <1>2, <1>3, <1>4 DEF WmInv, FocusIsCoherent
<1>8. WorkspacesInRange'
  BY <1>2, <1>4 DEF WmInv, WorkspacesInRange
<1> QED  BY <1>5, <1>6, <1>7, <1>8 DEF WmInv

-----------------------------------------------------------------------------
(* The requests of pagers. *)

LEMMA IconifyStep == WmInv /\ Iconify => WmInv'
<1> SUFFICES ASSUME WmInv, Iconify PROVE WmInv'  OBVIOUS
<1> DEFINE c == Event.win
<1>1. c \in Managed /\ c \in Windows /\ Rest \in Seq(Events)
  BY ReadEvent DEF WmInv, Iconify, AboutManaged, Managed
<1>2. /\ minimized' = [minimized EXCEPT ![c] = TRUE]
      /\ shown' = shown \ {c}
      /\ queue' = Rest \o UnmapFrames({c})
      /\ LoseFocus(c)
      /\ UNCHANGED <<alive, scan, frame, workspace, current, count>>
  BY DEF Iconify, WithFrameDown, server
<1> HIDE DEF c
<1>3. queue' \in Seq(Events)
  BY <1>1, <1>2, FrameEvents, Joined DEF WmInv
<1>4. /\ netActive' = active'
      /\ active' = NoWindow \/ (active' = active /\ active # c)
  BY <1>2, FocusLost DEF WmInv, FocusIsCoherent
<1>5. Managed' = Managed  BY <1>2 DEF Managed
<1>6. Types'
  BY <1>2, <1>3, <1>4, <1>5 DEF WmInv, Types
<1>7. NoWindowIsLost'
  BY <1>1, <1>2, <1>5 DEF WmInv, Types, NoWindowIsLost, VisibleOn
<1>8. FocusIsCoherent'
  BY <1>2, <1>4, <1>5 DEF WmInv, Types, FocusIsCoherent
<1>9. WorkspacesInRange'
  BY <1>2, <1>5 DEF WmInv, WorkspacesInRange
<1> QED  BY <1>6, <1>7, <1>8, <1>9 DEF WmInv

LEMMA DeiconifyStep == WmInv /\ Deiconify => WmInv'
<1> SUFFICES ASSUME WmInv, Deiconify PROVE WmInv'  OBVIOUS
<1> DEFINE c == Event.win
<1>1. c \in Managed /\ c \in Windows /\ Rest \in Seq(Events)
  BY ReadEvent DEF WmInv, Deiconify, AboutManaged, Managed
<1>2. /\ minimized' = [minimized EXCEPT ![c] = FALSE]
      /\ shown' = shown \cup {c}
      /\ queue' = Rest
      /\ IF workspace[c] = current THEN Focused(c) ELSE SameFocus
      /\ UNCHANGED <<alive, scan, frame, workspace, current, count>>
  BY DEF Deiconify, WithFrameUp, server
<1> HIDE DEF c
<1>3. netActive' = active' /\ (active' = c \/ active' = active)
  BY <1>2 DEF Focused, SameFocus, WmInv, FocusIsCoherent
<1>4. Managed' = Managed  BY <1>2 DEF Managed
<1>5. Types'
  BY <1>1, <1>2, <1>3, <1>4 DEF WmInv, Types
<1>6. NoWindowIsLost'
  BY <1>2, <1>4 DEF WmInv, Types, NoWindowIsLost, VisibleOn
<1>7. FocusIsCoherent'
  BY <1>1, <1>2, <1>3, <1>4 DEF WmInv, Types, FocusIsCoherent
<1>8. WorkspacesInRange'
  BY <1>2, <1>4 DEF WmInv, WorkspacesInRange
<1> QED  BY <1>5, <1>6, <1>7, <1>8 DEF WmInv

LEMMA ActivateStep == WmInv /\ Activate => WmInv'
<1> SUFFICES ASSUME WmInv, Activate PROVE WmInv'  OBVIOUS
<1> DEFINE c == Event.win
<1>1. c \in Managed /\ c \in Windows /\ ~minimized[c] /\ Rest \in Seq(Events)
  BY ReadEvent DEF WmInv, Activate, AboutManaged, Managed, VisibleOn
<1>2. /\ active' = c /\ netActive' = c /\ queue' = Rest
      /\ UNCHANGED <<alive, scan, shown, frame, minimized, workspace, current, count>>
  BY DEF Activate, Focused, server, table
<1> HIDE DEF c
<1>3. Managed' = Managed  BY <1>2 DEF Managed
<1>4. Types'  BY <1>1, <1>2, <1>3 DEF WmInv, Types
<1>5. NoWindowIsLost' /\ WorkspacesInRange'
  BY <1>2, <1>3 DEF WmInv, NoWindowIsLost, VisibleOn, WorkspacesInRange
<1>6. FocusIsCoherent'
  BY <1>1, <1>2, <1>3 DEF FocusIsCoherent
<1> QED  BY <1>4, <1>5, <1>6 DEF WmInv

LEMMA MoveStep == WmInv /\ MoveToWorkspace => WmInv'
<1> SUFFICES ASSUME WmInv, MoveToWorkspace PROVE WmInv'  OBVIOUS
<1> DEFINE c == Event.win
           n == Event.num
           visible == ~minimized[c] /\ n = current
<1>1. /\ c \in Managed /\ c \in Windows /\ Rest \in Seq(Events)
      /\ Event \in Events /\ Event.kind = "toDesktop"
  BY ReadEvent DEF WmInv, MoveToWorkspace, AboutManaged, Managed
<1>2. n \in Workspaces /\ n < count
  <2>1. n \in 0 .. MaxWorkspaces  BY <1>1 DEF Events
  <2>2. n < count  BY DEF MoveToWorkspace
  <2> QED  BY <2>1, <2>2, WmAssumption DEF WmInv, Types
<1>3. /\ workspace' = [workspace EXCEPT ![c] = n]
      /\ shown' = IF visible THEN shown \cup {c} ELSE shown \ {c}
      /\ queue' = IF visible THEN Rest ELSE Rest \o UnmapFrames({c})
      /\ UNCHANGED <<alive, scan, frame, minimized, current, count, active, netActive>>
  BY DEF MoveToWorkspace, WithFrameUp, WithFrameDown, server
<1> HIDE DEF c, n
<1>4. queue' \in Seq(Events)
  <2>1. Rest \o UnmapFrames({c}) \in Seq(Events)
    BY <1>1, FrameEvents, Joined DEF WmInv
  <2> QED  BY <1>1, <1>3, <2>1
<1>5. Managed' = Managed  BY <1>3 DEF Managed
<1>6. Types'
  BY <1>1, <1>2, <1>3, <1>4, <1>5 DEF WmInv, Types
<1>7. NoWindowIsLost'
  BY <1>3, <1>5 DEF WmInv, Types, NoWindowIsLost, VisibleOn
<1>8. FocusIsCoherent'
  BY <1>3, <1>5 DEF WmInv, FocusIsCoherent
<1>9. WorkspacesInRange'
  BY <1>2, <1>3, <1>5 DEF WmInv, Types, WorkspacesInRange
<1> QED  BY <1>6, <1>7, <1>8, <1>9 DEF WmInv

LEMMA SwitchStep == WmInv /\ SwitchWorkspace => WmInv'
<1> SUFFICES ASSUME WmInv, SwitchWorkspace PROVE WmInv'  OBVIOUS
<1> DEFINE n == Event.num
           coming == {c \in Windows : VisibleOn(c, n)}
           going == {c \in Windows : VisibleOn(c, current)}
<1>1. /\ Rest \in Seq(Events) /\ Event \in Events /\ Event.kind = "currentDesktop"
  BY ReadEvent DEF WmInv, SwitchWorkspace
<1>2. n \in Workspaces /\ n < count /\ n # current
  <2>1. n \in 0 .. MaxWorkspaces  BY <1>1 DEF Events
  <2>2. n < count /\ n # current  BY DEF SwitchWorkspace
  <2> QED  BY <2>1, <2>2, WmAssumption DEF WmInv, Types
<1>3. /\ shown' = (shown \cup coming) \ going
      /\ queue' = Rest \o UnmapFrames(going)
      /\ current' = n /\ active' = NoWindow /\ netActive' = NoWindow
      /\ UNCHANGED <<alive, scan, frame, minimized, workspace, count>>
  BY DEF SwitchWorkspace, Unfocused, server
<1>4. queue' \in Seq(Events)
  <2>1. going \in SUBSET Windows  OBVIOUS
  <2> HIDE DEF going
  <2> QED  BY <1>1, <1>3, <2>1, FrameEvents, Joined DEF WmInv
<1>5. Managed' = Managed  BY <1>3 DEF Managed
<1>6. NoWindowIsLost'
  <2>1. \A c \in Windows : VisibleOn(c, current)' => c \in coming /\ c \notin going
    BY <1>2, <1>3, <1>5 DEF VisibleOn
  <2> QED  BY <1>3, <2>1 DEF NoWindowIsLost
<1>7. shown' \subseteq Managed
  BY <1>3 DEF WmInv, Types, VisibleOn
<1> HIDE DEF n, coming, going
<1>8. Types'
  BY <1>2, <1>3, <1>4, <1>5, <1>7 DEF WmInv, Types
<1>9. FocusIsCoherent' /\ WorkspacesInRange'
  BY <1>2, <1>3, <1>5 DEF WmInv, FocusIsCoherent, WorkspacesInRange
<1> QED  BY <1>6, <1>8, <1>9 DEF WmInv

\* The clamp gives a count of workspaces, and a window's home is on one of them.
LEMMA HomeInRange ==
    ASSUME WmInv, NEW n \in Nat
    PROVE  /\ Clamped(n) \in 1 .. MaxWorkspaces
           /\ \A c \in Windows :
                 Home(c, Clamped(n) - 1) \in Workspaces
                 /\ Home(c, Clamped(n) - 1) < Clamped(n)
<1>1. Clamped(n) \in 1 .. MaxWorkspaces
  BY WmAssumption DEF Clamped
<1>2. ASSUME NEW c \in Windows, NEW last \in Workspaces
      PROVE  Home(c, last) \in Workspaces /\ Home(c, last) <= last
  BY WmAssumption DEF Home, WmInv, Types
<1>3. Clamped(n) - 1 \in Workspaces  BY <1>1, WmAssumption
<1>4. \A c \in Windows :
        Home(c, Clamped(n) - 1) \in Workspaces
        /\ Home(c, Clamped(n) - 1) <= Clamped(n) - 1
  BY <1>2, <1>3
<1> QED  BY <1>1, <1>4, WmAssumption

LEMMA CountStep == WmInv /\ SetWorkspaceCount => WmInv'
<1> SUFFICES ASSUME WmInv, SetWorkspaceCount PROVE WmInv'  OBVIOUS
<1> DEFINE k == Clamped(Event.num)
           last == k - 1
           here == IF current > last THEN last ELSE current
           moved == {c \in Managed : Home(c, last) # workspace[c]}
           seen == {c \in Managed : ~minimized[c] /\ Home(c, last) = here}
<1>1. /\ Rest \in Seq(Events) /\ Event \in Events /\ Event.kind = "desktopCount"
  BY ReadEvent DEF WmInv, SetWorkspaceCount
<1>2. Event.num \in Nat  BY <1>1, WmAssumption DEF Events
<1>3. /\ k \in 1 .. MaxWorkspaces
      /\ \A c \in Windows : Home(c, last) \in Workspaces /\ Home(c, last) < k
  BY <1>2, HomeInRange
<1>4. /\ workspace' = [c \in Windows |->
             IF c \in moved THEN Home(c, last) ELSE workspace[c]]
      /\ current' = here /\ count' = last + 1 /\ shown' = seen
      /\ queue' = Rest \o UnmapFrames(Managed \ seen)
      /\ UNCHANGED <<alive, scan, frame, minimized, active, netActive>>
  BY DEF SetWorkspaceCount, server
<1>5. count' = k  BY <1>3, <1>4
<1>6. here \in Workspaces /\ here < k
  BY <1>3, WmAssumption DEF WmInv, Types
<1>7. queue' \in Seq(Events)
  <2>1. Managed \ seen \in SUBSET Windows  BY DEF Managed
  <2> HIDE DEF seen
  <2> QED  BY <1>1, <1>4, <2>1, FrameEvents, Joined DEF WmInv
<1>8. Managed' = Managed /\ Managed \subseteq Windows  BY <1>4 DEF Managed
<1>9. \A c \in Managed : workspace'[c] = Home(c, last)
  BY <1>4, <1>8
<1>10. NoWindowIsLost'
  BY <1>4, <1>8, <1>9 DEF NoWindowIsLost, VisibleOn
<1>11. FocusIsCoherent'
  BY <1>4, <1>8 DEF WmInv, FocusIsCoherent
<1>12. WorkspacesInRange'
  BY <1>3, <1>4, <1>5, <1>6, <1>8, <1>9 DEF WorkspacesInRange
<1>13. workspace' \in [Windows -> Workspaces]
  BY <1>3, <1>4 DEF WmInv, Types
<1>14. seen \subseteq Managed  OBVIOUS
<1> HIDE DEF k, here, moved, seen
<1>15. Types'
  BY <1>3, <1>4, <1>5, <1>6, <1>7, <1>8, <1>13, <1>14 DEF WmInv, Types
<1> QED  BY <1>10, <1>11, <1>12, <1>15 DEF WmInv

-----------------------------------------------------------------------------
(* Every step keeps the invariant. *)

\* Clients and pagers only add events, and destroy windows.
LEMMA OthersStep == WmInv /\ (Clients \/ Pagers) => WmInv'
<1> SUFFICES ASSUME WmInv, Clients \/ Pagers PROVE WmInv'  OBVIOUS
<1>1. ASSUME NEW c \in Windows, ClientMap(c)
      PROVE  WmInv'
  <2>1. queue' \in Seq(Events)
    BY <1>1, WindowEvents DEF ClientMap, WmInv, Types
  <2> QED
    BY <1>1, <2>1, TableKept DEF ClientMap, wmVars, table, desk
<1>2. ASSUME NEW c \in Windows, ClientUnmap(c)
      PROVE  WmInv'
  <2>1. queue' \in Seq(Events)
    BY <1>2, UnmappingEvents, Joined DEF ClientUnmap, WmInv, Types
  <2> QED
    BY <1>2, <2>1, TableKept DEF ClientUnmap, wmVars, table, desk
<1>3. ASSUME NEW c \in Windows, ClientDestroy(c)
      PROVE  WmInv'
  <2>1. queue' \in Seq(Events)
    BY <1>3, UnmappingEvents, Joined DEF ClientDestroy, WmInv, Types
  <2> QED
    BY <1>3, <2>1, TableKept DEF ClientDestroy, wmVars, table, desk
<1>4. ASSUME NEW k \in CommandKinds, NEW c \in Windows \cup {NoWindow},
             NEW n \in 0 .. MaxWorkspaces, Send(Message(k, c, n))
      PROVE  WmInv'
  <2>1. Message(k, c, n) \in Events  BY DEF Message, Events
  <2>2. queue' \in Seq(Events)
    BY <1>4, <2>1 DEF Send, WmInv, Types
  <2> QED
    BY <1>4, <2>2, TableKept DEF Send, server, wmVars, table, desk
<1>5. CASE SendToWindow
  <2>1. PICK c \in Managed :
          \/ \E k \in {"iconify", "deiconify", "unhide", "activate", "close"} :
                Send(Message(k, c, 0))
          \/ \E n \in Workspaces : Send(Message("toDesktop", c, n))
    BY <1>5 DEF SendToWindow
  <2>2. c \in Windows \cup {NoWindow}  BY DEF Managed
  <2>3. 0 \in 0 .. MaxWorkspaces /\ Workspaces \subseteq 0 .. MaxWorkspaces
    BY WmAssumption
  <2> QED  BY <1>4, <2>1, <2>2, <2>3 DEF CommandKinds
<1>6. CASE SendToRoot
  BY <1>4, <1>6 DEF SendToRoot, CommandKinds
<1> QED  BY <1>1, <1>2, <1>3, <1>5, <1>6 DEF Clients, Pagers

\* The handlers that bring a window into the table or let it go.
LEMMA LifecycleStep == WmInv /\ Lifecycle => WmInv'
<1> SUFFICES ASSUME WmInv, Lifecycle PROVE WmInv'  OBVIOUS
<1>1. ASSUME NEW c \in Windows, ScanAdopt(c) PROVE WmInv'
  <2>1. queue \in Seq(Events) /\ scan' \subseteq scan
    BY <1>1 DEF WmInv, Types, ScanAdopt
  <2> QED  BY <1>1, <2>1, ManageStep DEF ScanAdopt
<1>2. CASE MapNew \/ AdoptMapped
  <2>1. Event.win \in Windows /\ Rest \in Seq(Events) /\ scan' \subseteq scan
    BY <1>2, ReadEvent DEF MapNew, AdoptMapped, WmInv, Types
  <2>2. Manage(Event.win, Rest)  BY <1>2 DEF MapNew, AdoptMapped
  <2> QED  BY <2>1, <2>2, ManageStep
<1>3. CASE ScanDies \/ MapGone
  <2>1. UNCHANGED <<queue, alive, shown, desk>>
    BY <1>3 DEF ScanDies, MapGone, Die, server, table, desk
  <2> QED  BY <2>1, TableKept DEF WmInv, Types
<1>4. CASE MapManaged
  <2>1. /\ shown \subseteq shown' /\ shown' \subseteq shown \cup Managed
        /\ UNCHANGED <<alive, desk>>
    BY <1>4 DEF MapManaged, WithFrameUp, table, desk
  <2>2. Event.win \in Windows /\ Rest \in Seq(Events)
    BY <1>4, ReadEvent DEF WmInv, MapManaged, Managed
  <2>3. queue' = Rest \/ queue' = Append(Rest, MapNotify(Event.win))
    BY <1>4 DEF MapManaged
  <2>4. queue' \in Seq(Events)
    BY <2>2, <2>3, WindowEvents
  <2> QED  BY <2>1, <2>4, TableKept
<1>5. CASE UnmapIgnored \/ FramesUnmap
  <2>1. queue' = Rest /\ UNCHANGED <<alive, shown, desk>>
    BY <1>5 DEF UnmapIgnored, FramesUnmap, server, desk
  <2>2. Rest \in Seq(Events)
    BY <1>5, ReadEvent DEF WmInv, UnmapIgnored, FramesUnmap
  <2> QED  BY <2>1, <2>2, TableKept
<1>6. CASE UnmapWithdraws \/ Destroyed
  <2>1. Event.win \in Windows /\ Rest \in Seq(Events)
    BY <1>6, ReadEvent DEF WmInv, UnmapWithdraws, Destroyed, Managed
  <2>2. Unmanage(Event.win)  BY <1>6 DEF UnmapWithdraws, Destroyed
  <2> QED  BY <2>1, <2>2, UnmanageStep
<1> QED
  BY <1>1, <1>2, <1>3, <1>4, <1>5, <1>6 DEF Lifecycle, Managed, WmInv, Types

\* The handlers that serve a message about a window or the root.
LEMMA RequestsStep == WmInv /\ Requests => WmInv'
<1> SUFFICES ASSUME WmInv, Requests PROVE WmInv'  OBVIOUS
<1>1. CASE ProtocolsGone
  <2>1. UNCHANGED <<queue, alive, shown, desk>>
    BY <1>1 DEF ProtocolsGone, Die, server, table, desk
  <2> QED  BY <2>1, TableKept DEF WmInv, Types
<1>2. CASE CloseAsks \/ CloseKills
  <2>1. Event.win \in Windows /\ Rest \in Seq(Events)
    BY <1>2, ReadEvent DEF WmInv, CloseAsks, CloseKills, AboutManaged, Managed
  <2>2. queue' = Rest \/ queue' = Rest \o Destroying(Event.win)
    BY <1>2 DEF CloseAsks, CloseKills
  <2>3. queue' \in Seq(Events)
    BY <2>1, <2>2, UnmappingEvents, Joined
  <2>4. alive' \subseteq alive /\ UNCHANGED <<shown, desk>>
    BY <1>2 DEF CloseAsks, CloseKills, server, table, desk
  <2> QED  BY <2>3, <2>4, TableKept
<1>3. CASE Iconify          BY <1>3, IconifyStep
<1>4. CASE Deiconify        BY <1>4, DeiconifyStep
<1>5. CASE Activate         BY <1>5, ActivateStep
<1>6. CASE MoveToWorkspace  BY <1>6, MoveStep
<1>7. CASE SwitchWorkspace  BY <1>7, SwitchStep
<1>8. CASE SetWorkspaceCount  BY <1>8, CountStep
<1> QED
  BY <1>1, <1>2, <1>3, <1>4, <1>5, <1>6, <1>7, <1>8 DEF Requests

LEMMA IgnoreStep == WmInv /\ Ignore => WmInv'
<1> SUFFICES ASSUME WmInv, Ignore PROVE WmInv'  OBVIOUS
<1>1. queue' = Rest /\ UNCHANGED <<alive, shown, desk>>
  BY DEF Ignore, Drop, server, table, desk
<1>2. Rest \in Seq(Events)
  <2>1. PICK k \in {"MapNotify", "UnmapNotify", "DestroyNotify"} \cup CommandKinds :
          Handling(k)
    BY DEF Ignore, Moot, CommandKinds
  <2> QED  BY <2>1, ReadEvent DEF WmInv
<1> QED  BY <1>1, <1>2, TableKept

LEMMA NextTable == WmInv /\ [Next]_vars => WmInv'
<1> SUFFICES ASSUME WmInv, [Next]_vars PROVE WmInv'  OBVIOUS
<1>1. CASE Clients \/ Pagers  BY <1>1, OthersStep
<1>2. CASE Lifecycle          BY <1>2, LifecycleStep
<1>3. CASE Requests           BY <1>3, RequestsStep
<1>4. CASE Ignore             BY <1>4, IgnoreStep
<1>5. CASE UNCHANGED vars
  <2>1. UNCHANGED <<queue, alive, shown, desk>>
    BY <1>5 DEF vars, server, table, desk
  <2> QED  BY <2>1, TableKept DEF WmInv, Types
<1> QED  BY <1>1, <1>2, <1>3, <1>4, <1>5 DEF Next, WmStep

\* WmInv, the inductive invariant, holds in every reachable state.
THEOREM TableInvariance == Spec => []WmInv
  BY InitTable, NextTable, PTL DEF Spec

\* No sequence of minimise, restore, move, switch and change of the workspace
\* count leaves a visible window without its frame on the screen.
THEOREM VisibleIsShown == Spec => []NoWindowIsLost
<1>1. WmInv => NoWindowIsLost  BY DEF WmInv
<1> QED  BY <1>1, TableInvariance, PTL

\* The focus, as the WM keeps it and as it publishes it, is on a window of the
\* table that is not minimised.
THEOREM FocusStaysCoherent == Spec => []FocusIsCoherent
<1>1. WmInv => FocusIsCoherent  BY DEF WmInv
<1> QED  BY <1>1, TableInvariance, PTL

\* Every managed window and the current workspace are below the count.
THEOREM WorkspacesStayInRange == Spec => []WorkspacesInRange
<1>1. WmInv => WorkspacesInRange  BY DEF WmInv
<1> QED  BY <1>1, TableInvariance, PTL

-----------------------------------------------------------------------------
(* The rest of the types: what the server and the counters hold. *)

Around ==
    /\ mapped \subseteq alive
    /\ asked \subseteq alive
    /\ withdrew \subseteq Windows
    /\ watched \subseteq Windows
    /\ wm \in {"running", "dead"}
    /\ ignoreUnmap \in [Windows -> 0 .. IgnoreMax]
    /\ netDesktop \in [Windows -> Workspaces]

LEMMA BumpStays ==
    ASSUME NEW n \in 0 .. IgnoreMax
    PROVE  Bump(n) \in 0 .. IgnoreMax
  BY WmAssumption DEF Bump

LEMMA AroundByManage ==
    ASSUME WmInv, Around, NEW c \in alive, NEW q, Manage(c, q)
    PROVE  Around'
<1>1. /\ mapped' = mapped \cup {c} /\ watched' = watched \cup {c}
      /\ withdrew' = withdrew \ {c} /\ UNCHANGED <<alive, asked, wm>>
      /\ ignoreUnmap' = [ignoreUnmap EXCEPT ![c] = 1]
      /\ netDesktop' = [netDesktop EXCEPT ![c] = current]
  BY DEF Manage, ToldDesktop, FirstIgnore
<1>2. 1 \in 0 .. IgnoreMax /\ current \in Workspaces /\ c \in Windows
  BY WmAssumption DEF WmInv, Types
<1> QED  BY <1>1, <1>2 DEF Around

LEMMA AroundByOthers ==
    ASSUME WmInv, Around, Clients \/ Pagers
    PROVE  Around'
<1>1. UNCHANGED <<wm, ignoreUnmap, netDesktop>>
  BY DEF Clients, ClientMap, ClientUnmap, ClientDestroy, Pagers,
         SendToWindow, SendToRoot, Send, wmVars, table
<1>2. ASSUME NEW c \in Windows, ClientMap(c) PROVE Around'
  BY <1>1, <1>2 DEF ClientMap, Around
<1>3. ASSUME NEW c \in Windows, ClientUnmap(c) PROVE Around'
  BY <1>1, <1>3 DEF ClientUnmap, Around
<1>4. ASSUME NEW c \in Windows, ClientDestroy(c) PROVE Around'
  BY <1>1, <1>4 DEF ClientDestroy, Around
<1>5. CASE Pagers
  <2>1. UNCHANGED server
    BY <1>5 DEF Pagers, SendToWindow, SendToRoot, Send
  <2> QED  BY <1>1, <2>1 DEF server, Around
<1> QED  BY <1>2, <1>3, <1>4, <1>5 DEF Clients

LEMMA AroundByRequests ==
    ASSUME WmInv, Around, Requests
    PROVE  Around'
<1>1. CASE Iconify \/ Deiconify
  <2>1. /\ ignoreUnmap' = [ignoreUnmap EXCEPT ![Event.win] = Bump(@)]
        /\ UNCHANGED <<server, wm, netDesktop>> /\ Event.win \in Windows
    BY <1>1 DEF Iconify, Deiconify, AboutManaged, Managed
  <2>2. Bump(ignoreUnmap[Event.win]) \in 0 .. IgnoreMax
    BY <2>1, BumpStays DEF Around
  <2> QED  BY <2>1, <2>2 DEF Around, server
<1>2. CASE Activate \/ CloseAsks
  BY <1>2 DEF Activate, CloseAsks, Around, server, table
<1>3. CASE ProtocolsGone
  BY <1>3 DEF ProtocolsGone, Die, Around, server, table
<1>4. CASE CloseKills
  BY <1>4 DEF CloseKills, Around, table
<1>5. CASE MoveToWorkspace
  <2>1. /\ Event \in Events /\ Event.kind = "toDesktop" /\ Event.win \in Windows
    BY <1>5, ReadEvent DEF WmInv, MoveToWorkspace, AboutManaged, Managed
  <2>2. Event.num \in Workspaces
    <3>1. Event.num \in 0 .. MaxWorkspaces  BY <2>1 DEF Events
    <3>2. Event.num < count  BY <1>5 DEF MoveToWorkspace
    <3> QED  BY <3>1, <3>2, WmAssumption DEF WmInv, Types
  <2>3. Bump(ignoreUnmap[Event.win]) \in 0 .. IgnoreMax
    BY <2>1, BumpStays DEF Around
  <2>4. /\ netDesktop' = [netDesktop EXCEPT ![Event.win] = Event.num]
        /\ \/ ignoreUnmap' = ignoreUnmap
           \/ ignoreUnmap' = [ignoreUnmap EXCEPT
                 ![Event.win] = Bump(ignoreUnmap[Event.win])]
        /\ UNCHANGED <<server, wm>>
    BY <1>5 DEF MoveToWorkspace, ToldDesktop
  <2> QED  BY <2>1, <2>2, <2>3, <2>4 DEF Around, server
<1>6. CASE SwitchWorkspace
  <2>1. PICK going :
          /\ ignoreUnmap' = [c \in Windows |->
                IF c \in going THEN Bump(ignoreUnmap[c]) ELSE ignoreUnmap[c]]
          /\ UNCHANGED <<server, wm, netDesktop>>
    BY <1>6 DEF SwitchWorkspace
  <2>2. \A c \in Windows : Bump(ignoreUnmap[c]) \in 0 .. IgnoreMax
    BY BumpStays DEF Around
  <2> QED  BY <2>1, <2>2 DEF Around, server
<1>7. CASE SetWorkspaceCount
  <2>1. Event \in Events /\ Event.kind = "desktopCount"
    BY <1>7, ReadEvent DEF WmInv, SetWorkspaceCount
  <2>2. Event.num \in Nat  BY <2>1, WmAssumption DEF Events
  <2> DEFINE last == Clamped(Event.num) - 1
  <2>3. \A c \in Windows : Home(c, last) \in Workspaces
    BY <2>2, HomeInRange
  <2>4. PICK moved, hidden :
          /\ netDesktop' = [c \in Windows |->
                IF c \in moved THEN Home(c, last) ELSE netDesktop[c]]
          /\ ignoreUnmap' = [c \in Windows |->
                IF c \in hidden THEN Bump(ignoreUnmap[c]) ELSE ignoreUnmap[c]]
          /\ UNCHANGED <<server, wm>>
    BY <1>7 DEF SetWorkspaceCount
  <2>5. \A c \in Windows : Bump(ignoreUnmap[c]) \in 0 .. IgnoreMax
    BY BumpStays DEF Around
  <2> HIDE DEF last
  <2> QED  BY <2>3, <2>4, <2>5 DEF Around, server
<1> QED
  BY <1>1, <1>2, <1>3, <1>4, <1>5, <1>6, <1>7 DEF Requests

LEMMA AroundStep == WmInv /\ Around /\ [Next]_vars => Around'
<1> SUFFICES ASSUME WmInv, Around, [Next]_vars PROVE Around'  OBVIOUS
<1>1. ASSUME NEW c \in Windows, ScanAdopt(c) PROVE Around'
  BY <1>1, AroundByManage DEF ScanAdopt
<1>2. CASE MapNew \/ AdoptMapped
  BY <1>2, AroundByManage DEF MapNew, AdoptMapped
<1>3. CASE ScanDies \/ MapGone
  BY <1>3 DEF ScanDies, MapGone, Die, Around, server, table
<1>4. CASE MapManaged
  BY <1>4 DEF MapManaged, Around, table
<1>5. CASE UnmapIgnored
  <2>1. Event.win \in Windows /\ ignoreUnmap[Event.win] > 0
    BY <1>5 DEF UnmapIgnored, Managed
  <2>2. ignoreUnmap[Event.win] - 1 \in 0 .. IgnoreMax
    BY <2>1, WmAssumption DEF Around
  <2> QED  BY <1>5, <2>1, <2>2 DEF UnmapIgnored, Around, server
<1>6. CASE UnmapWithdraws \/ Destroyed
  BY <1>6 DEF UnmapWithdraws, Destroyed, Unmanage, Around, server
<1>7. CASE FramesUnmap
  <2>1. \A c \in Windows :
          ignoreUnmap[c] > 0 => ignoreUnmap[c] - 1 \in 0 .. IgnoreMax
    BY WmAssumption DEF Around
  <2> QED  BY <1>7, <2>1 DEF FramesUnmap, Around, server
<1>8. CASE Ignore
  BY <1>8 DEF Ignore, Drop, Around, server, table
<1>9. CASE Clients \/ Pagers  BY <1>9, AroundByOthers
<1>10. CASE Requests  BY <1>10, AroundByRequests
<1>11. CASE UNCHANGED vars
  BY <1>11 DEF vars, Around, server, table
<1> QED
  BY <1>1, <1>2, <1>3, <1>4, <1>5, <1>6, <1>7, <1>8, <1>9, <1>10, <1>11
  DEF Next, WmStep, Lifecycle, WmInv, Types

LEMMA AroundAlways == Spec => []Around
<1>1. Init => Around
  BY WmAssumption DEF Init, Around
<1> QED  BY <1>1, AroundStep, TableInvariance, PTL DEF Spec

\* The variables of the window manager, the server and its clients have their
\* types in every reachable state.
THEOREM WmTypeCorrect == Spec => []TypeOK
<1>1. WmInv /\ Around => TypeOK
  <2> SUFFICES ASSUME WmInv, Around PROVE TypeOK  OBVIOUS
  <2>1. ASSUME NEW e \in Events PROVE EventOK(e)  BY DEF Events, EventOK
  <2>2. \A i \in 1 .. Len(queue) : EventOK(queue[i])
    BY <2>1 DEF WmInv, Types
  <2>3. netActive \in Windows \cup {NoWindow}
    BY DEF WmInv, Types, FocusIsCoherent
  <2> QED  BY <2>2, <2>3 DEF WmInv, Types, Around, TypeOK
<1> QED  BY <1>1, AroundAlways, TableInvariance, PTL

-----------------------------------------------------------------------------
(* _NET_WM_DESKTOP.  A step that changes a workspace publishes the change,   *)
(* and one that adopts a window publishes its workspace, unless the window   *)
(* follows its owner to a workspace that is not the current one.             *)

\* What DesktopIsTold says of one window.
Told(c) ==
    \/ netDesktop'[c] = workspace'[c]
    \/ c \in Managed /\ UNCHANGED <<netDesktop[c], workspace[c]>>
    \/ FollowsOwnerAway(c)

\* scan_existing adopts its snapshot before any event is read: a window still
\* in the snapshot has no frame.
Unadopted == \A c \in scan : c \notin Managed

Published ==
    /\ Types
    /\ netDesktop \in [Windows -> Workspaces]
    /\ Unadopted

LEMMA UnadoptedKept ==
    ASSUME Types, Unadopted, Managed' \subseteq Managed, scan' \subseteq scan
    PROVE  Unadopted'
  BY DEF Unadopted

LEMMA UnadoptedByManage ==
    ASSUME Types, NEW c \in Windows, NEW q, Manage(c, q)
    PROVE  Managed' \subseteq Managed \cup {c}
<1>1. frame' = [frame EXCEPT ![c] = FreshFrame]  BY DEF Manage
<1> QED  BY <1>1 DEF Managed, Types

LEMMA UnadoptedStep == Types /\ Unadopted /\ [Next]_vars => Unadopted'
<1> SUFFICES ASSUME Types, Unadopted, [Next]_vars PROVE Unadopted'  OBVIOUS
<1>1. ASSUME NEW c \in Windows, ScanAdopt(c) PROVE Unadopted'
  <2>1. Managed' \subseteq Managed \cup {c}
    BY <1>1, UnadoptedByManage DEF ScanAdopt
  <2>2. scan' = scan \ {c}  BY <1>1 DEF ScanAdopt
  <2> QED  BY <2>1, <2>2 DEF Unadopted
<1>2. CASE MapNew \/ AdoptMapped
  BY <1>2 DEF MapNew, AdoptMapped, Handling, Unadopted
<1>3. CASE UnmapWithdraws \/ Destroyed
  <2>1. frame' = [frame EXCEPT ![Event.win] = NoFrame] /\ scan' = scan
    BY <1>3 DEF UnmapWithdraws, Destroyed, Unmanage
  <2>2. Managed' \subseteq Managed  BY <2>1 DEF Managed, Types
  <2> QED  BY <2>1, <2>2, UnadoptedKept
<1>4. ASSUME UNCHANGED <<frame, scan>> PROVE Unadopted'
  <2>1. Managed' = Managed  BY <1>4 DEF Managed
  <2> QED  BY <1>4, <2>1, UnadoptedKept
<1>5. CASE Clients \/ Pagers
  <2>1. UNCHANGED wmVars
    BY <1>5 DEF Clients, ClientMap, ClientUnmap, ClientDestroy, Pagers,
                SendToWindow, SendToRoot, Send
  <2> QED  BY <1>4, <2>1 DEF wmVars, table
<1>6. CASE ScanDies \/ MapGone \/ ProtocolsGone
  BY <1>4, <1>6 DEF ScanDies, MapGone, ProtocolsGone, Die, table
<1>7. CASE MapManaged \/ UnmapIgnored \/ FramesUnmap \/ Ignore
  BY <1>4, <1>7 DEF MapManaged, UnmapIgnored, FramesUnmap, Ignore, Drop, table
<1>8. CASE Iconify \/ Deiconify \/ Activate \/ CloseAsks \/ CloseKills
            \/ SwitchWorkspace \/ MoveToWorkspace \/ SetWorkspaceCount
  BY <1>4, <1>8 DEF Iconify, Deiconify, Activate, CloseAsks, CloseKills,
                     SwitchWorkspace, MoveToWorkspace, SetWorkspaceCount, table
<1>9. CASE UNCHANGED vars  BY <1>4, <1>9 DEF vars, table
<1> QED
  BY <1>1, <1>2, <1>3, <1>5, <1>6, <1>7, <1>8, <1>9
  DEF Next, WmStep, Lifecycle, Requests

LEMMA ToldKept ==
    ASSUME Managed' \subseteq Managed, UNCHANGED <<workspace, netDesktop>>,
           NEW c \in Windows, frame'[c] # NoFrame
    PROVE  Told(c)
<1>1. c \in Managed  BY DEF Managed
<1> QED  BY <1>1 DEF Told

LEMMA ToldByManage ==
    ASSUME Published, NEW c \in Windows, NEW q, c \notin Managed, Manage(c, q),
           NEW d \in Windows, frame'[d] # NoFrame
    PROVE  Told(d)
<1> DEFINE home == IF Owner[c] # NoWindow /\ Owner[c] \in Managed
                   THEN workspace[Owner[c]] ELSE current
<1>1. /\ workspace' = [workspace EXCEPT ![c] = home]
      /\ netDesktop' = [netDesktop EXCEPT ![c] = current]
      /\ frame' = [frame EXCEPT ![c] = FreshFrame]
  BY DEF Manage, ToldDesktop
<1>2. CASE d # c
  <2>1. frame'[d] = frame[d] /\ workspace'[d] = workspace[d]
            /\ netDesktop'[d] = netDesktop[d]
    BY <1>1, <1>2 DEF Published, Types
  <2>2. d \in Managed  BY <2>1 DEF Managed
  <2> QED  BY <2>1, <2>2 DEF Told
<1>3. CASE d = c /\ home = current
  <2>1. workspace'[c] = current /\ netDesktop'[c] = current
    BY <1>1, <1>3 DEF Published, Types
  <2> QED  BY <1>3, <2>1 DEF Told
<1>4. CASE d = c /\ home # current
  <2>1. FollowsOwnerAway(c)  BY <1>4 DEF FollowsOwnerAway
  <2> QED  BY <1>4, <2>1 DEF Told
<1> QED  BY <1>2, <1>3, <1>4

LEMMA ToldByMove ==
    ASSUME WmInv, Published, MoveToWorkspace, NEW c \in Windows, frame'[c] # NoFrame
    PROVE  Told(c)
<1>1. Event.win \in Windows
  BY ReadEvent DEF WmInv, MoveToWorkspace, AboutManaged, Managed
<1>2. /\ workspace' = [workspace EXCEPT ![Event.win] = Event.num]
      /\ netDesktop' = [netDesktop EXCEPT ![Event.win] = Event.num]
      /\ frame' = frame
  BY DEF MoveToWorkspace, ToldDesktop
<1>3. c \in Managed  BY <1>2 DEF Managed
<1> QED  BY <1>1, <1>2, <1>3 DEF Told, Published, Types

LEMMA ToldByCount ==
    ASSUME Published, SetWorkspaceCount, NEW c \in Windows, frame'[c] # NoFrame
    PROVE  Told(c)
<1> DEFINE last == Clamped(Event.num) - 1
           moved == {d \in Managed : Home(d, last) # workspace[d]}
<1>1. /\ workspace' = [d \in Windows |->
             IF d \in moved THEN Home(d, last) ELSE workspace[d]]
      /\ netDesktop' = [d \in Windows |->
             IF d \in moved THEN Home(d, last) ELSE netDesktop[d]]
      /\ frame' = frame
  BY DEF SetWorkspaceCount
<1>2. c \in Managed  BY <1>1 DEF Managed
<1> HIDE DEF moved
<1> QED  BY <1>1, <1>2 DEF Told

LEMMA ToldStep ==
    ASSUME WmInv, Published, [Next]_vars, NEW c \in Windows, frame'[c] # NoFrame
    PROVE  Told(c)
<1>1. ASSUME NEW d \in Windows, ScanAdopt(d) PROVE Told(c)
  <2>1. d \notin Managed  BY <1>1 DEF ScanAdopt, Published, Unadopted
  <2> QED  BY <1>1, <2>1, ToldByManage DEF ScanAdopt
<1>2. CASE MapNew \/ AdoptMapped
  <2>1. Event.win \in Windows \ Managed /\ Manage(Event.win, Rest)
    BY <1>2 DEF MapNew, AdoptMapped, WmInv, Types
  <2> QED  BY <2>1, ToldByManage
<1>3. CASE UnmapWithdraws \/ Destroyed
  <2>1. /\ frame' = [frame EXCEPT ![Event.win] = NoFrame]
        /\ UNCHANGED <<workspace, netDesktop>>
    BY <1>3 DEF UnmapWithdraws, Destroyed, Unmanage
  <2>2. Managed' \subseteq Managed  BY <2>1 DEF Managed, WmInv, Types
  <2> QED  BY <2>1, <2>2, ToldKept
<1>4. CASE MoveToWorkspace  BY <1>4, ToldByMove
<1>5. CASE SetWorkspaceCount  BY <1>5, ToldByCount
<1>6. ASSUME UNCHANGED <<frame, workspace, netDesktop>> PROVE Told(c)
  <2>1. Managed' = Managed  BY <1>6 DEF Managed
  <2> QED  BY <1>6, <2>1, ToldKept
<1>7. CASE Clients \/ Pagers
  <2>1. UNCHANGED wmVars
    BY <1>7 DEF Clients, ClientMap, ClientUnmap, ClientDestroy, Pagers,
                SendToWindow, SendToRoot, Send
  <2> QED  BY <1>6, <2>1 DEF wmVars, table
<1>8. CASE ScanDies \/ MapGone \/ ProtocolsGone
  BY <1>6, <1>8 DEF ScanDies, MapGone, ProtocolsGone, Die, table
<1>9. CASE MapManaged \/ UnmapIgnored \/ FramesUnmap \/ Ignore
  BY <1>6, <1>9 DEF MapManaged, UnmapIgnored, FramesUnmap, Ignore, Drop, table
<1>10. CASE Iconify \/ Deiconify \/ Activate \/ CloseAsks \/ CloseKills
            \/ SwitchWorkspace
  BY <1>6, <1>10 DEF Iconify, Deiconify, Activate, CloseAsks, CloseKills,
                     SwitchWorkspace, table
<1>11. CASE UNCHANGED vars  BY <1>6, <1>11 DEF vars, table
<1> QED
  BY <1>1, <1>2, <1>3, <1>4, <1>5, <1>7, <1>8, <1>9, <1>10, <1>11
  DEF Next, WmStep, Lifecycle, Requests, WmInv, Types

\* The workspace other programs read in _NET_WM_DESKTOP follows the one the WM
\* keeps, for any number of windows, owners and workspaces; only a transient
\* of a window on another workspace is published wrongly, when it is managed.
THEOREM DesktopAlwaysTold == Spec => DesktopIsTold
<1>1. Init => Unadopted
  BY DEF Init, Unadopted, Managed
<1>2. WmInv => Types  BY DEF WmInv
<1>3. Spec => []Unadopted
  BY <1>1, <1>2, UnadoptedStep, TableInvariance, PTL DEF Spec
<1>4. WmInv /\ Around /\ Unadopted => Published
  BY DEF WmInv, Around, Published
<1>5. WmInv /\ Published /\ [Next]_vars
        => [\A c \in Windows :
              frame'[c] # NoFrame =>
                  \/ netDesktop'[c] = workspace'[c]
                  \/ c \in Managed /\ UNCHANGED <<netDesktop[c], workspace[c]>>
                  \/ FollowsOwnerAway(c)]_vars
  BY ToldStep DEF Told
<1> QED
  BY <1>3, <1>4, <1>5, TableInvariance, AroundAlways, PTL
  DEF Spec, DesktopIsTold

-----------------------------------------------------------------------------
(* Unmaps on their way.  For a client that waits until its map request has   *)
(* been read, the WM can tell its own unmaps from those of the client by     *)
(* their place: what a reparent causes is followed by a MapNotify.           *)

Places == 1 .. Len(queue)

\* An event that a map of c follows.
Followed(c, i) == \E k \in i .. Len(queue) : queue[k] = MapNotify(c)

\* One request is unread at a time, the last word of the client.
OneRequest(c) ==
    /\ \A i, j \in Places :
          queue[i] = MapRequest(c) /\ queue[j] = MapRequest(c) => i = j
    /\ \A i, j \in Places :
          queue[i] = UnmapNotify(c) /\ queue[j] = MapRequest(c) => i < j
    /\ \A i \in Places : queue[i] # DestroyNotify(c)

\* A window without a frame is mapped only if scan_existing is to adopt it.
Unframed(c) ==
    c \notin Managed =>
        /\ \A i \in Places : queue[i] # MapNotify(c)
        /\ c \in mapped =>
              /\ c \in scan
              /\ \A i \in Places :
                    queue[i] # UnmapNotify(c) /\ queue[i] # MapRequest(c)

\* The WM has not touched a window that is still to be scanned.
Listed(c) ==
    c \in scan =>
        /\ c \notin watched /\ c \notin Managed
        /\ \A i, j \in Places :
              queue[i] = UnmapNotify(c) /\ queue[j] = UnmapNotify(c) => i = j

\* An unmap that a map follows is the only one, it comes before those of the
\* frame, and ignore_unmap still counts it.
Counted(c) ==
    c \in Managed =>
        \A i \in Places : queue[i] = UnmapNotify(c) /\ Followed(c, i) =>
            /\ ignoreUnmap[c] > 0
            /\ \A j \in 1 .. i - 1 :
                  /\ queue[j] # UnmapNotify(c)
                  /\ queue[j].kind = "FramesUnmapped" => frame[c] \notin queue[j].frames

\* An unmap that no map follows is the client's.
Meant(c) ==
    c \in Managed =>
        \A i \in Places : queue[i] = UnmapNotify(c) /\ ~Followed(c, i) =>
            c \notin mapped /\ c \in withdrew

Calm(c) ==
    OneRequest(c) /\ Unframed(c) /\ Listed(c) /\ Counted(c) /\ Meant(c)

-----------------------------------------------------------------------------
(* How a step changes the queue: it reads one event or none, and adds some.  *)

\* The first d events are read.
Shifted(d) ==
    /\ d \in {0, 1}
    /\ d <= Len(queue)
    /\ Len(queue) - d <= Len(queue')
    /\ \A i \in 1 .. Len(queue) - d : queue'[i] = queue[i + d]

Added(d) == Len(queue) - d + 1 .. Len(queue')

About(c) == {MapRequest(c), UnmapNotify(c), MapNotify(c), DestroyNotify(c)}

Others(c, s) == s \in Seq(Events) /\ \A i \in 1 .. Len(s) : s[i] \notin About(c)

\* The step adds nothing about c.
Quiet(c) ==
    \E d \in {0, 1} : Shifted(d) /\ \A i \in Added(d) : queue'[i] \notin About(c)

LEMMA Different ==
    ASSUME NEW c
    PROVE  /\ MapRequest(c) # UnmapNotify(c) /\ MapRequest(c) # MapNotify(c)
           /\ MapRequest(c) # DestroyNotify(c) /\ UnmapNotify(c) # MapNotify(c)
           /\ UnmapNotify(c) # DestroyNotify(c) /\ MapNotify(c) # DestroyNotify(c)
  BY DEF MapRequest, UnmapNotify, MapNotify, DestroyNotify

LEMMA Distinct ==
    ASSUME NEW c, NEW w, w # c
    PROVE  \A e \in About(w) : e \notin About(c)
  BY DEF About, MapRequest, UnmapNotify, MapNotify, DestroyNotify

LEMMA Reads ==
    ASSUME queue \in Seq(Events), queue # << >>, NEW s \in Seq(Events),
           queue' = Rest \o s
    PROVE  /\ Shifted(1)
           /\ Len(queue') = Len(queue) - 1 + Len(s)
           /\ \A i \in Added(1) : i - (Len(queue) - 1) \in 1 .. Len(s)
                                  /\ queue'[i] = s[i - (Len(queue) - 1)]
<1>1. /\ Rest \in Seq(Events) /\ Len(Rest) = Len(queue) - 1 /\ Len(queue) \in Nat
      /\ Len(queue) > 0
      /\ \A i \in 1 .. Len(queue) - 1 : Rest[i] = queue[i + 1]
  BY DEF Rest
<1>2. /\ Len(queue') = Len(Rest) + Len(s) /\ Len(s) \in Nat
      /\ \A i \in 1 .. Len(Rest) : queue'[i] = Rest[i]
      /\ \A i \in Len(Rest) + 1 .. Len(Rest) + Len(s) : queue'[i] = s[i - Len(Rest)]
  BY <1>1
<1> QED  BY <1>1, <1>2 DEF Shifted, Added

LEMMA Posts ==
    ASSUME queue \in Seq(Events), NEW s \in Seq(Events), queue' = queue \o s
    PROVE  /\ Shifted(0)
           /\ Len(queue') = Len(queue) + Len(s)
           /\ \A i \in Added(0) : i - Len(queue) \in 1 .. Len(s)
                                  /\ queue'[i] = s[i - Len(queue)]
<1>1. /\ Len(queue') = Len(queue) + Len(s) /\ Len(s) \in Nat /\ Len(queue) \in Nat
      /\ \A i \in 1 .. Len(queue) : queue'[i] = queue[i]
      /\ \A i \in Len(queue) + 1 .. Len(queue) + Len(s) :
            queue'[i] = s[i - Len(queue)]
  OBVIOUS
<1> QED  BY <1>1 DEF Shifted, Added

LEMMA QuietRead ==
    ASSUME queue \in Seq(Events), queue # << >>, NEW c, NEW s, Others(c, s),
           queue' = Rest \o s
    PROVE  Quiet(c)
  BY Reads DEF Quiet, Others

LEMMA QuietPost ==
    ASSUME queue \in Seq(Events), NEW c, NEW s, Others(c, s), queue' = queue \o s
    PROVE  Quiet(c)
  BY Posts DEF Quiet, Others

LEMMA OthersJoined ==
    ASSUME NEW c, NEW s, NEW t, Others(c, s), Others(c, t)
    PROVE  Others(c, s \o t)
<1>1. s \in Seq(Events) /\ t \in Seq(Events)  BY DEF Others
<1>2. /\ s \o t \in Seq(Events) /\ Len(s \o t) = Len(s) + Len(t)
      /\ \A i \in 1 .. Len(s) : (s \o t)[i] = s[i]
      /\ \A i \in Len(s) + 1 .. Len(s) + Len(t) :
            i - Len(s) \in 1 .. Len(t) /\ (s \o t)[i] = t[i - Len(s)]
      /\ Len(s) \in Nat /\ Len(t) \in Nat
  BY <1>1
<1> QED  BY <1>2 DEF Others

LEMMA NothingElse == \A c : Others(c, << >>)
  BY DEF Others

LEMMA OneEvent ==
    ASSUME NEW c, NEW e \in Events, e \notin About(c)
    PROVE  Others(c, <<e>>)
<1>1. <<e>> \in Seq(Events) /\ Len(<<e>>) = 1 /\ <<e>>[1] = e  OBVIOUS
<1> QED  BY <1>1 DEF Others

LEMMA OthersOfAnother ==
    ASSUME NEW c \in Windows, NEW w \in Windows, w # c
    PROVE  /\ Others(c, Unmapping(w)) /\ Others(c, Destroying(w))
           /\ Others(c, <<MapNotify(w)>>) /\ Others(c, <<MapRequest(w)>>)
<1>1. \A e \in About(w) : e \in Events /\ e \notin About(c)
  BY WindowEvents, Distinct DEF About
<1>2. ASSUME NEW e \in About(w) PROVE Others(c, <<e>>)
  <2>1. e \in Events /\ e \notin About(c)  BY <1>1
  <2> QED  BY <2>1, OneEvent
<1>3. /\ Others(c, <<UnmapNotify(w)>>) /\ Others(c, <<MapNotify(w)>>)
      /\ Others(c, <<MapRequest(w)>>) /\ Others(c, <<DestroyNotify(w)>>)
  BY <1>2 DEF About
<1>4. Others(c, <<UnmapNotify(w), UnmapNotify(w)>>)
  <2>1. <<UnmapNotify(w), UnmapNotify(w)>> = <<UnmapNotify(w)>> \o <<UnmapNotify(w)>>
    OBVIOUS
  <2> QED  BY <1>3, <2>1, OthersJoined
<1>5. Others(c, Unmapping(w))
  BY <1>3, <1>4, NothingElse DEF Unmapping
<1>6. Destroying(w) = Unmapping(w) \o <<DestroyNotify(w)>>
  BY <1>5 DEF Destroying, Others
<1>7. Others(c, Destroying(w))  BY <1>3, <1>5, <1>6, OthersJoined
<1> QED  BY <1>3, <1>5, <1>7

LEMMA OthersOfFrames ==
    ASSUME Types, NEW c, NEW cs \in SUBSET Windows
    PROVE  Others(c, UnmapFrames(cs))
<1>1. UnmapFrames(cs) \in Seq(Events)  BY FrameEvents
<1>2. UnmapFrames(cs) = << >> \/ \E fs : UnmapFrames(cs) = <<FramesUnmapped(fs)>>
  BY DEF UnmapFrames
<1>3. CASE UnmapFrames(cs) = << >>  BY <1>3, NothingElse
<1>4. ASSUME NEW fs, UnmapFrames(cs) = <<FramesUnmapped(fs)>>
      PROVE  Others(c, UnmapFrames(cs))
  <2>1. FramesUnmapped(fs) \notin About(c)
    BY DEF About, FramesUnmapped, MapRequest, UnmapNotify, MapNotify, DestroyNotify
  <2> QED  BY <1>1, <1>4, <2>1 DEF Others
<1> QED  BY <1>2, <1>3, <1>4

-----------------------------------------------------------------------------
(* A step that adds nothing about c and leaves it alone keeps it calm.       *)

Alone(c) ==
    /\ frame'[c] = frame[c]
    /\ (c \in mapped) = (c \in mapped')
    /\ (c \in scan) = (c \in scan')
    /\ (c \in watched) = (c \in watched')
    /\ c \in withdrew => c \in withdrew'

\* The client's word keeps its order in such a step.
LEMMA QuietRequest ==
    ASSUME queue \in Seq(Events), queue' \in Seq(Events),
           NEW c \in Windows, OneRequest(c), Quiet(c)
    PROVE  OneRequest(c)'
<1>1. PICK d \in {0, 1} :
         /\ Shifted(d)
         /\ \A i \in Added(d) : queue'[i] \notin About(c)
  BY DEF Quiet
<1>2. Len(queue) \in Nat /\ Len(queue') \in Nat  OBVIOUS
<1>3. ASSUME NEW i \in Places', queue'[i] \in About(c)
      PROVE  i + d \in Places /\ queue'[i] = queue[i + d]
  BY <1>1, <1>2, <1>3 DEF Places, Shifted, Added
<1>4. ASSUME NEW i \in Places' PROVE queue'[i] # DestroyNotify(c)
  BY <1>3 DEF OneRequest, About
<1>5. ASSUME NEW i \in Places', NEW j \in Places', queue'[j] = MapRequest(c)
      PROVE  /\ queue'[i] = MapRequest(c) => i = j
             /\ queue'[i] = UnmapNotify(c) => i < j
  <2>1. j + d \in Places /\ queue[j + d] = MapRequest(c)
    BY <1>3, <1>5 DEF About
  <2>2. queue'[i] = MapRequest(c) \/ queue'[i] = UnmapNotify(c)
           => i + d \in Places /\ queue'[i] = queue[i + d]
    BY <1>3 DEF About
  <2>3. /\ queue'[i] = MapRequest(c) => i + d = j + d
        /\ queue'[i] = UnmapNotify(c) => i + d < j + d
    BY <2>1, <2>2 DEF OneRequest
  <2> QED  BY <1>2, <2>3 DEF Places
<1> QED  BY <1>4, <1>5 DEF OneRequest

LEMMA QuietStep ==
    ASSUME queue \in Seq(Events), queue' \in Seq(Events),
           NEW c \in Windows, Calm(c), Quiet(c), Alone(c),
           \/ ignoreUnmap[c] > 0 => ignoreUnmap'[c] > 0
           \/ \A i \in Places' : queue'[i] = UnmapNotify(c) => ~Followed(c, i)'
    PROVE  Calm(c)'
<1>1. PICK d \in {0, 1} :
         /\ Shifted(d)
         /\ \A i \in Added(d) : queue'[i] \notin About(c)
  BY DEF Quiet
<1>2. Len(queue) \in Nat /\ Len(queue') \in Nat  OBVIOUS
<1>3. ASSUME NEW i \in Places', queue'[i] \in About(c)
      PROVE  /\ i + d \in Places /\ i \in 1 .. Len(queue) - d
             /\ queue'[i] = queue[i + d]
  BY <1>1, <1>2, <1>3 DEF Places, Shifted, Added
<1>4. (c \in Managed) = (c \in Managed')  BY DEF Managed, Alone
<1>5. ASSUME NEW i \in Places', queue'[i] \in About(c)
      PROVE  Followed(c, i)' = Followed(c, i + d)
  <2>1. ASSUME NEW k \in i .. Len(queue'), queue'[k] = MapNotify(c)
        PROVE  k + d \in i + d .. Len(queue) /\ queue[k + d] = MapNotify(c)
    <3>1. k \in Places'  BY <1>2, <2>1 DEF Places
    <3>2. queue'[k] \in About(c)  BY <2>1 DEF About
    <3>3. k + d \in Places /\ queue'[k] = queue[k + d]  BY <1>3, <3>1, <3>2
    <3> QED  BY <1>2, <2>1, <3>3 DEF Places
  <2>2. ASSUME NEW k \in i + d .. Len(queue), queue[k] = MapNotify(c)
        PROVE  k - d \in i .. Len(queue') /\ queue'[k - d] = MapNotify(c)
    <3>1. k \in Nat /\ k - d \in i .. Len(queue) - d /\ k - d \in 1 .. Len(queue) - d
      BY <1>2, <2>2 DEF Places
    <3>2. queue'[k - d] = queue[(k - d) + d] /\ (k - d) + d = k
      BY <1>1, <3>1 DEF Shifted
    <3>3. Len(queue) - d <= Len(queue')  BY <1>1 DEF Shifted
    <3> QED  BY <1>2, <2>2, <3>1, <3>2, <3>3 DEF Places
  <2> QED  BY <2>1, <2>2 DEF Followed
<1>6. OneRequest(c)'  BY QuietRequest DEF Calm
<1>7. Unframed(c)'
  BY <1>3, <1>4 DEF Calm, Unframed, Alone, About
<1>8. Listed(c)'
  BY <1>1, <1>2, <1>3, <1>4 DEF Calm, Listed, Alone, Places, About
<1>9. Counted(c)'
  <2> SUFFICES ASSUME c \in Managed', NEW i \in Places',
                      queue'[i] = UnmapNotify(c), Followed(c, i)'
               PROVE  /\ ignoreUnmap'[c] > 0
                      /\ \A j \in 1 .. i - 1 :
                            /\ queue'[j] # UnmapNotify(c)
                            /\ queue'[j].kind = "FramesUnmapped" =>
                                  frame'[c] \notin queue'[j].frames
    BY DEF Counted
  <2>1. queue'[i] \in About(c)  BY DEF About
  <2>2. /\ i + d \in Places /\ queue[i + d] = UnmapNotify(c) /\ Followed(c, i + d)
        /\ i \in 1 .. Len(queue) - d
    BY <1>3, <1>5, <2>1
  <2>3. \A j \in 1 .. (i + d) - 1 :
           /\ queue[j] # UnmapNotify(c)
           /\ queue[j].kind = "FramesUnmapped" => frame[c] \notin queue[j].frames
    BY <1>4, <2>2 DEF Calm, Counted
  <2>4. ignoreUnmap[c] > 0
    BY <1>4, <2>2 DEF Calm, Counted
  <2>5. \A j \in 1 .. i - 1 :
           j + d \in 1 .. (i + d) - 1 /\ queue'[j] = queue[j + d]
    BY <1>1, <1>2, <2>2 DEF Shifted, Places
  <2>6. queue'[i] = UnmapNotify(c) /\ Followed(c, i)'  OBVIOUS
  <2> QED  BY <2>3, <2>4, <2>5, <2>6 DEF Alone
<1>10. Meant(c)'
  <2> SUFFICES ASSUME c \in Managed', NEW i \in Places',
                      queue'[i] = UnmapNotify(c), ~Followed(c, i)'
               PROVE  c \notin mapped' /\ c \in withdrew'
    BY DEF Meant
  <2>1. queue'[i] \in About(c)  BY DEF About
  <2>2. i + d \in Places /\ queue[i + d] = UnmapNotify(c) /\ ~Followed(c, i + d)
    BY <1>3, <1>5, <2>1
  <2> QED  BY <1>4, <2>2 DEF Calm, Meant, Alone
<1> QED  BY <1>6, <1>7, <1>8, <1>9, <1>10 DEF Calm


LEMMA QuietSame ==
    ASSUME queue \in Seq(Events), NEW c, UNCHANGED queue
    PROVE  Quiet(c)
<1>1. Len(queue) \in Nat  OBVIOUS
<1> QED  BY <1>1 DEF Quiet, Shifted, Added

LEMMA QuietTail ==
    ASSUME queue \in Seq(Events), queue # << >>, NEW c, queue' = Rest
    PROVE  Quiet(c)
<1>1. Rest = Rest \o << >>  BY DEF Rest
<1> QED  BY <1>1, QuietRead, NothingElse

LEMMA StaysPositive ==
    ASSUME NEW n \in 0 .. IgnoreMax, n > 0
    PROVE  Bump(n) > 0
  BY WmAssumption DEF Bump

-----------------------------------------------------------------------------
(* The windows a handler is not about. *)

LEMMA CalmByManage ==
    ASSUME WmInv, WmInv', NEW c \in Windows, Calm(c), NEW w \in Windows, w # c,
           \/ Manage(w, queue)
           \/ queue # << >> /\ Manage(w, Rest),
           (c \in scan) = (c \in scan')
    PROVE  Calm(c)'
<1>1. PICK q \in {queue, Rest} :
         /\ Manage(w, q)
         /\ q = Rest => queue # << >> \/ q = queue
  OBVIOUS
<1>2. /\ queue \in Seq(Events) /\ queue' \in Seq(Events)
      /\ queue # << >> => Rest \in Seq(Events)
  BY DEF WmInv, Types, Rest
<1>3. Others(c, Unmapping(w) \o <<MapNotify(w)>>)
  BY OthersOfAnother, OthersJoined
<1>4. queue' = q \o (Unmapping(w) \o <<MapNotify(w)>>)
  <2>1. queue' = (q \o Unmapping(w)) \o <<MapNotify(w)>>  BY <1>1 DEF Manage
  <2>2. q \in Seq(Events)  BY <1>1, <1>2
  <2>3. Unmapping(w) \in Seq(Events) /\ <<MapNotify(w)>> \in Seq(Events)
    BY OthersOfAnother DEF Others
  <2> QED  BY <2>1, <2>2, <2>3, ConcatAssociative
<1>5. Quiet(c)
  <2>1. CASE q = queue  BY <1>2, <1>3, <1>4, <2>1, QuietPost
  <2>2. CASE q # queue
    <3>1. q = Rest /\ queue # << >>  BY <1>1, <2>2
    <3> QED  BY <1>2, <1>3, <1>4, <3>1, QuietRead
  <2> QED  BY <2>1, <2>2
<1>6. Alone(c) /\ ignoreUnmap'[c] = ignoreUnmap[c]
  <2>1. /\ frame' = [frame EXCEPT ![w] = FreshFrame]
        /\ ignoreUnmap' = [ignoreUnmap EXCEPT ![w] = FirstIgnore]
        /\ mapped' = mapped \cup {w} /\ watched' = watched \cup {w}
        /\ withdrew' = withdrew \ {w}
    BY <1>1 DEF Manage
  <2> QED  BY <2>1 DEF Alone, WmInv, Types
<1> QED  BY <1>2, <1>5, <1>6, QuietStep

LEMMA CalmByUnmanage ==
    ASSUME WmInv, WmInv', NEW c \in Windows, Calm(c), NEW w \in Windows, w # c,
           queue # << >>, Unmanage(w)
    PROVE  Calm(c)'
<1>1. queue \in Seq(Events) /\ queue' \in Seq(Events) /\ Rest \in Seq(Events)
  BY DEF WmInv, Types, Rest
<1>2. Quiet(c)
  <2>1. CASE w \in mapped
    <3>1. Others(c, Unmapping(w) \o <<MapNotify(w)>>)
      BY OthersOfAnother, OthersJoined
    <3>2. queue' = (Rest \o Unmapping(w)) \o <<MapNotify(w)>>
      BY <2>1 DEF Unmanage
    <3>3. Unmapping(w) \in Seq(Events) /\ <<MapNotify(w)>> \in Seq(Events)
      BY OthersOfAnother DEF Others
    <3>4. queue' = Rest \o (Unmapping(w) \o <<MapNotify(w)>>)
      BY <1>1, <3>2, <3>3, ConcatAssociative
    <3> QED  BY <1>1, <3>1, <3>4, QuietRead
  <2>2. CASE w \notin mapped
    BY <1>1, <2>2, QuietTail DEF Unmanage
  <2> QED  BY <2>1, <2>2
<1>3. Alone(c) /\ ignoreUnmap'[c] = ignoreUnmap[c]
  BY DEF Unmanage, server, Alone, WmInv, Types
<1> QED  BY <1>1, <1>2, <1>3, QuietStep

-----------------------------------------------------------------------------
(* The window a handler is about.                                            *)

LEMMA AddedPlaces ==
    ASSUME queue \in Seq(Events), queue' \in Seq(Events), NEW d, Shifted(d),
           NEW i \in Places'
    PROVE  \/ i \in Added(d)
           \/ i \in 1 .. Len(queue) - d /\ i + d \in Places /\ queue'[i] = queue[i + d]
  BY DEF Shifted, Added, Places

\* A window just framed, with one unmap unread at most.
LEMMA CalmWhenFramed ==
    ASSUME queue' \in Seq(Events), queue' # << >>, NEW c \in Windows,
           c \in Managed', c \notin scan', ignoreUnmap'[c] > 0, OneRequest(c)',
           queue'[Len(queue')] = MapNotify(c),
           \A i \in Places' : queue'[i] = UnmapNotify(c) =>
              \A j \in 1 .. i - 1 :
                 /\ queue'[j] # UnmapNotify(c)
                 /\ queue'[j].kind = "FramesUnmapped" => frame'[c] \notin queue'[j].frames
    PROVE  Calm(c)'
<1>1. Len(queue') \in Nat /\ Len(queue') > 0  OBVIOUS
<1>2. \A i \in Places' : Followed(c, i)'
  BY <1>1 DEF Followed, Places
<1> QED
  BY <1>2 DEF Calm, Unframed, Listed, Counted, Meant

\* Adopted by the scan: whether its client unmapped it or the reparent does so
\* now, one unmap is unread, and the map follows it.
LEMMA CalmByScan ==
    ASSUME WmInv, WmInv', Around, NEW c \in Windows, Calm(c), ScanAdopt(c)
    PROVE  Calm(c)'
<1>1. /\ queue \in Seq(Events) /\ queue' \in Seq(Events)
      /\ Len(queue) \in Nat /\ Len(queue') \in Nat
  BY DEF WmInv, Types
<1>2. /\ c \in scan /\ c \notin watched /\ c \notin Managed /\ scan' = scan \ {c}
      /\ Manage(c, queue)
  BY DEF ScanAdopt, Calm, Listed
<1>3. /\ queue' = (queue \o Unmapping(c)) \o <<MapNotify(c)>>
      /\ frame' = [frame EXCEPT ![c] = FreshFrame]
      /\ ignoreUnmap' = [ignoreUnmap EXCEPT ![c] = 1]
      /\ FreeFrames # {}
  BY <1>2 DEF Manage, FirstIgnore
<1>4. /\ frame'[c] = FreshFrame /\ FreshFrame \notin EventFrames
      /\ FreshFrame \in Frames
  BY <1>3 DEF FreshFrame, FreeFrames, WmInv, Types
<1>5. \A j \in Places :
         queue[j].kind = "FramesUnmapped" => frame'[c] \notin queue[j].frames
  BY <1>4 DEF EventFrames, Places
<1>6. c \in Managed' /\ ignoreUnmap'[c] > 0 /\ c \notin scan'
  BY <1>2, <1>3, <1>4, WmAssumption DEF Managed, Around
<1>7. OneRequest(c) /\ Unframed(c) /\ Listed(c)  BY DEF Calm
<1>8. CASE c \in mapped
  <2>1. \A i \in Places :
           queue[i] # UnmapNotify(c) /\ queue[i] # MapRequest(c)
           /\ queue[i] # MapNotify(c) /\ queue[i] # DestroyNotify(c)
    BY <1>2, <1>7, <1>8 DEF Unframed, OneRequest
  <2>2. Unmapping(c) = <<UnmapNotify(c)>>  BY <1>2, <1>8 DEF Unmapping
  <2>3. /\ Len(queue') = Len(queue) + 2
        /\ \A i \in Places : queue'[i] = queue[i]
        /\ queue'[Len(queue) + 1] = UnmapNotify(c)
        /\ queue'[Len(queue) + 2] = MapNotify(c)
    <3>1. UnmapNotify(c) \in Events /\ MapNotify(c) \in Events  BY WindowEvents
    <3>2. /\ queue \o <<UnmapNotify(c)>> \in Seq(Events)
          /\ queue' = Append(queue \o <<UnmapNotify(c)>>, MapNotify(c))
      BY <1>1, <1>3, <2>2, <3>1
    <3> QED  BY <1>1, <3>1, <3>2 DEF Places
  <2>4. \A i \in Places' : i \in Places \/ i = Len(queue) + 1 \/ i = Len(queue) + 2
    BY <1>1, <2>3 DEF Places
  <2>5. OneRequest(c)'
    <3>1. \A i \in Places' : queue'[i] # MapRequest(c) /\ queue'[i] # DestroyNotify(c)
      BY <2>1, <2>3, <2>4, Different
    <3> QED  BY <3>1 DEF OneRequest
  <2>6. ASSUME NEW i \in Places', queue'[i] = UnmapNotify(c), NEW j \in 1 .. i - 1
        PROVE  /\ queue'[j] # UnmapNotify(c)
               /\ queue'[j].kind = "FramesUnmapped" =>
                     frame'[c] \notin queue'[j].frames
    <3>1. i = Len(queue) + 1  BY <2>1, <2>3, <2>4, <2>6, Different
    <3>2. j \in Places  BY <1>1, <3>1 DEF Places
    <3> QED  BY <1>5, <2>1, <2>3, <3>2
  <2>7. queue' # << >> /\ queue'[Len(queue')] = MapNotify(c)
    BY <1>1, <2>3
  <2> QED  BY <1>1, <1>6, <2>5, <2>6, <2>7, CalmWhenFramed
<1>9. CASE c \notin mapped
  <2>1. queue' = Append(queue, MapNotify(c))
    <3>1. Unmapping(c) = << >>  BY <1>9 DEF Unmapping
    <3>2. MapNotify(c) \in Events  BY WindowEvents
    <3> QED  BY <1>1, <1>3, <3>1, <3>2
  <2>2. /\ Len(queue') = Len(queue) + 1
        /\ \A i \in Places : queue'[i] = queue[i]
        /\ queue'[Len(queue) + 1] = MapNotify(c)
    BY <1>1, <2>1, WindowEvents DEF Places
  <2>3. \A i \in Places' : i \in Places \/ i = Len(queue) + 1
    BY <1>1, <2>2 DEF Places
  <2>4. OneRequest(c)'
    BY <1>7, <2>2, <2>3, Different DEF OneRequest
  <2>5. ASSUME NEW i \in Places', queue'[i] = UnmapNotify(c), NEW j \in 1 .. i - 1
        PROVE  /\ queue'[j] # UnmapNotify(c)
               /\ queue'[j].kind = "FramesUnmapped" =>
                     frame'[c] \notin queue'[j].frames
    <3>1. i \in Places /\ queue[i] = UnmapNotify(c)
      BY <2>2, <2>3, <2>5, Different
    <3>2. j \in Places /\ j # i  BY <1>1, <3>1 DEF Places
    <3> QED  BY <1>2, <1>5, <1>7, <2>2, <3>1, <3>2 DEF Listed
  <2>6. queue' # << >> /\ queue'[Len(queue')] = MapNotify(c)
    BY <1>1, <2>2
  <2> QED  BY <1>1, <1>6, <2>4, <2>5, <2>6, CalmWhenFramed
<1> QED  BY <1>8, <1>9

\* A step after which no unmap of c is unread.
LEMMA CalmWithoutUnmaps ==
    ASSUME NEW c \in Windows, OneRequest(c)', c \in Managed', c \notin scan',
           \A i \in Places' : queue'[i] # UnmapNotify(c)
    PROVE  Calm(c)'
  BY DEF Calm, Unframed, Listed, Counted, Meant

\* When the map request of c is read, nothing of c is left to be read but maps.
LEMMA ReadsRequest ==
    ASSUME Types, NEW c \in Windows, Calm(c), Handling("MapRequest"), Event.win = c
    PROVE  \A i \in 1 .. Len(Rest) :
              /\ Rest[i] # UnmapNotify(c) /\ Rest[i] # MapRequest(c)
              /\ Rest[i] # DestroyNotify(c)
<1>1. Event \in Events /\ Event.kind = "MapRequest"  BY ReadEvent
<1>2. Event = MapRequest(c)
  BY <1>1 DEF Events, CommandKinds, MapRequest
<1>3. queue \in Seq(Events) /\ queue # << >>  BY DEF Types, Handling
<1>4. /\ Len(queue) \in Nat /\ Len(queue) > 0 /\ queue[1] = MapRequest(c)
      /\ Len(Rest) = Len(queue) - 1
      /\ \A i \in 1 .. Len(Rest) : Rest[i] = queue[i + 1]
  BY <1>2, <1>3 DEF Event, Rest
<1>5. \A i \in 1 .. Len(Rest) : i + 1 \in Places /\ i + 1 # 1 /\ 1 \in Places
                                /\ ~(i + 1 < 1)
  BY <1>4 DEF Places
<1> QED  BY <1>4, <1>5 DEF Calm, OneRequest

\* Framed when its request is read, or mapped again in the frame it has.
LEMMA CalmByRequest ==
    ASSUME WmInv, WmInv', NEW c \in Windows, c \in alive, Calm(c),
           Handling("MapRequest"), Event.win = c,
           \/ MapNew
           \/ MapManaged
    PROVE  Calm(c)'
<1>1. /\ queue \in Seq(Events) /\ queue' \in Seq(Events) /\ queue # << >>
      /\ Rest \in Seq(Events) /\ Len(Rest) \in Nat /\ MapNotify(c) \in Events
  BY WindowEvents DEF WmInv, Types, Handling, Rest
<1>2. \A i \in 1 .. Len(Rest) :
         /\ Rest[i] # UnmapNotify(c) /\ Rest[i] # MapRequest(c)
         /\ Rest[i] # DestroyNotify(c)
  BY ReadsRequest DEF WmInv
<1>3. (queue' = Rest \/ queue' = Append(Rest, MapNotify(c))) /\ c \in Managed'
  <2>1. CASE MapNew
    <3>1. /\ queue' = (Rest \o Unmapping(c)) \o <<MapNotify(c)>>
          /\ frame' = [frame EXCEPT ![c] = FreshFrame] /\ FreeFrames # {}
          /\ c \notin Managed
      BY <2>1 DEF MapNew, Manage
    <3>2. c \notin mapped
      <4>1. Event \in Events /\ Event.kind = "MapRequest"
        BY ReadEvent DEF WmInv
      <4>2. queue[1] = MapRequest(c) /\ 1 \in Places
        BY <1>1, <4>1 DEF Events, CommandKinds, MapRequest, Event, Places
      <4> QED  BY <3>1, <4>2 DEF Calm, Unframed
    <3>3. Unmapping(c) = << >>  BY <3>2 DEF Unmapping
    <3>4. queue' = Append(Rest, MapNotify(c))  BY <1>1, <3>1, <3>3
    <3>5. FreshFrame \in Frames  BY <3>1 DEF FreshFrame, FreeFrames
    <3> QED
      BY <3>1, <3>4, <3>5, WmAssumption DEF Managed, WmInv, Types
  <2>2. CASE MapManaged
    BY <2>2 DEF MapManaged, Managed, table
  <2> QED  BY <2>1, <2>2
<1>4. ASSUME NEW i \in Places'
      PROVE  /\ queue'[i] # UnmapNotify(c) /\ queue'[i] # MapRequest(c)
             /\ queue'[i] # DestroyNotify(c)
  <2>1. CASE i \in 1 .. Len(Rest)
    <3>1. queue'[i] = Rest[i]
      <4>1. CASE queue' = Rest  BY <4>1
      <4>2. CASE queue' = Append(Rest, MapNotify(c))  BY <1>1, <2>1, <4>2
      <4> QED  BY <1>3, <4>1, <4>2
    <3> QED  BY <1>2, <2>1, <3>1
  <2>2. CASE i \notin 1 .. Len(Rest)
    <3>1. queue'[i] = MapNotify(c)
      BY <1>1, <1>3, <2>2 DEF Places
    <3> QED  BY <3>1, Different
  <2> QED  BY <2>1, <2>2
<1>5. OneRequest(c)'  BY <1>4 DEF OneRequest
<1>6. c \notin scan'  BY DEF Handling, MapNew, MapManaged
<1> QED  BY <1>3, <1>4, <1>5, <1>6, CalmWithoutUnmaps

\* What follows an event that stays unread when the first is read.
LEMMA StillFollowed ==
    ASSUME queue \in Seq(Events), queue # << >>, queue' = Rest, NEW c,
           NEW i \in Places', queue'[i] = UnmapNotify(c), Followed(c, i)'
    PROVE  /\ i + 1 \in Places /\ 1 \in 1 .. (i + 1) - 1
           /\ queue[i + 1] = UnmapNotify(c) /\ Followed(c, i + 1)
<1>1. /\ Len(queue) \in Nat /\ Len(queue') = Len(queue) - 1
      /\ \A k \in 1 .. Len(queue') : queue'[k] = queue[k + 1]
  BY DEF Rest
<1>2. i + 1 \in Places /\ queue[i + 1] = UnmapNotify(c)
  BY <1>1 DEF Places
<1>3. PICK k \in i .. Len(queue') : queue'[k] = MapNotify(c)
  BY DEF Followed
<1>4. k + 1 \in i + 1 .. Len(queue) /\ queue[k + 1] = MapNotify(c)
  BY <1>1, <1>3 DEF Places
<1>5. Followed(c, i + 1)  BY <1>4 DEF Followed
<1> QED  BY <1>1, <1>2, <1>5 DEF Places

\* An unmap that ignore_unmap counts: the next, if a map follows it, cannot be.
LEMMA CalmByIgnored ==
    ASSUME WmInv, WmInv', NEW c \in Windows, Calm(c), UnmapIgnored, Event.win = c
    PROVE  Calm(c)'
<1>1. /\ queue \in Seq(Events) /\ queue' \in Seq(Events) /\ queue # << >>
      /\ queue' = Rest /\ Len(queue) \in Nat
  BY DEF WmInv, Types, UnmapIgnored, Handling
<1>2. Event \in Events /\ Event.kind = "UnmapNotify"
  BY ReadEvent DEF WmInv, UnmapIgnored
<1>3. queue[1] = UnmapNotify(c) /\ 1 \in Places
  BY <1>1, <1>2 DEF Events, CommandKinds, UnmapNotify, Event, Places
<1>4. Quiet(c) /\ Alone(c) /\ c \in Managed
  BY <1>1, QuietTail DEF UnmapIgnored, server, Alone, Managed
<1>5. ASSUME NEW i \in Places', queue'[i] = UnmapNotify(c), Followed(c, i)'
      PROVE  FALSE
  <2>1. /\ i + 1 \in Places /\ 1 \in 1 .. (i + 1) - 1
        /\ queue[i + 1] = UnmapNotify(c) /\ Followed(c, i + 1)
    BY <1>1, <1>5, StillFollowed
  <2> QED  BY <1>3, <1>4, <2>1 DEF Calm, Counted
<1> QED  BY <1>1, <1>4, <1>5, QuietStep

\* An unmap that is not counted is the client's, and no map is unread.
LEMMA CalmByWithdrawal ==
    ASSUME WmInv, WmInv', NEW c \in Windows, Calm(c), UnmapWithdraws, Event.win = c
    PROVE  Calm(c)' /\ c \in withdrew
<1>1. /\ queue \in Seq(Events) /\ queue' \in Seq(Events) /\ queue # << >>
      /\ Len(queue) \in Nat /\ Rest \in Seq(Events) /\ scan = {} /\ c \in Managed
      /\ ignoreUnmap[c] = 0 /\ Unmanage(c)
  BY DEF WmInv, Types, UnmapWithdraws, Handling, Rest
<1>2. Event \in Events /\ Event.kind = "UnmapNotify"
  BY ReadEvent DEF WmInv, UnmapWithdraws
<1>3. queue[1] = UnmapNotify(c) /\ 1 \in Places
  BY <1>1, <1>2 DEF Events, CommandKinds, UnmapNotify, Event, Places
<1>4. ~Followed(c, 1)
  BY <1>1, <1>3 DEF Calm, Counted
<1>5. c \notin mapped /\ c \in withdrew
  BY <1>1, <1>3, <1>4 DEF Calm, Meant
<1>6. /\ queue' = Rest /\ c \notin mapped' /\ scan' = {}
      /\ frame' = [frame EXCEPT ![c] = NoFrame]
  BY <1>1, <1>5 DEF Unmanage, server
<1>7. c \notin Managed'
  BY <1>6 DEF Managed, WmInv, Types
<1>8. OneRequest(c)'
  BY <1>1, <1>6, QuietTail, QuietRequest DEF Calm
<1>9. \A i \in Places' : queue'[i] # MapNotify(c)
  <2>1. \A i \in Places' : i + 1 \in 1 .. Len(queue) /\ queue'[i] = queue[i + 1]
    BY <1>1, <1>6 DEF Places, Rest
  <2> QED  BY <1>4, <2>1 DEF Followed
<1> QED
  BY <1>5, <1>6, <1>7, <1>8, <1>9
  DEF Calm, Unframed, Listed, Counted, Meant

\* The counter is shared with the frame; an unmap of the frame is read after
\* the one that a map follows.
LEMMA CalmByFrames ==
    ASSUME WmInv, WmInv', NEW c \in Windows, Calm(c), FramesUnmap
    PROVE  Calm(c)'
<1>1. /\ queue \in Seq(Events) /\ queue' \in Seq(Events) /\ queue # << >>
      /\ queue' = Rest /\ Len(queue) \in Nat
  BY DEF WmInv, Types, FramesUnmap, Handling
<1>2. Quiet(c) /\ Alone(c)
  BY <1>1, QuietTail DEF FramesUnmap, server, Alone
<1>3. CASE frame[c] \notin Event.frames
  <2>1. ignoreUnmap'[c] = ignoreUnmap[c]
    BY <1>3 DEF FramesUnmap
  <2> QED  BY <1>1, <1>2, <2>1, QuietStep
<1>4. CASE frame[c] \in Event.frames
  <2>1. Event \in Events /\ Event.kind = "FramesUnmapped" /\ Event = queue[1]
    BY <1>1, ReadEvent DEF WmInv, FramesUnmap, Event
  <2>2. c \in Managed
    <3>1. Event.frames \subseteq Frames  BY <2>1 DEF Events, CommandKinds
    <3> QED  BY <1>4, <3>1, WmAssumption DEF Managed
  <2>3. ASSUME NEW i \in Places', queue'[i] = UnmapNotify(c), Followed(c, i)'
        PROVE  FALSE
    <3>1. /\ i + 1 \in Places /\ 1 \in 1 .. (i + 1) - 1
          /\ queue[i + 1] = UnmapNotify(c) /\ Followed(c, i + 1)
      BY <1>1, <2>3, StillFollowed
    <3> QED  BY <1>4, <2>1, <2>2, <3>1 DEF Calm, Counted
  <2> QED  BY <1>1, <1>2, <2>3, QuietStep
<1> QED  BY <1>3, <1>4

-----------------------------------------------------------------------------
(* Every step keeps a waiting client's window calm.                          *)

\* What pagers ask for reads one event and hides frames at most; the counter
\* only grows.
LEMMA CalmByRequests ==
    ASSUME WmInv, WmInv', Around, NEW c \in Windows, Calm(c), Requests, c \in alive'
    PROVE  Calm(c)'
<1>1. queue \in Seq(Events) /\ queue' \in Seq(Events)
  BY DEF WmInv, Types
<1>2. ASSUME queue # << >>,
             queue' = Rest \/ \E cs \in SUBSET Windows : queue' = Rest \o UnmapFrames(cs)
      PROVE  Quiet(c)
  <2>1. ASSUME NEW cs \in SUBSET Windows, queue' = Rest \o UnmapFrames(cs)
        PROVE  Quiet(c)
    <3>1. Others(c, UnmapFrames(cs))  BY OthersOfFrames DEF WmInv
    <3> QED  BY <1>1, <1>2, <2>1, <3>1, QuietRead
  <2> QED  BY <1>1, <1>2, <2>1, QuietTail
<1>3. Managed \subseteq Windows  BY DEF Managed
<1>4. ignoreUnmap[c] \in 0 .. IgnoreMax /\ ignoreUnmap \in [Windows -> 0 .. IgnoreMax]
  BY DEF Around
<1>5. CASE Iconify \/ Deiconify
  <2>1. Quiet(c)
    <3>1. queue # << >> /\ Event.win \in Windows
      BY <1>5, <1>3 DEF Iconify, Deiconify, AboutManaged, Handling
    <3>2. queue' = Rest \/ queue' = Rest \o UnmapFrames({Event.win})
      BY <1>5 DEF Iconify, Deiconify
    <3> QED  BY <1>2, <3>1, <3>2
  <2>2. Alone(c)  BY <1>5 DEF Iconify, Deiconify, server, Alone
  <2>3. ignoreUnmap' = [ignoreUnmap EXCEPT ![Event.win] = Bump(ignoreUnmap[Event.win])]
    BY <1>5 DEF Iconify, Deiconify
  <2>4. ignoreUnmap[c] > 0 => ignoreUnmap'[c] > 0
    BY <1>4, <2>3, StaysPositive
  <2> QED  BY <1>1, <2>1, <2>2, <2>4, QuietStep
<1>6. CASE Activate \/ CloseAsks
  <2>1. queue # << >> /\ queue' = Rest /\ Alone(c) /\ ignoreUnmap' = ignoreUnmap
    BY <1>6 DEF Activate, CloseAsks, AboutManaged, Handling, server, table, Alone
  <2> QED  BY <1>1, <1>2, <2>1, QuietStep
<1>7. CASE ProtocolsGone
  <2>1. UNCHANGED queue /\ Alone(c) /\ ignoreUnmap' = ignoreUnmap
    BY <1>7 DEF ProtocolsGone, Die, server, table, Alone
  <2> QED  BY <1>1, <2>1, QuietSame, QuietStep
<1>8. CASE CloseKills
  <2> DEFINE w == Event.win
  <2>1. /\ queue # << >> /\ queue' = Rest \o Destroying(w)
        /\ w \in Windows /\ w # c
        /\ mapped' = mapped \ {w} /\ UNCHANGED <<withdrew, watched, scan, table>>
    BY <1>3, <1>8 DEF CloseKills, AboutManaged, Handling
  <2> HIDE DEF w
  <2>2. Others(c, Destroying(w))  BY <2>1, OthersOfAnother
  <2>3. Quiet(c)  BY <1>1, <2>1, <2>2, QuietRead
  <2>4. Alone(c) /\ ignoreUnmap' = ignoreUnmap  BY <2>1 DEF Alone, table
  <2> QED  BY <1>1, <2>3, <2>4, QuietStep
<1>9. CASE MoveToWorkspace
  <2>1. Quiet(c)
    <3>1. queue # << >> /\ Event.win \in Windows
      BY <1>9, <1>3 DEF MoveToWorkspace, AboutManaged, Handling
    <3>2. queue' = Rest \/ queue' = Rest \o UnmapFrames({Event.win})
      BY <1>9 DEF MoveToWorkspace
    <3> QED  BY <1>2, <3>1, <3>2
  <2>2. Alone(c)  BY <1>9 DEF MoveToWorkspace, server, Alone
  <2>3. \/ ignoreUnmap' = ignoreUnmap
        \/ ignoreUnmap' = [ignoreUnmap EXCEPT ![Event.win] = Bump(ignoreUnmap[Event.win])]
    BY <1>9 DEF MoveToWorkspace
  <2>4. ignoreUnmap[c] > 0 => ignoreUnmap'[c] > 0
    BY <1>4, <2>3, StaysPositive
  <2> QED  BY <1>1, <2>1, <2>2, <2>4, QuietStep
<1>10. CASE SwitchWorkspace \/ SetWorkspaceCount
  <2>1. Quiet(c)
    <3>1. queue # << >>
      BY <1>10 DEF SwitchWorkspace, SetWorkspaceCount, Handling
    <3>2. \E cs \in SUBSET Windows : queue' = Rest \o UnmapFrames(cs)
      <4>1. CASE SwitchWorkspace
        <5>1. {w \in Windows : VisibleOn(w, current)} \in SUBSET Windows  OBVIOUS
        <5>2. queue' = Rest \o UnmapFrames({w \in Windows : VisibleOn(w, current)})
          BY <4>1 DEF SwitchWorkspace
        <5> QED  BY <5>1, <5>2
      <4>2. CASE SetWorkspaceCount
        <5>1. PICK seen \in SUBSET Managed :
                 queue' = Rest \o UnmapFrames(Managed \ seen)
          BY <4>2 DEF SetWorkspaceCount
        <5>2. Managed \ seen \in SUBSET Windows  BY <1>3
        <5> QED  BY <5>1, <5>2
      <4> QED  BY <1>10, <4>1, <4>2
    <3> QED  BY <1>2, <3>1, <3>2
  <2>2. Alone(c)
    BY <1>10 DEF SwitchWorkspace, SetWorkspaceCount, server, Alone
  <2>3. PICK hidden : ignoreUnmap' = [w \in Windows |->
               IF w \in hidden THEN Bump(ignoreUnmap[w]) ELSE ignoreUnmap[w]]
    BY <1>10 DEF SwitchWorkspace, SetWorkspaceCount
  <2>4. ignoreUnmap[c] > 0 => ignoreUnmap'[c] > 0
    BY <1>4, <2>3, StaysPositive
  <2> QED  BY <1>1, <2>1, <2>2, <2>4, QuietStep
<1> QED
  BY <1>5, <1>6, <1>7, <1>8, <1>9, <1>10 DEF Requests

LEMMA CalmByLifecycle ==
    ASSUME WmInv, WmInv', Around, NEW c \in Windows, c \in alive, Calm(c), Lifecycle
    PROVE  Calm(c)'
<1>1. queue \in Seq(Events) /\ queue' \in Seq(Events)
  BY DEF WmInv, Types
<1>2. ASSUME NEW w \in Windows, ScanAdopt(w) PROVE Calm(c)'
  <2>1. CASE w = c  BY <1>2, <2>1, CalmByScan
  <2>2. CASE w # c
    <3>1. Manage(w, queue) /\ scan' = scan \ {w}  BY <1>2 DEF ScanAdopt
    <3> QED  BY <2>2, <3>1, CalmByManage
  <2> QED  BY <2>1, <2>2
<1>3. CASE ScanDies \/ MapGone
  <2>1. UNCHANGED queue /\ Alone(c) /\ ignoreUnmap' = ignoreUnmap
    BY <1>3 DEF ScanDies, MapGone, Die, server, table, Alone
  <2> QED  BY <1>1, <2>1, QuietSame, QuietStep
<1> DEFINE w == Event.win
<1>4. CASE MapManaged
  <2>1. CASE w = c
    BY <1>4, <2>1, CalmByRequest DEF MapManaged
  <2>2. CASE w # c
    <3>1. /\ queue # << >> /\ w \in Windows /\ mapped' = mapped \cup ({w} \cap alive)
          /\ UNCHANGED <<withdrew, watched, scan, table>>
          /\ queue' = Rest \/ queue' = Append(Rest, MapNotify(w))
      BY <1>4 DEF MapManaged, Handling, Managed
    <3>2. Quiet(c)
      <4>1. CASE queue' = Rest  BY <1>1, <3>1, <4>1, QuietTail
      <4>2. CASE queue' = Append(Rest, MapNotify(w))
        <5>1. Rest \in Seq(Events) /\ MapNotify(w) \in Events
          BY <1>1, <3>1, WindowEvents DEF Rest
        <5> HIDE DEF w
        <5>2. queue' = Rest \o <<MapNotify(w)>>  BY <4>2, <5>1
        <5>3. Others(c, <<MapNotify(w)>>)  BY <2>2, <3>1, OthersOfAnother
        <5> QED  BY <1>1, <3>1, <5>2, <5>3, QuietRead
      <4> QED  BY <3>1, <4>1, <4>2
    <3>3. Alone(c) /\ ignoreUnmap' = ignoreUnmap
      BY <2>2, <3>1 DEF Alone, table
    <3> QED  BY <1>1, <3>2, <3>3, QuietStep
  <2> QED  BY <2>1, <2>2
<1>5. CASE MapNew \/ AdoptMapped
  <2>1. /\ Manage(w, Rest) /\ w \in alive \ Managed /\ scan' = scan
        /\ queue # << >>
    BY <1>5 DEF MapNew, AdoptMapped, Handling
  <2>2. CASE w # c
    <3>1. w \in Windows  BY <2>1 DEF WmInv, Types
    <3> QED  BY <2>1, <2>2, <3>1, CalmByManage
  <2>3. CASE w = c /\ MapNew
    BY <2>3, CalmByRequest DEF MapNew
  <2>4. CASE w = c /\ AdoptMapped
    <3>1. Event \in Events /\ Event.kind = "MapNotify"
      BY <2>4, ReadEvent DEF WmInv, AdoptMapped
    <3>2. queue[1] = MapNotify(c) /\ 1 \in Places
      BY <1>1, <2>1, <2>4, <3>1
      DEF Events, CommandKinds, MapNotify, Event, Places
    <3> QED  BY <2>1, <2>4, <3>2 DEF Calm, Unframed
  <2> QED  BY <1>5, <2>2, <2>3, <2>4
<1>6. CASE UnmapIgnored
  <2>1. CASE w = c  BY <1>6, <2>1, CalmByIgnored
  <2>2. CASE w # c
    <3>1. /\ queue # << >> /\ queue' = Rest /\ Alone(c)
          /\ ignoreUnmap'[c] = ignoreUnmap[c]
      BY <1>6, <2>2 DEF UnmapIgnored, Handling, server, Alone, Around
    <3> QED  BY <1>1, <3>1, QuietTail, QuietStep
  <2> QED  BY <2>1, <2>2
<1>7. CASE UnmapWithdraws \/ Destroyed
  <2>1. Unmanage(w) /\ w \in Windows /\ queue # << >>
    BY <1>7 DEF UnmapWithdraws, Destroyed, Handling, Managed
  <2>2. CASE w # c  BY <2>1, <2>2, CalmByUnmanage
  <2>3. CASE w = c /\ UnmapWithdraws  BY <2>3, CalmByWithdrawal
  <2>4. CASE w = c /\ Destroyed
    <3>1. Event \in Events /\ Event.kind = "DestroyNotify"
      BY <2>4, ReadEvent DEF WmInv, Destroyed
    <3>2. queue[1] = DestroyNotify(c) /\ 1 \in Places
      BY <1>1, <2>1, <2>4, <3>1
      DEF Events, CommandKinds, DestroyNotify, Event, Places
    <3> QED  BY <3>2 DEF Calm, OneRequest
  <2> QED  BY <1>7, <2>2, <2>3, <2>4
<1>8. CASE FramesUnmap  BY <1>8, CalmByFrames
<1> QED
  BY <1>2, <1>3, <1>4, <1>5, <1>6, <1>7, <1>8 DEF Lifecycle, WmInv, Types

\* A client that waits for its request to be read unmaps after it.
LEMMA CalmByClient ==
    ASSUME WmInv, WmInv', NEW c \in Windows, c \in Patient, Calm(c),
           ClientMap(c) \/ ClientUnmap(c)
    PROVE  Calm(c)'
<1>1. /\ queue \in Seq(Events) /\ queue' \in Seq(Events) /\ Len(queue) \in Nat
      /\ MapRequest(c) \in Events /\ UnmapNotify(c) \in Events
  BY WindowEvents DEF WmInv, Types
<1>2. /\ \A i \in Places : queue[i] # MapRequest(c)
      /\ UNCHANGED <<watched, scan, frame, ignoreUnmap>>
  BY DEF ClientMap, ClientUnmap, MayAsk, Places, wmVars, table
<1> DEFINE s == IF c \in mapped THEN Unmapping(c) ELSE <<MapRequest(c)>>
<1>3. /\ s \in Seq({MapRequest(c), UnmapNotify(c)})
      /\ queue' = queue \o s
      /\ ClientMap(c) => s = <<MapRequest(c)>>
      /\ ClientUnmap(c) => /\ \A i \in 1 .. Len(s) : s[i] = UnmapNotify(c)
                           /\ c \notin watched => Len(s) = 1
  <2>1. CASE ClientMap(c)
    <3>1. c \notin mapped /\ ~ClientUnmap(c)
      BY <2>1 DEF ClientMap, ClientUnmap
    <3>2. s = <<MapRequest(c)>>  BY <3>1
    <3>3. queue' = queue \o s  BY <1>1, <2>1, <3>2 DEF ClientMap
    <3> QED  BY <3>1, <3>2, <3>3
  <2>2. CASE ClientUnmap(c)
    <3>1. c \in mapped /\ ~ClientMap(c)
      BY <2>2 DEF ClientMap, ClientUnmap
    <3>2. s = Unmapping(c) /\ queue' = queue \o s
      BY <2>2, <3>1 DEF ClientUnmap
    <3>3. s = <<UnmapNotify(c)>> \/ (c \in watched /\ s = <<UnmapNotify(c), UnmapNotify(c)>>)
      BY <3>1, <3>2 DEF Unmapping
    <3> HIDE DEF s
    <3>4. CASE s = <<UnmapNotify(c)>>
      <4>1. Len(s) = 1 /\ \A i \in 1 .. 1 : s[i] = UnmapNotify(c)  BY <3>4
      <4>2. s \in Seq({MapRequest(c), UnmapNotify(c)})  BY <3>4
      <4> QED  BY <3>1, <3>2, <4>1, <4>2
    <3>5. CASE c \in watched /\ s = <<UnmapNotify(c), UnmapNotify(c)>>
      <4>1. Len(s) = 2 /\ \A i \in 1 .. 2 : s[i] = UnmapNotify(c)  BY <3>5
      <4>2. s \in Seq({MapRequest(c), UnmapNotify(c)})  BY <3>5
      <4> QED  BY <3>1, <3>2, <3>5, <4>1, <4>2
    <3> QED  BY <3>3, <3>4, <3>5
  <2> QED  BY <2>1, <2>2
<1> HIDE DEF s
<1>4. s \in Seq(Events)  BY <1>1, <1>3
<1>5. /\ Len(queue') = Len(queue) + Len(s) /\ Len(s) \in Nat
      /\ \A i \in Places : queue'[i] = queue[i]
      /\ \A i \in Places' : i \notin Places =>
            /\ i - Len(queue) \in 1 .. Len(s) /\ i > Len(queue)
            /\ queue'[i] = s[i - Len(queue)]
  BY <1>1, <1>3, <1>4 DEF Places
<1>6. \A i \in Places' : i \notin Places => queue'[i] # MapNotify(c)
  <2>1. \A i \in 1 .. Len(s) : s[i] # MapNotify(c)  BY <1>3, Different
  <2> QED  BY <1>5, <2>1
<1>7. \A i \in Places : Followed(c, i)' = Followed(c, i)
  <2>1. ASSUME NEW i \in Places, NEW k \in i .. Len(queue'), queue'[k] = MapNotify(c)
        PROVE  k \in i .. Len(queue) /\ queue[k] = MapNotify(c)
    BY <1>1, <1>5, <1>6, <2>1 DEF Places
  <2>2. ASSUME NEW i \in Places, NEW k \in i .. Len(queue), queue[k] = MapNotify(c)
        PROVE  k \in i .. Len(queue') /\ queue'[k] = MapNotify(c)
    BY <1>1, <1>5, <2>2 DEF Places
  <2> QED  BY <2>1, <2>2 DEF Followed
<1>8. Managed' = Managed  BY <1>2 DEF Managed
<1>9. CASE ClientMap(c)
  <2>1. /\ s = <<MapRequest(c)>> /\ c \notin mapped
        /\ UNCHANGED <<mapped, withdrew>>
    BY <1>3, <1>9 DEF ClientMap
  <2>2. /\ Len(queue') = Len(queue) + 1 /\ queue'[Len(queue) + 1] = MapRequest(c)
        /\ \A i \in Places' : i \in Places \/ i = Len(queue) + 1
    BY <1>1, <1>5, <2>1 DEF Places
  <2>3. \A i \in Places' : queue'[i] \in {UnmapNotify(c), MapNotify(c), DestroyNotify(c)}
           => i \in Places /\ queue[i] = queue'[i]
    BY <1>5, <2>2, Different
  <2>4. OneRequest(c)'
    <3>1. \A i \in Places' : queue'[i] = MapRequest(c) => i = Len(queue) + 1
      BY <1>2, <1>5, <2>2
    <3>2. \A i \in Places' : queue'[i] = UnmapNotify(c) => i < Len(queue) + 1
      BY <1>1, <2>3 DEF Places
    <3>3. \A i \in Places' : queue'[i] # DestroyNotify(c)
      BY <2>3 DEF Calm, OneRequest
    <3> QED  BY <3>1, <3>2, <3>3 DEF OneRequest
  <2>5. Unframed(c)'
    BY <1>8, <2>1, <2>3 DEF Calm, Unframed
  <2>6. Listed(c)'
    BY <1>2, <1>8, <2>3 DEF Calm, Listed
  <2>7. Counted(c)'
    <3> SUFFICES ASSUME c \in Managed', NEW i \in Places',
                        queue'[i] = UnmapNotify(c), Followed(c, i)'
                 PROVE  /\ ignoreUnmap'[c] > 0
                        /\ \A j \in 1 .. i - 1 :
                              /\ queue'[j] # UnmapNotify(c)
                              /\ queue'[j].kind = "FramesUnmapped" =>
                                    frame'[c] \notin queue'[j].frames
      BY DEF Counted
    <3>1. i \in Places /\ queue[i] = UnmapNotify(c) /\ Followed(c, i)
      BY <1>7, <2>3
    <3>2. \A j \in 1 .. i - 1 : queue'[j] = queue[j]
      <4>1. \A j \in 1 .. i - 1 : j \in Places  BY <1>1, <3>1 DEF Places
      <4> QED  BY <1>5, <4>1
    <3> QED  BY <1>2, <1>8, <3>1, <3>2 DEF Calm, Counted
  <2>8. Meant(c)'
    BY <1>7, <1>8, <2>1, <2>3 DEF Calm, Meant
  <2> QED  BY <2>4, <2>5, <2>6, <2>7, <2>8 DEF Calm
<1>10. CASE ClientUnmap(c)
  <2>1. /\ c \in mapped /\ c \notin mapped' /\ c \in withdrew'
        /\ \A i \in 1 .. Len(s) : s[i] = UnmapNotify(c)
        /\ c \notin watched => Len(s) = 1
    BY <1>3, <1>10 DEF ClientUnmap
  <2>2. \A i \in Places' : i \notin Places => queue'[i] = UnmapNotify(c)
    BY <1>5, <2>1
  <2>3. OneRequest(c)'
    BY <1>2, <1>5, <2>2, Different DEF Calm, OneRequest
  <2>4. Unframed(c)'
    BY <1>5, <1>8, <2>1, <2>2, Different DEF Calm, Unframed
  <2>5. Listed(c)'
    <3> SUFFICES ASSUME c \in scan'
                 PROVE  /\ c \notin watched' /\ c \notin Managed'
                        /\ \A i, j \in Places' :
                              queue'[i] = UnmapNotify(c) /\ queue'[j] = UnmapNotify(c)
                                 => i = j
      BY DEF Listed
    <3>1. c \in scan /\ c \notin watched /\ c \notin Managed
      BY <1>2 DEF Calm, Listed
    <3>2. \A i \in Places : queue[i] # UnmapNotify(c)
      BY <2>1, <3>1 DEF Calm, Unframed
    <3>3. \A i \in Places' : queue'[i] = UnmapNotify(c) => i = Len(queue) + 1
      <4>1. ASSUME NEW i \in Places', i \notin Places PROVE i = Len(queue) + 1
        <5>1. i - Len(queue) \in 1 .. Len(s)  BY <1>5, <4>1
        <5>2. Len(s) = 1  BY <2>1, <3>1
        <5>3. Len(queue') \in Nat /\ i \in Int  BY <1>1 DEF Places
        <5> QED  BY <1>1, <5>1, <5>2, <5>3
      <4> QED  BY <1>5, <3>2, <4>1
    <3> QED  BY <1>2, <1>8, <3>1, <3>3
  <2>6. \A i \in Places' : Followed(c, i)' => i \in Places
    <3>1. ASSUME NEW i \in Places', i \notin Places, NEW k \in i .. Len(queue')
          PROVE  queue'[k] # MapNotify(c)
      <4>1. k \in Places' /\ k \notin Places  BY <1>1, <1>5, <3>1 DEF Places
      <4> QED  BY <1>6, <4>1
    <3> QED  BY <3>1 DEF Followed
  <2>7. Counted(c)'
    <3> SUFFICES ASSUME c \in Managed', NEW i \in Places',
                        queue'[i] = UnmapNotify(c), Followed(c, i)'
                 PROVE  /\ ignoreUnmap'[c] > 0
                        /\ \A j \in 1 .. i - 1 :
                              /\ queue'[j] # UnmapNotify(c)
                              /\ queue'[j].kind = "FramesUnmapped" =>
                                    frame'[c] \notin queue'[j].frames
      BY DEF Counted
    <3>1. i \in Places /\ queue[i] = UnmapNotify(c) /\ Followed(c, i)
      BY <1>5, <1>7, <2>6
    <3>2. \A j \in 1 .. i - 1 : queue'[j] = queue[j]
      <4>1. \A j \in 1 .. i - 1 : j \in Places  BY <1>1, <3>1 DEF Places
      <4> QED  BY <1>5, <4>1
    <3> QED  BY <1>2, <1>8, <3>1, <3>2 DEF Calm, Counted
  <2>8. Meant(c)'  BY <2>1 DEF Meant
  <2> QED  BY <2>3, <2>4, <2>5, <2>7, <2>8 DEF Calm
<1> QED  BY <1>9, <1>10

LEMMA CalmByOthers ==
    ASSUME WmInv, WmInv', NEW c \in Windows, c \in Patient, c \in alive', Calm(c),
           Clients \/ Pagers
    PROVE  Calm(c)'
<1>1. queue \in Seq(Events) /\ queue' \in Seq(Events)
  BY DEF WmInv, Types
<1>2. ASSUME NEW s, Others(c, s), queue' = queue \o s, NEW w, w # c,
             mapped' = mapped \/ mapped' = mapped \ {w},
             withdrew \subseteq withdrew', UNCHANGED <<watched, wmVars>>
      PROVE  Calm(c)'
  <2>1. Quiet(c)  BY <1>1, <1>2, QuietPost
  <2>2. Alone(c) /\ ignoreUnmap' = ignoreUnmap
    BY <1>2 DEF Alone, wmVars, table
  <2> QED  BY <1>1, <2>1, <2>2, QuietStep
<1>3. ASSUME NEW w \in Windows, ClientMap(w) PROVE Calm(c)'
  <2>1. CASE w = c  BY <1>3, <2>1, CalmByClient
  <2>2. CASE w # c
    <3>1. Others(c, <<MapRequest(w)>>)  BY <2>2, OthersOfAnother
    <3>2. queue' = queue \o <<MapRequest(w)>>
      BY <1>1, <1>3, WindowEvents DEF ClientMap
    <3> QED  BY <1>2, <1>3, <2>2, <3>1, <3>2 DEF ClientMap
  <2> QED  BY <2>1, <2>2
<1>4. ASSUME NEW w \in Windows, ClientUnmap(w) PROVE Calm(c)'
  <2>1. CASE w = c  BY <1>4, <2>1, CalmByClient
  <2>2. CASE w # c
    <3>1. Others(c, Unmapping(w))  BY <2>2, OthersOfAnother
    <3> QED  BY <1>2, <1>4, <2>2, <3>1 DEF ClientUnmap
  <2> QED  BY <2>1, <2>2
<1>5. ASSUME NEW w \in Windows, ClientDestroy(w) PROVE Calm(c)'
  <2>1. w # c  BY <1>5 DEF ClientDestroy
  <2>2. Others(c, Destroying(w))  BY <2>1, OthersOfAnother
  <2> QED  BY <1>2, <1>5, <2>1, <2>2 DEF ClientDestroy
<1>6. CASE Pagers
  <2>1. PICK k \in CommandKinds, w \in Windows \cup {NoWindow}, n \in 0 .. MaxWorkspaces :
          Send(Message(k, w, n))
    <3>1. CASE SendToWindow
      <4>1. Managed \subseteq Windows /\ 0 \in 0 .. MaxWorkspaces
            /\ Workspaces \subseteq 0 .. MaxWorkspaces
        BY WmAssumption DEF Managed
      <4> QED  BY <3>1, <4>1 DEF SendToWindow, CommandKinds
    <3>2. CASE SendToRoot  BY <3>2 DEF SendToRoot, CommandKinds
    <3> QED  BY <1>6, <3>1, <3>2 DEF Pagers
  <2> DEFINE m == Message(k, w, n)
  <2>2. m \in Events  BY DEF Message, Events
  <2>3. m \notin About(c)
    BY DEF About, Message, CommandKinds, MapRequest, UnmapNotify, MapNotify, DestroyNotify
  <2>4. queue' = Append(queue, m) /\ UNCHANGED <<server, wmVars>>
    BY <2>1 DEF Send
  <2> HIDE DEF m
  <2>5. Others(c, <<m>>) /\ queue' = queue \o <<m>>
    BY <1>1, <2>2, <2>3, <2>4, OneEvent
  <2>6. Quiet(c)  BY <1>1, <2>5, QuietPost
  <2>7. Alone(c) /\ ignoreUnmap' = ignoreUnmap
    BY <2>4 DEF Alone, server, wmVars, table
  <2> QED  BY <1>1, <2>6, <2>7, QuietStep
<1> QED  BY <1>3, <1>4, <1>5, <1>6 DEF Clients

WaitingIsCalm == \A c \in Patient \cap alive : Calm(c)

LEMMA InitCalm == Init => WaitingIsCalm
<1> SUFFICES ASSUME Init, NEW c \in Patient \cap alive PROVE Calm(c)
  BY DEF WaitingIsCalm
<1>1. Places = {} /\ Managed = {}  BY DEF Init, Places, Managed
<1>2. scan = mapped /\ watched = {}  BY DEF Init
<1> QED
  BY <1>1, <1>2 DEF Calm, OneRequest, Unframed, Listed, Counted, Meant

LEMMA CalmStep ==
    WmInv /\ WmInv' /\ Around /\ WaitingIsCalm /\ [Next]_vars => WaitingIsCalm'
<1> SUFFICES ASSUME WmInv, WmInv', Around, WaitingIsCalm, [Next]_vars,
                    NEW c \in Patient, c \in alive'
             PROVE  Calm(c)'
  BY DEF WaitingIsCalm
<1>1. queue \in Seq(Events) /\ queue' \in Seq(Events)  BY DEF WmInv, Types
<1>2. alive' \subseteq alive
  <2>1. CASE Clients
    BY <2>1 DEF Clients, ClientMap, ClientUnmap, ClientDestroy
  <2>2. CASE Pagers
    BY <2>2 DEF Pagers, SendToWindow, SendToRoot, Send, server
  <2>3. CASE Lifecycle
    BY <2>3 DEF Lifecycle, ScanAdopt, ScanDies, MapGone, Die, MapManaged, MapNew,
                AdoptMapped, Manage, UnmapIgnored, UnmapWithdraws, Destroyed,
                Unmanage, FramesUnmap, server
  <2>4. CASE Requests
    BY <2>4 DEF Requests, Iconify, Deiconify, Activate, ProtocolsGone, Die,
                CloseAsks, CloseKills, MoveToWorkspace, SwitchWorkspace,
                SetWorkspaceCount, server
  <2>5. CASE Ignore \/ UNCHANGED vars
    BY <2>5 DEF Ignore, Drop, vars, server
  <2> QED  BY <2>1, <2>2, <2>3, <2>4, <2>5 DEF Next, WmStep
<1>3. c \in Windows /\ c \in alive /\ Calm(c)
  BY <1>2, WmAssumption DEF WaitingIsCalm
<1>4. CASE Clients \/ Pagers  BY <1>3, <1>4, CalmByOthers
<1>5. CASE Lifecycle  BY <1>3, <1>5, CalmByLifecycle
<1>6. CASE Requests  BY <1>3, <1>6, CalmByRequests
<1>7. CASE Ignore
  <2>1. queue # << >> /\ queue' = Rest /\ Alone(c) /\ ignoreUnmap' = ignoreUnmap
    BY <1>7 DEF Ignore, Moot, Drop, Handling, server, table, Alone
  <2> QED  BY <1>1, <1>3, <2>1, QuietTail, QuietStep
<1>8. CASE UNCHANGED vars
  <2>1. UNCHANGED queue /\ Alone(c) /\ ignoreUnmap' = ignoreUnmap
    BY <1>8 DEF vars, server, table, Alone
  <2> QED  BY <1>1, <1>3, <2>1, QuietSame, QuietStep
<1> QED  BY <1>4, <1>5, <1>6, <1>7, <1>8 DEF Next, WmStep

\* The WM forgets a window only where it reads an unmap or a destruction.
LEMMA ForgetsWhere ==
    ASSUME WmInv, Around, WaitingIsCalm, [Next]_vars, WmInv',
           NEW c \in Patient, c \in alive, c \in Managed, frame'[c] = NoFrame
    PROVE  c \in withdrew
<1>1. c \in Windows /\ Calm(c) /\ frame[c] # NoFrame
  BY WmAssumption DEF WaitingIsCalm, Managed
<1>2. CASE UnmapWithdraws
  <2>1. frame' = [frame EXCEPT ![Event.win] = NoFrame]
    BY <1>2 DEF UnmapWithdraws, Unmanage
  <2>2. Event.win = c  BY <1>1, <2>1 DEF WmInv, Types
  <2> QED  BY <1>1, <1>2, <2>2, CalmByWithdrawal
<1>3. CASE Destroyed
  <2>1. frame' = [frame EXCEPT ![Event.win] = NoFrame]
    BY <1>3 DEF Destroyed, Unmanage
  <2>2. Event.win = c  BY <1>1, <2>1 DEF WmInv, Types
  <2>3. Event \in Events /\ Event.kind = "DestroyNotify"
    BY <1>3, ReadEvent DEF WmInv, Destroyed
  <2>4. queue \in Seq(Events) /\ queue # << >>
    BY <1>3 DEF WmInv, Types, Destroyed, Handling
  <2>5. queue[1] = DestroyNotify(c) /\ 1 \in Places
    BY <2>2, <2>3, <2>4 DEF Events, CommandKinds, DestroyNotify, Event, Places
  <2> QED  BY <1>1, <2>5 DEF Calm, OneRequest
<1>4. CASE MapNew \/ AdoptMapped \/ \E w \in Windows : ScanAdopt(w)
  <2>1. PICK w : frame' = [frame EXCEPT ![w] = FreshFrame] /\ FreeFrames # {}
    BY <1>4 DEF MapNew, AdoptMapped, ScanAdopt, Manage
  <2>2. FreshFrame \in Frames  BY <2>1 DEF FreshFrame, FreeFrames
  <2> QED  BY <1>1, <2>1, <2>2, WmAssumption DEF WmInv, Types
<1>5. CASE UNCHANGED frame  BY <1>1, <1>5
<1>6. CASE Clients \/ Pagers
  BY <1>5, <1>6 DEF Clients, ClientMap, ClientUnmap, ClientDestroy, Pagers,
                    SendToWindow, SendToRoot, Send, wmVars, table
<1>7. CASE ScanDies \/ MapGone \/ MapManaged \/ UnmapIgnored \/ FramesUnmap \/ Ignore
  BY <1>5, <1>7 DEF ScanDies, MapGone, Die, MapManaged, UnmapIgnored, FramesUnmap,
                    Ignore, Drop, table
<1>8. CASE Requests
  BY <1>5, <1>8 DEF Requests, Iconify, Deiconify, Activate, ProtocolsGone, Die,
                    CloseAsks, CloseKills, MoveToWorkspace, SwitchWorkspace,
                    SetWorkspaceCount, table
<1>9. CASE UNCHANGED vars  BY <1>5, <1>9 DEF vars, table
<1> QED
  BY <1>2, <1>3, <1>4, <1>6, <1>7, <1>8, <1>9 DEF Next, WmStep, Lifecycle, WmInv, Types

\* WaitingIsCalm, the inductive invariant about unmaps on their way, holds in
\* every reachable state.
THEOREM UnmapsAreTold == Spec => []WaitingIsCalm
  BY AroundAlways, InitCalm, CalmStep, TableInvariance, PTL DEF Spec

\* Whatever the other clients do, the WM forgets the window of a client that
\* waits for its map requests to be read only after that client has unmapped or
\* destroyed it.
THEOREM PatientStays ==
    Spec => [][\A c \in Patient :
                 c \in Managed /\ frame'[c] = NoFrame
                    => c \in withdrew \/ c \notin alive]_vars
<1>1. WmInv /\ WmInv' /\ Around /\ WaitingIsCalm /\ [Next]_vars
         => [\A c \in Patient :
               c \in Managed /\ frame'[c] = NoFrame
                  => c \in withdrew \/ c \notin alive]_vars
  BY ForgetsWhere
<1> QED
  BY <1>1, AroundAlways, TableInvariance, UnmapsAreTold, PTL DEF Spec

\* So it is for every window when every client waits.
THEOREM NobodyIsThrownOut == Patient = Windows => (Spec => NeverThrownOut)
<1> SUFFICES ASSUME Patient = Windows PROVE Spec => NeverThrownOut  OBVIOUS
<1>1. [\A c \in Patient :
         c \in Managed /\ frame'[c] = NoFrame
            => c \in withdrew \/ c \notin alive]_vars
      => [\A c \in Windows :
            c \in Managed /\ frame'[c] = NoFrame
               => c \in withdrew \/ c \notin alive]_vars
  OBVIOUS
<1> QED  BY <1>1, PatientStays, PTL DEF NeverThrownOut
=============================================================================
