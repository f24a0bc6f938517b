------------------------- MODULE QuickControlsProofs -------------------------
(***************************************************************************)
(* For every set of popups, every room in the pipe and every restart       *)
(* budget: the screen never shows a popup, nor the pointer a grab, that    *)
(* the helper does not know of, and once all lines have been carried out   *)
(* the popup shown is the one asked for last, unless a full pipe refused a *)
(* line since.                                                             *)
(*                                                                         *)
(* The last line written travels: it ends the first of pipe, inbox and     *)
(* queue that is not empty, and when all three are empty it has been       *)
(* carried out.  Carried is that statement; Stages says which of the       *)
(* three can be filled in which stage of the helper.  Heard is why the     *)
(* last line written stands for the last request: all others met a full    *)
(* pipe, or no process, whose successor shows nothing.                     *)
(***************************************************************************)
EXTENDS QuickControls, TLAPS

LastLine(q) == q[Len(q)]

\* A waiting helper has drained its queue, a turning one has taken its inbox,
\* only a turning one is about to stop, and a dead one shows nothing.
Stages ==
    /\ shell = "starting" => helper = "none"
    /\ helper = "waiting" => queue = << >> /\ ~stopping
    /\ helper = "turning" => inbox = << >>
    /\ helper = "starting" => inbox = << >> /\ queue = << >> /\ ~stopping
    /\ helper \notin {"waiting", "turning"} => open = NoKind
    /\ opening # NoKind => helper = "turning"
    /\ shell # "gone" /\ helper # "none" => held

Carried ==
    /\ pipe # << >> => LastLine(pipe) = written
    /\ pipe = << >> /\ inbox # << >> => LastLine(inbox) = written
    /\ pipe = << >> /\ inbox = << >> /\ queue # << >> => LastLine(queue) = written
    /\ pipe = << >> /\ inbox = << >> /\ queue = << >> =>
          /\ open = NoKind \/ written = Open(open) \/ stopping
          /\ opening = NoKind \/ written = Open(opening) \/ stopping

Heard == Alive /\ ~overrun => written \in {asked, Close}

QuickInv == TypeOK /\ OnePopup /\ Stages /\ Carried /\ Heard

-----------------------------------------------------------------------------
(* What the three sequences keep. *)

LEMMA AppendLast ==
    ASSUME NEW S, NEW s \in Seq(S), NEW e \in S
    PROVE  /\ Append(s, e) \in Seq(S)
           /\ Append(s, e) # << >>
           /\ Len(Append(s, e)) = Len(s) + 1
           /\ LastLine(Append(s, e)) = e
  BY DEF LastLine

LEMMA TailLast ==
    ASSUME NEW S, NEW s \in Seq(S), s # << >>
    PROVE  /\ Tail(s) \in Seq(S)
           /\ Tail(s) # << >> => LastLine(Tail(s)) = LastLine(s)
           /\ Tail(s) = << >> => Head(s) = LastLine(s)
           /\ Head(s) \in S
  <1>1. /\ Len(s) \in Nat \ {0}
        /\ Tail(s) \in Seq(S)
        /\ Len(Tail(s)) = Len(s) - 1
        /\ \A i \in 1 .. Len(s) - 1 : Tail(s)[i] = s[i + 1]
        /\ Head(s) = s[1] /\ Head(s) \in S
    OBVIOUS
  <1>2. Tail(s) # << >> => Len(s) - 1 \in 1 .. Len(s) - 1
    BY <1>1
  <1>3. Tail(s) = << >> => Len(s) = 1
    <2>1. ASSUME Tail(s) = << >> PROVE Len(s) - 1 = Len(<< >>)
      BY <1>1, <2>1
    <2>2. Len(<< >>) = 0
      OBVIOUS
    <2>. QED BY <1>1, <2>1, <2>2
  <1>4. CASE Tail(s) = << >>
    BY <1>1, <1>3, <1>4 DEF LastLine
  <1>5. CASE Tail(s) # << >>
    <2>1. Tail(s)[Len(s) - 1] = s[Len(s) - 1 + 1] /\ Len(s) - 1 + 1 = Len(s)
      BY <1>1, <1>2, <1>5
    <2>. QED BY <1>1, <1>5, <2>1 DEF LastLine
  <1>. QED BY <1>4, <1>5

LEMMA CommandTypes ==
    /\ \A k \in Kinds : Open(k) \in Commands
    /\ Close \in Commands
    /\ Shutdown \in Commands
    /\ \A c \in Commands : IsOpen(c) => c.kind \in Kinds /\ c = Open(c.kind)
    /\ \A k \in Kinds : Open(k) # Close /\ Open(k) # Shutdown
    /\ Close # Shutdown
  BY DEF Commands, Open, Close, Shutdown, IsOpen

-----------------------------------------------------------------------------
LEMMA EmptyLines == << >> \in Seq(Commands) /\ Len(<< >>) = 0
  OBVIOUS

LEMMA QuickInit == Init => QuickInv
  <1>. SUFFICES ASSUME Init PROVE QuickInv
    OBVIOUS
  <1>1. TypeOK
    <2>1. /\ 0 \in 0 .. MaxRestarts
          /\ 0 <= PipeCap
      BY QuickAssumption
    <2>. QED BY <2>1, EmptyLines, CommandTypes DEF Init, TypeOK
  <1>2. OnePopup /\ Stages /\ Carried /\ Heard
    BY DEF Init, OnePopup, Stages, Carried, Heard, Alive
  <1>. QED BY <1>1, <1>2 DEF QuickInv

LEMMA WriteKeeps ==
    ASSUME QuickInv, NEW c \in Commands, Write(c), shell # "gone"
    PROVE  /\ pipe' \in Seq(Commands) /\ Len(pipe') <= PipeCap
           /\ asked' \in Commands /\ written' \in Commands /\ overrun' \in BOOLEAN
           /\ pipe' # << >> => LastLine(pipe') = written'
           /\ pipe' = << >> => pipe = << >> /\ written' = written
           /\ Alive /\ ~overrun' => written' = asked'
  <1>1. CASE Writable
    <2>1. pipe' = Append(pipe, c) /\ written' = c /\ asked' = c /\ overrun' = FALSE
      BY <1>1 DEF Write
    <2>2. pipe \in Seq(Commands) /\ Len(pipe) < PipeCap
      BY <1>1 DEF Writable, QuickInv, TypeOK
    <2>3. /\ pipe' \in Seq(Commands) /\ pipe' # << >> /\ LastLine(pipe') = c
          /\ Len(pipe') = Len(pipe) + 1
      BY <2>1, <2>2, AppendLast
    <2>4. Len(pipe) \in Nat
      BY <2>2
    <2>5. Len(pipe') <= PipeCap
      BY <2>2, <2>3, <2>4, QuickAssumption
    <2>. QED BY <2>1, <2>3, <2>5
  <1>2. CASE ~Writable
    <2>1. asked' = c /\ overrun' = (overrun \/ Reachable) /\ UNCHANGED <<pipe, written>>
      BY <1>2 DEF Write
    <2>2. Alive => Reachable
      BY DEF QuickInv, Stages, Alive, Reachable
    <2>. QED BY <2>1, <2>2 DEF QuickInv, TypeOK, Carried, Reachable
  <1>. QED BY <1>1, <1>2

LEMMA QuickStep == QuickInv /\ [Next]_vars => QuickInv'
  <1>. SUFFICES ASSUME QuickInv, [Next]_vars PROVE QuickInv'
    OBVIOUS
  <1>. USE QuickAssumption DEF screenVars, askVars
  <1>1. ASSUME Spawned, restarts' \in 0 .. MaxRestarts, UNCHANGED <<pending, screenVars, asked>>,
               shell' \in {"running", "quitting", "gone"},
               open = NoKind, opening = NoKind
        PROVE  QuickInv'
    <2>1. TypeOK'
      <3>1. pipe' = << >> /\ inbox' = << >> /\ queue' = << >> /\ 0 <= PipeCap
        BY <1>1 DEF Spawned
      <3>2. pipe' \in Seq(Commands) /\ Len(pipe') <= PipeCap
            /\ inbox' \in Seq(Commands) /\ queue' \in Seq(Commands)
        BY <3>1, EmptyLines
      <3>. QED BY <1>1, <3>2, CommandTypes DEF QuickInv, TypeOK, Spawned
    <2>2. OnePopup' /\ Stages' /\ Carried' /\ Heard'
      BY <1>1 DEF QuickInv, OnePopup, Stages, Carried, Heard, Spawned
    <2>. QED BY <2>1, <2>2 DEF QuickInv
  <1>2. CASE StartAfterPanel
    <2>1. CASE Spawned
      BY <1>1, <1>2, <2>1 DEF StartAfterPanel, QuickInv, TypeOK, Stages
    <2>2. CASE NotSpawned /\ UNCHANGED <<held, helper>>
      BY <1>2, <2>2
      DEF StartAfterPanel, NotSpawned, QuickInv, TypeOK, OnePopup, Stages, Carried, Heard, Alive
    <2>. QED BY <1>2, <2>1, <2>2 DEF StartAfterPanel
  <1>3. ASSUME NEW k \in Kinds, ShellOpens(k) PROVE QuickInv'
    <2>1. Write(Open(k)) /\ Open(k) \in Commands /\ shell # "gone"
      BY <1>3, CommandTypes DEF ShellOpens
    <2>2. TypeOK'
      BY <1>3, <2>1, WriteKeeps DEF ShellOpens, QuickInv, TypeOK
    <2>3. OnePopup' /\ Stages'
      BY <1>3 DEF ShellOpens, QuickInv, OnePopup, Stages
    <2>4. Carried'
      BY <1>3, <2>1, WriteKeeps DEF ShellOpens, QuickInv, Carried
    <2>5. Heard'
      BY <1>3, <2>1, WriteKeeps DEF ShellOpens, Heard, Alive
    <2>. QED BY <2>2, <2>3, <2>4, <2>5 DEF QuickInv
  <1>4. CASE ShellCloses
    <2>1. Write(Close) /\ Close \in Commands /\ shell # "gone"
      BY <1>4, CommandTypes DEF ShellCloses
    <2>2. TypeOK'
      BY <1>4, <2>1, WriteKeeps DEF ShellCloses, QuickInv, TypeOK
    <2>3. OnePopup' /\ Stages'
      BY <1>4 DEF ShellCloses, QuickInv, OnePopup, Stages
    <2>4. Carried'
      BY <1>4, <2>1, WriteKeeps DEF ShellCloses, QuickInv, Carried
    <2>5. Heard'
      BY <1>4, <2>1, WriteKeeps DEF ShellCloses, Heard, Alive
    <2>. QED BY <2>2, <2>3, <2>4, <2>5 DEF QuickInv
  <1>5. CASE Poll
    <2>1. open = NoKind /\ opening = NoKind /\ restarts \in 0 .. MaxRestarts /\ MaxRestarts \in Nat
      BY <1>5 DEF Poll, QuickInv, Stages, TypeOK
    <2>2. CASE NoChild /\ restarts' \in 0 .. MaxRestarts
               /\ NotSpawned
      BY <1>5, <2>1, <2>2
      DEF Poll, NoChild, NotSpawned, QuickInv, TypeOK, OnePopup, Stages, Carried, Heard, Alive
    <2>3. CASE restarts < MaxRestarts /\ restarts' = restarts + 1 /\ Spawned
      <3>1. restarts' \in 0 .. MaxRestarts
        BY <2>1, <2>3
      <3>. QED BY <1>1, <1>5, <2>1, <2>3, <3>1 DEF Poll, QuickInv, TypeOK
    <2>. QED BY <1>5, <2>1, <2>2, <2>3 DEF Poll
  <1>6. CASE ShellQuits
    <2>1. Write(Shutdown) /\ Shutdown \in Commands /\ shell # "gone"
      BY <1>6, CommandTypes DEF ShellQuits
    <2>2. TypeOK'
      BY <1>6, <2>1, WriteKeeps DEF ShellQuits, QuickInv, TypeOK
    <2>3. OnePopup' /\ Stages'
      BY <1>6 DEF ShellQuits, QuickInv, OnePopup, Stages
    <2>4. Carried'
      BY <1>6, <2>1, WriteKeeps DEF ShellQuits, QuickInv, Carried
    <2>5. Heard'
      BY <1>6, <2>1, WriteKeeps DEF ShellQuits, Heard, Alive
    <2>. QED BY <2>2, <2>3, <2>4, <2>5 DEF QuickInv
  <1>7. CASE ShellKills
    BY <1>7
    DEF ShellKills, NoChild, ScreenCleared, QuickInv, TypeOK, OnePopup, Stages, Carried, Heard, Alive
  <1>8. CASE ShellDies
    <2>1. TypeOK'
      BY <1>8 DEF ShellDies, QuickInv, TypeOK
    <2>2. OnePopup' /\ Stages' /\ Carried' /\ Heard'
      BY <1>8 DEF ShellDies, QuickInv, OnePopup, Stages, Carried, Heard, Alive
    <2>. QED BY <2>1, <2>2 DEF QuickInv
  <1>9. CASE HelperStarts
    BY <1>9 DEF HelperStarts, QuickInv, TypeOK, OnePopup, Stages, Carried, Heard, Alive
  <1>10. CASE HelperReads
    <2>1. inbox = << >> /\ queue = << >> /\ pipe' = << >> /\ inbox' = pipe
      BY <1>10 DEF HelperReads, QuickInv, Stages
    <2>2. TypeOK'
      BY <1>10 DEF HelperReads, QuickInv, TypeOK
    <2>3. OnePopup' /\ Stages'
      BY <1>10 DEF HelperReads, QuickInv, OnePopup, Stages
    <2>4. Carried'
      BY <1>10, <2>1 DEF HelperReads, QuickInv, Carried
    <2>5. Heard'
      BY <1>10 DEF HelperReads, QuickInv, Heard, Alive
    <2>. QED BY <2>2, <2>3, <2>4, <2>5 DEF QuickInv
  <1>11. CASE UserCloses
    BY <1>11
    DEF UserCloses, Closed, QuickInv, TypeOK, OnePopup, Stages, Carried, Heard, Alive
  <1>12. CASE TurnBegins
    <2>1. queue = << >> /\ queue' = inbox /\ inbox' = << >> /\ inbox \in Seq(Commands)
      BY <1>12 DEF TurnBegins, QuickInv, Stages, TypeOK
    <2>2. TypeOK'
      BY <1>12, <2>1 DEF TurnBegins, QuickInv, TypeOK
    <2>3. OnePopup' /\ Stages'
      BY <1>12 DEF TurnBegins, QuickInv, OnePopup, Stages
    <2>4. Carried'
      BY <1>12, <2>1 DEF TurnBegins, QuickInv, Carried
    <2>5. Heard'
      BY <1>12 DEF TurnBegins, QuickInv, Heard, Alive
    <2>. QED BY <2>2, <2>3, <2>4, <2>5 DEF QuickInv
  <1>13. CASE Coalesce
    <2>1. queue \in Seq(Commands) /\ Len(queue) > 1 /\ queue' = Tail(queue)
      BY <1>13 DEF Coalesce, Coalesced, Superseded, QuickInv, TypeOK
    <2>a. queue # << >> /\ Tail(queue) # << >>
      <3>1. Len(Tail(queue)) = Len(queue) - 1 /\ Len(queue) - 1 # 0 /\ Len(queue) # 0
        BY <2>1
      <3>. QED BY <3>1, EmptyLines
    <2>2. TypeOK'
      BY <1>13, <2>1, <2>a, TailLast DEF Coalesce, QuickInv, TypeOK
    <2>3. OnePopup' /\ Stages'
      BY <1>13 DEF Coalesce, QuickInv, OnePopup, Stages
    <2>4. Carried'
      BY <1>13, <2>1, <2>a, TailLast DEF Coalesce, QuickInv, Carried
    <2>5. Heard'
      BY <1>13 DEF Coalesce, QuickInv, Heard, Alive
    <2>. QED BY <2>2, <2>3, <2>4, <2>5 DEF QuickInv
  <1>14. CASE RunCommand
    <2>1. queue \in Seq(Commands) /\ queue # << >> /\ queue' = Tail(queue)
          /\ inbox = << >> /\ Head(queue) \in Commands /\ helper' = "turning"
      BY <1>14, TailLast DEF RunCommand, QuickInv, TypeOK, Stages
    <2>2. CASE Head(queue) = Shutdown
      <3>1. stopping' = TRUE /\ UNCHANGED <<open, opening, mapped, grab>>
        BY <1>14, <2>2 DEF RunCommand
      <3>2. TypeOK'
        BY <1>14, <2>1, <3>1, TailLast DEF RunCommand, QuickInv, TypeOK
      <3>3. OnePopup' /\ Stages' /\ Heard'
        BY <1>14, <2>1, <3>1 DEF RunCommand, QuickInv, OnePopup, Stages, Heard, Alive
      <3>4. Carried'
        BY <1>14, <2>1, <3>1, TailLast DEF RunCommand, QuickInv, Carried
      <3>. QED BY <3>2, <3>3, <3>4 DEF QuickInv
    <2>3. CASE Head(queue) # Shutdown
      <3>1. /\ Closed /\ opening' = Head(queue).kind /\ stopping' = stopping
            /\ opening = NoKind
        BY <1>14, <2>3 DEF RunCommand
      <3>2. /\ Head(queue).kind \in Kinds \cup {NoKind}
            /\ Head(queue).kind # NoKind => Head(queue) = Open(Head(queue).kind)
        BY <2>1, <2>3 DEF Commands, Open, Close
      <3>3. open' = NoKind /\ mapped' = {} /\ grab' = NoKind
        BY <3>1 DEF Closed, QuickInv, OnePopup
      <3>4. TypeOK'
        BY <1>14, <2>1, <3>1, <3>2, <3>3, TailLast DEF RunCommand, QuickInv, TypeOK
      <3>5. OnePopup' /\ Stages' /\ Heard'
        BY <1>14, <2>1, <3>1, <3>3 DEF RunCommand, QuickInv, OnePopup, Stages, Heard, Alive
      <3>6. Carried'
        BY <1>14, <2>1, <3>1, <3>2, <3>3, TailLast DEF RunCommand, QuickInv, Carried
      <3>. QED BY <3>4, <3>5, <3>6 DEF QuickInv
    <2>. QED BY <2>2, <2>3
  <1>15. CASE PopupShown
    <2>1. opening \in Kinds /\ open = NoKind /\ mapped = {}
      BY <1>15 DEF PopupShown, QuickInv, OnePopup, TypeOK
    <2>2. TypeOK'
      BY <1>15, <2>1 DEF PopupShown, QuickInv, TypeOK
    <2>3. OnePopup' /\ Stages' /\ Carried' /\ Heard'
      BY <1>15, <2>1 DEF PopupShown, QuickInv, OnePopup, Stages, Carried, Heard, Alive
    <2>. QED BY <2>2, <2>3 DEF QuickInv
  <1>16. CASE PopupGrabbed
    <2>1. opening \in Kinds /\ opening # NoKind /\ open = NoKind /\ mapped = {opening}
      BY <1>16 DEF PopupGrabbed, QuickInv, OnePopup, TypeOK
    <2>2. TypeOK'
      BY <1>16, <2>1 DEF PopupGrabbed, QuickInv, TypeOK
    <2>3. OnePopup' /\ Stages' /\ Carried' /\ Heard'
      BY <1>16, <2>1 DEF PopupGrabbed, QuickInv, OnePopup, Stages, Carried, Heard, Alive
    <2>. QED BY <2>2, <2>3 DEF QuickInv
  <1>17. CASE TurnEnds
    BY <1>17
    DEF TurnEnds, ScreenCleared, screenVars, QuickInv, TypeOK, OnePopup, Stages, Carried, Heard, Alive
  <1>18. CASE HelperDies
    BY <1>18
    DEF HelperDies, Alive, ScreenCleared, QuickInv, TypeOK, OnePopup, Stages, Carried, Heard
  <1>19. CASE UNCHANGED vars
    BY <1>19 DEF vars, QuickInv, TypeOK, OnePopup, Stages, Carried, Heard, Alive
  <1>. QED
    BY <1>2, <1>3, <1>4, <1>5, <1>6, <1>7, <1>8, <1>9, <1>10, <1>11, <1>12,
       <1>13, <1>14, <1>15, <1>16, <1>17, <1>18, <1>19 DEF Next

-----------------------------------------------------------------------------
\* QuickInv holds in every state of the specification.
THEOREM QuickInvariance == Spec => []QuickInv
  BY QuickInit, QuickStep, PTL DEF Spec

\* The supervisor's budget and the pipe's room are never exceeded.
THEOREM QuickTypeCorrect == Spec => []TypeOK
  <1>1. QuickInv => TypeOK BY DEF QuickInv
  <1>. QED BY <1>1, QuickInvariance, PTL

\* One popup, one grab, both known to the helper.
THEOREM QuickOnePopup == Spec => []OnePopup
  <1>1. QuickInv => OnePopup BY DEF QuickInv
  <1>. QED BY <1>1, QuickInvariance, PTL

\* No older popup is left by coalescing, by a refusal, by a crash or by a line
\* that met no process: only by one that met a full pipe.
THEOREM QuickLastAsked == Spec => []LastAskedIsShown
  <1>1. QuickInv => LastAskedIsShown
    <2>. SUFFICES ASSUME QuickInv, Settled, ~overrun, open # NoKind PROVE asked = Open(open)
      BY DEF LastAskedIsShown
    <2>1. helper = "waiting" /\ ~stopping /\ open \in Kinds
      BY DEF QuickInv, TypeOK, Stages, Settled
    <2>2. written = Open(open)
      BY <2>1 DEF QuickInv, Carried, Settled
    <2>. QED BY <2>1, <2>2, CommandTypes DEF QuickInv, Heard, Alive
  <1>. QED BY <1>1, QuickInvariance, PTL
=============================================================================
