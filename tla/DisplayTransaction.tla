------------------------- MODULE DisplayTransaction -------------------------
(***************************************************************************)
(* A display mode change: begun by a client, in effect at once, and then   *)
(* kept or reverted.  The platform (services/display.rs, display.rs) and   *)
(* the X engine (wm-x11/src/lib.rs) each remember the pending change; the  *)
(* X server may reconfigure itself between any two of the engine's         *)
(* requests, and may refuse one.                                           *)
(*                                                                         *)
(* A mode is set on a CRTC.  Several outputs may show the picture of one   *)
(* CRTC (a mirror): apply_mode changes it for all of them, revert_mode     *)
(* gives it back to the output of the change alone, and the others are     *)
(* dark from then on.  Nobody but the WM sets a CRTC meanwhile.            *)
(*                                                                         *)
(* The WM handles one request at a time.  A begin is three steps, the      *)
(* snapshot it checks, the mode it sets and the snapshot it publishes,     *)
(* with the X server's own steps between them; the other handlers are one  *)
(* step each, as nothing they read is used after a later X request.        *)
(***************************************************************************)
EXTENDS Naturals, FiniteSets

CONSTANTS
    Outputs,        \* connectors of the X server
    Crtcs,          \* CRTCs of the X server
    Modes,          \* modes every output lists
    Clients,        \* processes that use the control bus: Settings, the shell
    NoClient,
    NoOutput,
    NoCrtc,
    Dark,           \* what an output without a CRTC shows
    TimerRuns,      \* the WM calls tick_display_transactions; FALSE in the code
    MaxTime,        \* bound of the model: RandR configuration timestamp
    MaxChanges,     \* bound of the model: mode changes
    MaxScalings,    \* bound of the model: shell scale changes
    MaxFaults       \* bound of the model: refused or failed X requests

ASSUME DisplayAssumption ==
    /\ Outputs # {} /\ Modes # {}
    /\ NoClient \notin Clients /\ NoOutput \notin Outputs
    /\ NoCrtc \notin Crtcs /\ Dark \notin Modes
    /\ TimerRuns \in BOOLEAN
    /\ MaxTime \in Nat \ {0}
    /\ MaxChanges \in Nat
    /\ MaxScalings \in Nat
    /\ MaxFaults \in Nat

Topologies == SUBSET Outputs
NoCall == [client |-> NoClient, at |-> "idle"]
\* A snapshot as the WM caches and answers it: product generation, connected
\* outputs, and the output and transaction of the pending change.
NoSnapshot == [generation |-> 0, connected |-> {}, pending |-> 0, output |-> NoOutput]
NoPending == [transaction |-> 0]

VARIABLES
    connected,   \* X server: outputs that are connected
    crtc,        \* X server: the CRTC of each output, or none
    mode,        \* X server: mode of each CRTC
    time,        \* X server: configuration timestamp
    engine,      \* X11Desktop.pending_mode
    issued,      \* X11Desktop.next_transaction
    coordinator, \* DisplayCoordinator.pending
    cached,      \* DisplayService.cached
    seenTime,    \* DisplayService.engine_generation
    call,        \* the begin the WM is handling
    answer,      \* the last snapshot each client was given
    held,        \* the change each client would keep or revert: its number, and
                 \* the output and mode it was told of
    confirmed,   \* history: what each output shows for good
    scalings,    \* bound of the model: shell scale changes so far
    faults       \* bound of the model: X requests that failed so far

screen == <<crtc, mode>>
serverVars == <<connected, screen, time>>
engineVars == <<engine, issued>>
serviceVars == <<coordinator, cached, seenTime>>
clientVars == <<answer, held>>
vars == <<connected, screen, time, engine, issued, coordinator, cached, seenTime,
          call, answer, held, confirmed, scalings, faults>>

\* The picture each output shows.
Picture == [o \in Outputs |-> IF crtc[o] = NoCrtc THEN Dark ELSE mode[crtc[o]]]

\* The outputs on a CRTC.
On(k) == {o \in Outputs : crtc[o] = k}

\* Any output may be dark and any may be a mirror; a CRTC is off without one.
Init ==
    /\ connected \in Topologies \ {{}}
    /\ crtc \in [Outputs -> Crtcs \cup {NoCrtc}]
    /\ mode \in [Crtcs -> Modes \cup {Dark}]
    /\ \A k \in Crtcs : (mode[k] = Dark) = (On(k) = {})
    /\ time = 1
    /\ engine = NoPending
    /\ issued = 0
    /\ coordinator = NoPending
    /\ cached = NoSnapshot
    /\ seenTime = 0
    /\ call = NoCall
    /\ answer = [c \in Clients |-> NoSnapshot]
    /\ held = [c \in Clients |-> NoPending]
    /\ confirmed = Picture
    /\ scalings = 0
    /\ faults = 0

Idle == call = NoCall
Pending == coordinator # NoPending

\* One X request of a handler fails or is refused.
Fault ==
    /\ faults < MaxFaults
    /\ faults' = faults + 1

-----------------------------------------------------------------------------
(* The X server. *)

\* Outputs come or go; the timestamp moves by one tick or by more.
Hotplug ==
    /\ \E d \in 1 .. 2 : time + d <= MaxTime /\ time' = time + d
    /\ connected' \in Topologies \ {{}, connected}
    /\ UNCHANGED <<screen, engineVars, serviceVars, call, clientVars, confirmed,
                   scalings, faults>>

\* SetCrtcConfig: the CRTC shows m on these outputs, and leaves its others.
SetCrtc(k, m, outputs) ==
    /\ mode' = [mode EXCEPT ![k] = m]
    /\ crtc' = [o \in Outputs |-> IF o \in outputs THEN k
                                  ELSE IF crtc[o] = k THEN NoCrtc
                                  ELSE crtc[o]]

-----------------------------------------------------------------------------
(* DisplayService. *)

\* The snapshot the X server would answer now, named by a product generation.
Snapshot(generation, pending) ==
    [generation |-> generation,
     connected |-> connected,
     pending |-> pending.transaction,
     output |-> IF pending = NoPending THEN NoOutput ELSE pending.output]

\* The generation keep and revert start from.
Generation == IF cached = NoSnapshot THEN 1 ELSE cached.generation

\* refresh names the first snapshot by the timestamp, and a later one anew only
\* when the timestamp has moved.
NextGeneration ==
    IF cached = NoSnapshot THEN time
    ELSE IF seenTime # time THEN cached.generation + 1 ELSE cached.generation

Publish(generation, pending) ==
    /\ cached' = Snapshot(generation, pending)
    /\ seenTime' = time

StrandedByTime == Pending /\ time > coordinator.topology + 1

\* refresh gives a pending change up when the topology moved on by more than
\* one tick, or its output is gone.
Stranded ==
    /\ Pending
    /\ \/ time > coordinator.topology + 1
       \/ coordinator.output \notin connected

change == <<screen, engine, coordinator, confirmed>>

ForgetPending ==
    /\ engine' = NoPending
    /\ coordinator' = NoPending
    /\ UNCHANGED <<screen, confirmed>>

\* The outputs that show the picture of the change beside the one it is for.
Mirrors == On(engine.crtc) \ {engine.output}

\* Both sides forget the change and the old mode is set again, for the output
\* of the change: its mirrors lose their picture.
RevertPending ==
    /\ SetCrtc(engine.crtc, engine.old, {engine.output})
    /\ engine' = NoPending
    /\ coordinator' = NoPending
    /\ confirmed' = [o \in Outputs |-> IF o \in Mirrors THEN Dark ELSE confirmed[o]]

GiveUpForgets == IF Stranded THEN ForgetPending ELSE UNCHANGED change

GiveUp == IF Stranded THEN RevertPending ELSE UNCHANGED change

\* DisplayService::refresh when no X request fails.
Refresh ==
    /\ GiveUp
    /\ Publish(NextGeneration, IF Stranded THEN NoPending ELSE coordinator)

\* The change a client is asked to confirm: that of the platform.
Pended(p) ==
    IF p = NoPending THEN NoPending
    ELSE [transaction |-> p.transaction, output |-> p.output, mode |-> p.mode]

\* GetDisplays: the client learns the snapshot and adopts its transaction.
GetDisplays(c) ==
    /\ Idle
    /\ Refresh
    /\ answer' = [answer EXCEPT ![c] = cached']
    /\ held' = [held EXCEPT ![c] = Pended(coordinator')]
    /\ UNCHANGED <<connected, time, issued, call, scalings, faults>>

\* The rollback inside refresh went through, the snapshot after it did not.
GetDisplaysFails ==
    /\ Idle
    /\ Fault
    /\ \/ GiveUp
       \/ UNCHANGED change
    /\ UNCHANGED <<connected, time, issued, cached, seenTime, call, clientVars,
                   scalings>>

\* begin_mode up to its own snapshot: the generation the client names is the
\* product's, and the topology has not moved since it was cached.  A client has
\* been answered before it begins, so there is a cached snapshot.
BeginCheck(c, o, m) ==
    /\ Idle
    /\ ~Pending
    /\ issued < MaxChanges
    /\ answer[c] # NoSnapshot
    /\ answer[c].generation = cached.generation
    /\ seenTime = time
    /\ o \in connected
    /\ m # Picture[o]
    /\ call' = [client |-> c, at |-> "apply", output |-> o, mode |-> m,
                topology |-> time]
    /\ UNCHANGED <<serverVars, engineVars, serviceVars, clientVars, confirmed,
                   scalings, faults>>

\* The topology has moved: the snapshot is refreshed and the begin refused.
BeginStale(c) ==
    /\ Idle
    /\ ~Pending
    /\ answer[c] # NoSnapshot
    /\ answer[c].generation = cached.generation
    /\ seenTime # time
    /\ Refresh
    /\ UNCHANGED <<connected, time, issued, call, clientVars, scalings, faults>>

SameNumber == 1

\* next_transaction.
NewNumber == issued + 1

\* apply_mode and DisplayCoordinator::begin: every output of the CRTC goes with
\* the one the change is for.  SetCrtcConfig may move the configuration
\* timestamp by itself.
BeginApply ==
    /\ call.at = "apply"
    /\ call.output \in connected
    /\ crtc[call.output] # NoCrtc
    /\ engine = NoPending
    /\ LET k == crtc[call.output]
       IN  /\ SetCrtc(k, call.mode, On(k))
           /\ engine' = [transaction |-> NewNumber, crtc |-> k,
                         output |-> call.output, old |-> mode[k]]
    /\ issued' = issued + 1
    /\ coordinator' = [transaction |-> NewNumber, output |-> call.output,
                       mode |-> call.mode, topology |-> call.topology,
                       expired |-> FALSE]
    /\ call' = [client |-> call.client, at |-> "publish"]
    /\ time' \in {time} \cup ({time + 1} \cap 1 .. MaxTime)
    /\ UNCHANGED <<connected, cached, seenTime, clientVars, confirmed, scalings,
                   faults>>

\* The output is gone or dark, or RandR refuses: nothing was changed.
BeginRefused ==
    /\ call.at = "apply"
    /\ \/ /\ call.output \notin connected \/ crtc[call.output] = NoCrtc
          /\ UNCHANGED faults
       \/ Fault
    /\ call' = NoCall
    /\ UNCHANGED <<serverVars, engineVars, serviceVars, clientVars, confirmed,
                   scalings>>

\* begin_mode publishes what it did and the client learns its transaction.
BeginPublish ==
    /\ call.at = "publish"
    /\ Publish(cached.generation + 1, coordinator)
    /\ held' = [held EXCEPT ![call.client] = Pended(coordinator)]
    /\ call' = NoCall
    /\ UNCHANGED <<serverVars, engineVars, coordinator, answer, confirmed,
                   scalings, faults>>

\* The snapshot after the mode change fails: the client gets an error for a
\* change that is in effect and pending.
BeginUnpublished ==
    /\ call.at = "publish"
    /\ Fault
    /\ call' = NoCall
    /\ UNCHANGED <<serverVars, engineVars, serviceVars, clientVars, confirmed,
                   scalings>>

\* require_transaction: the transaction a client names is the pending one.
Names(c) == Pending /\ held[c].transaction = coordinator.transaction

\* What the client holds after a keep or a revert: nothing, if it was told of
\* success; the snapshot at the end of the handler may fail.
Told(c, ok) ==
    held' = IF ok THEN [held EXCEPT ![c] = NoPending] ELSE held

\* keep leaves the product generation as it is.
Keep(c) ==
    /\ Idle
    /\ Names(c)
    /\ engine' = NoPending
    /\ coordinator' = NoPending
    /\ confirmed' = Picture
    /\ \/ Publish(Generation, NoPending) /\ Told(c, TRUE) /\ UNCHANGED faults
       \/ Fault /\ Told(c, FALSE) /\ UNCHANGED <<cached, seenTime>>
    /\ UNCHANGED <<serverVars, issued, call, answer, scalings>>

Revert(c) ==
    /\ Idle
    /\ Names(c)
    /\ RevertPending
    /\ \/ Publish(Generation + 1, NoPending) /\ Told(c, TRUE) /\ UNCHANGED faults
       \/ Fault /\ Told(c, FALSE) /\ UNCHANGED <<cached, seenTime>>
    /\ UNCHANGED <<connected, time, issued, call, answer, scalings>>

EngineForgets == engine' = NoPending /\ UNCHANGED coordinator

\* RandR refuses the rollback: both sides still know the change.
Refuse == UNCHANGED <<engine, coordinator>>

RevertRefused(c) ==
    /\ Idle
    /\ Names(c)
    /\ Fault
    /\ Refuse
    /\ UNCHANGED <<serverVars, issued, cached, seenTime, call, clientVars,
                   confirmed, scalings>>

\* set_shell_scale changes the cached snapshot only.
SetShellScale(c) ==
    /\ Idle
    /\ scalings < MaxScalings
    /\ answer[c] # NoSnapshot
    /\ answer[c].generation = cached.generation
    /\ cached.connected # {}
    /\ cached' = [cached EXCEPT !.generation = @ + 1]
    /\ scalings' = scalings + 1
    /\ UNCHANGED <<serverVars, engineVars, coordinator, seenTime, call,
                   clientVars, confirmed, faults>>

-----------------------------------------------------------------------------
(* Time and processes. *)

\* Fifteen seconds pass.
TimePasses ==
    /\ Idle
    /\ Pending
    /\ ~coordinator.expired
    /\ coordinator' = [coordinator EXCEPT !.expired = TRUE]
    /\ UNCHANGED <<serverVars, engineVars, cached, seenTime, call, clientVars,
                   confirmed, scalings, faults>>

Expired == Pending /\ coordinator.expired

\* tick_display_transactions, were it called.
Tick ==
    /\ TimerRuns
    /\ Idle
    /\ Expired
    /\ RevertPending
    /\ \/ Publish(Generation + 1, NoPending) /\ UNCHANGED faults
       \/ Fault /\ UNCHANGED <<cached, seenTime>>
    /\ UNCHANGED <<connected, time, issued, call, clientVars, scalings>>

\* A client dies and forgets; the next one starts with a GetDisplays.
Die(c) ==
    /\ answer[c] # NoSnapshot
    /\ answer' = [answer EXCEPT ![c] = NoSnapshot]
    /\ held' = [held EXCEPT ![c] = NoPending]
    /\ UNCHANGED <<serverVars, engineVars, serviceVars, call, confirmed,
                   scalings, faults>>

Begin ==
    \/ \E c \in Clients, o \in Outputs, m \in Modes : BeginCheck(c, o, m)
    \/ \E c \in Clients : BeginStale(c)
    \/ BeginApply \/ BeginRefused \/ BeginPublish \/ BeginUnpublished

Decide == \E c \in Clients :
    Keep(c) \/ Revert(c) \/ RevertRefused(c)

Read ==
    \/ \E c \in Clients : GetDisplays(c)
    \/ GetDisplaysFails

Next ==
    \/ Begin \/ Decide \/ Read
    \/ \E c \in Clients : SetShellScale(c) \/ Die(c)
    \/ TimePasses \/ Tick \/ Hotplug

\* The WM finishes the request it handles, time passes, and the timer, where it
\* runs, is served.  No client has to do anything.
Spec ==
    /\ Init
    /\ [][Next]_vars
    /\ WF_vars(BeginApply \/ BeginRefused \/ BeginPublish \/ BeginUnpublished)
    /\ WF_vars(TimePasses)
    /\ WF_vars(Tick)

-----------------------------------------------------------------------------
(* Properties. *)

Snapshots ==
    [generation : Nat, connected : Topologies, pending : Nat,
     output : Outputs \cup {NoOutput}]
Calls ==
    {NoCall}
        \cup [client : Clients, at : {"apply"}, output : Outputs, mode : Modes,
              topology : Nat]
        \cup [client : Clients, at : {"publish"}]

\* The variables have their types.
TypeOK ==
    /\ connected \in Topologies
    /\ crtc \in [Outputs -> Crtcs \cup {NoCrtc}]
    /\ mode \in [Crtcs -> Modes \cup {Dark}]
    /\ time \in 1 .. MaxTime
    /\ engine \in {NoPending} \cup
          [transaction : Nat \ {0}, crtc : Crtcs, output : Outputs, old : Modes]
    /\ issued \in Nat
    /\ coordinator \in {NoPending} \cup
          [transaction : Nat \ {0}, output : Outputs, mode : Modes,
           topology : Nat, expired : BOOLEAN]
    /\ cached \in Snapshots
    /\ seenTime \in 0 .. MaxTime
    /\ call \in Calls
    /\ answer \in [Clients -> Snapshots]
    /\ held \in [Clients -> {NoPending} \cup
          [transaction : Nat \ {0}, output : Outputs, mode : Modes]]
    /\ confirmed \in [Outputs -> Modes \cup {Dark}]
    /\ scalings \in 0 .. MaxScalings
    /\ faults \in 0 .. MaxFaults

\* Platform and engine agree on the change that is pending, whatever request
\* failed: neither holds one the other has forgotten, which would refuse every
\* later change as Busy.
SidesAgree ==
    /\ (coordinator = NoPending) = (engine = NoPending)
    /\ Pending => /\ coordinator.transaction = engine.transaction
                  /\ coordinator.output = engine.output

\* A picture nobody has confirmed is on an output only while a change of its
\* CRTC is pending, and the engine still holds the mode the output had, whatever
\* was plugged, refused or given up since (apply_mode, revert_mode, refresh).
UnconfirmedIsRevertible ==
    \A o \in Outputs :
        Picture[o] # confirmed[o] =>
            /\ engine # NoPending
            /\ crtc[o] = engine.crtc
            /\ engine.old = confirmed[o]

\* No client is told that a change is pending on an output that is gone.
AnswerIsLive ==
    \A c \in Clients : answer[c].pending # 0 => answer[c].output \in answer[c].connected

\* A client keeps the change it was asked about and no other, though another
\* client may have reverted that one and begun a new one since: the output and
\* the mode its user was shown are those that are set (keep, require_transaction,
\* keep_mode).
KeepsWhatItWasAsked ==
    [][\A c \in Clients :
          Keep(c) => /\ held[c].output = engine.output
                     /\ held[c].mode = mode[engine.crtc]]_vars

\* A change is tried on every output of its CRTC, and then kept, or undone for
\* the output it is for, whatever client, timer, hotplug or failure ends it.
Trial == INSTANCE TrialChange WITH
    pictures <- Picture, kept <- confirmed, trial <- engine.transaction, last <- issued,
    mirrors <- IF engine = NoPending THEN {} ELSE Mirrors

ImplementsTrial == Trial!Spec

\* "Revert/timeout/settings-owner-loss/hotplug restores captured state" (the
\* bridge blueprint): what ends without a keep leaves every output as before.
UndoneIsAsBefore ==
    [][engine # NoPending /\ engine' = NoPending
          => Picture' \in {Picture, confirmed}]_vars

\* No two outputs show the picture of one CRTC.
Unmirrored ==
    \A o, p \in Outputs : crtc[o] = crtc[p] /\ crtc[o] # NoCrtc => o = p

\* An unconfirmed change does not outlive its deadline for ever.
UnconfirmedEnds == Expired ~> ~Pending

\* A product generation names one topology: two snapshots that clients were
\* given under one generation list the same outputs.
GenerationNamesTopology ==
    \A c, d \in Clients :
        answer[c].generation = answer[d].generation
            => answer[c].connected = answer[d].connected
=============================================================================
