-------------------------- MODULE PulseAdapterProofs --------------------------
(***************************************************************************)
(* For every backoff, every size of the channel and every number of lives  *)
(* of the server: the controller offers only what the server behind its    *)
(* current context listed, and a failure is followed by a retry as long as *)
(* attempts are left.                                                      *)
(*                                                                         *)
(* The list of the controller is of its current context: it is emptied     *)
(* before the context changes, and filled only by a reply of this one.     *)
(* A context that still connects has listed nothing.                       *)
(***************************************************************************)
EXTENDS PulseAdapter, TLAPS

Types ==
    /\ up \in BOOLEAN /\ timer \in BOOLEAN /\ lost \in BOOLEAN
    /\ life \in 1 .. MaxLives
    /\ level \in 0 .. MaxChanges
    /\ noSinks \in 0 .. MaxNoSinks
    /\ context \in [gen : Nat, life : 0 .. MaxLives,
                    state : {"connecting", "ready", "failed"}]
    /\ asked \in 0 .. MaxAsked
    /\ ctl \in [generation : Nat, server : Nat,
                state : {"unavailable", "connecting", "ready"},
                known : [life : 0 .. MaxLives, level : 0 .. MaxChanges],
                attempts : 0 .. MaxAttempts]
    /\ barren \in Nat
    /\ command \in [life : 0 .. MaxLives]

\* A context that still connects has listed nothing.
ConnectingKnowsNothing ==
    context.state = "connecting" /\ Current => ctl.known = NoList

ChannelFits == (\E S : channel \in Seq(S)) /\ Len(channel) <= ChannelRoom

PulseInv ==
    /\ Types
    /\ KnowsItsServer
    /\ ConnectingKnowsNothing
    /\ RetryIsPending

Controllers ==
    [generation : Nat, server : Nat, state : {"unavailable", "connecting", "ready"},
     known : [life : 0 .. MaxLives, level : 0 .. MaxChanges], attempts : 0 .. MaxAttempts]

-----------------------------------------------------------------------------
(* The controller. *)

LEMMA ListTypes == NoList \in [life : 0 .. MaxLives, level : 0 .. MaxChanges]
  BY PulseAssumption DEF NoList

\* The fields of a controller, one by one.
LEMMA Fields ==
    ASSUME NEW k \in Controllers
    PROVE  /\ k.generation \in Nat /\ k.server \in Nat
           /\ k.state \in {"unavailable", "connecting", "ready"}
           /\ k.known \in [life : 0 .. MaxLives, level : 0 .. MaxChanges]
           /\ k.attempts \in 0 .. MaxAttempts
  BY DEF Controllers

LEMMA CountedFields ==
    ASSUME NEW k \in Controllers
    PROVE  /\ Counted(k) \in Controllers
           /\ Counted(k).known = k.known /\ Counted(k).state = k.state
           /\ MayRetry(k) \in BOOLEAN
           /\ MayRetry(k) \/ Counted(k).attempts = MaxAttempts
<1>1. CASE MayRetry(k)
  <2>1. Counted(k) = [generation |-> k.generation, server |-> k.server,
                      state |-> k.state, known |-> k.known,
                      attempts |-> k.attempts + 1]
    BY <1>1 DEF Controllers, Counted
  <2>2. k.attempts + 1 \in 0 .. MaxAttempts
    BY <1>1, Fields, PulseAssumption DEF MayRetry
  <2> QED  BY <1>1, <2>1, <2>2, Fields DEF Controllers
<1>2. CASE ~MayRetry(k)
  <2>1. Counted(k) = k  BY <1>2 DEF Counted
  <2>2. k.attempts = MaxAttempts
    BY <1>2, Fields, PulseAssumption DEF MayRetry
  <2> QED  BY <1>2, <2>1, <2>2 DEF MayRetry
<1> QED  BY <1>1, <1>2

\* A controller that gives up has no list and no state, and counts an attempt
\* while it may.
LEMMA GivenUp ==
    ASSUME NEW k \in Controllers
    PROVE  /\ Counted(Restarted(k)) \in Controllers
           /\ Counted(Restarted(k)).known = NoList
           /\ Counted(Restarted(k)).state = "unavailable"
           /\ MayRetry(Restarted(k)) \in BOOLEAN
           /\ MayRetry(Restarted(k)) \/ Counted(Restarted(k)).attempts = MaxAttempts
<1>1. Restarted(k) \in Controllers
  BY Fields, ListTypes DEF Controllers, Restarted
<1>2. Restarted(k).known = NoList /\ Restarted(k).state = "unavailable"
  BY DEF Restarted
<1> QED  BY <1>1, <1>2, CountedFields

LEMMA BegunAnew ==
    ASSUME NEW k \in Controllers
    PROVE  /\ Started(k) \in Controllers
           /\ Started(k).known = k.known
           /\ Started(k).generation = k.generation + 1
           /\ Started(k).state = "connecting"
  BY Fields DEF Controllers, Started

LEMMA BecameReady ==
    ASSUME NEW k \in Controllers
    PROVE  /\ ReadyNow(k) \in Controllers
           /\ ReadyNow(k).known = k.known
           /\ ReadyNow(k).generation = k.generation
           /\ ReadyNow(k).state = "ready"
  BY Fields, PulseAssumption DEF Controllers, ReadyNow

LEMMA WasListed ==
    ASSUME NEW k \in Controllers,
           NEW list \in [life : 0 .. MaxLives, level : 0 .. MaxChanges]
    PROVE  /\ Reconciled(k, list) \in Controllers
           /\ Reconciled(k, list).known = list
           /\ Reconciled(k, list).generation = k.generation
           /\ Reconciled(k, list).state = "ready"
  BY DEF Controllers, Reconciled

\* What mark_disconnected leaves behind is in order whatever was there before.
LEMMA DisconnectedStep ==
    ASSUME NEW k \in Controllers, NEW armed \in BOOLEAN, MarkDisconnected(k, armed)
    PROVE  /\ ctl' \in Controllers /\ ctl'.known = NoList
           /\ timer' \in BOOLEAN
           /\ KnowsItsServer' /\ ConnectingKnowsNothing' /\ RetryIsPending'
  BY GivenUp
  DEF MarkDisconnected, KnowsItsServer, ConnectingKnowsNothing, RetryIsPending

-----------------------------------------------------------------------------
(* Initially, and in every step. *)

LEMMA InitPulse == Init => PulseInv
<1> SUFFICES ASSUME Init PROVE PulseInv  OBVIOUS
<1>1. Types
  <2>1. /\ up \in BOOLEAN /\ timer \in BOOLEAN /\ lost \in BOOLEAN
        /\ life \in 1 .. MaxLives /\ level \in 0 .. MaxChanges
        /\ noSinks \in 0 .. MaxNoSinks /\ asked \in 0 .. MaxAsked /\ barren \in Nat
    <3>1. up \in BOOLEAN /\ timer = FALSE /\ lost = FALSE  BY DEF Init
    <3>2. life = 1 /\ level = 0 /\ noSinks = 0 /\ asked = 0 /\ barren = 0
      BY DEF Init
    <3>3. /\ 1 \in 1 .. MaxLives /\ 0 \in 0 .. MaxChanges
          /\ 0 \in 0 .. MaxNoSinks /\ 0 \in 0 .. MaxAsked
      BY PulseAssumption
    <3> QED  BY <3>1, <3>2, <3>3
  <2>2. context \in [gen : Nat, life : 0 .. MaxLives,
                     state : {"connecting", "ready", "failed"}]
    BY PulseAssumption DEF Init
  <2>3. ctl \in Controllers
    BY ListTypes, PulseAssumption DEF Init, Controllers
  <2>4. command \in [life : 0 .. MaxLives]
    BY PulseAssumption DEF Init, NoCommand
  <2> QED  BY <2>1, <2>2, <2>3, <2>4 DEF Types, Controllers
<1>2. KnowsItsServer /\ ConnectingKnowsNothing /\ RetryIsPending
  BY DEF Init, KnowsItsServer, ConnectingKnowsNothing, RetryIsPending
<1> QED  BY <1>1, <1>2 DEF PulseInv

LEMMA CtlTypes == Types => ctl \in Controllers
  BY DEF Types, Controllers

\* The list is empty as long as the controller is not ready.
LEMMA NotReadyKnowsNothing ==
    KnowsItsServer /\ ctl.state # "ready" => ctl.known = NoList
  BY DEF KnowsItsServer

LEMMA RetryStep == PulseInv /\ RetryConnection => PulseInv'
<1> SUFFICES ASSUME PulseInv, RetryConnection PROVE PulseInv'  OBVIOUS
<1>1. ctl' \in Controllers /\ ctl'.known = NoList /\ ctl'.state = "connecting"
  BY CtlTypes, BegunAnew, NotReadyKnowsNothing DEF PulseInv, RetryConnection
<1>2. context' \in [gen : Nat, life : 0 .. MaxLives,
                    state : {"connecting", "ready", "failed"}]
  BY CtlTypes, Fields, PulseAssumption DEF PulseInv, Types, RetryConnection
<1>3. Types'
  <2>1. /\ UNCHANGED <<up, life, level, noSinks, barren, lost, command>>
        /\ timer' = FALSE /\ asked' = 0
    BY DEF RetryConnection, serverVars, wmVars
  <2>2. 0 \in 0 .. MaxAsked  BY PulseAssumption
  <2> QED  BY <1>1, <1>2, <2>1, <2>2 DEF PulseInv, Types, Controllers
<1>4. KnowsItsServer' /\ ConnectingKnowsNothing' /\ RetryIsPending'
  BY <1>1 DEF KnowsItsServer, ConnectingKnowsNothing, RetryIsPending
<1> QED  BY <1>3, <1>4 DEF PulseInv

LEMMA RetryFailsStep == PulseInv /\ RetryFails => PulseInv'
<1> SUFFICES ASSUME PulseInv, RetryFails PROVE PulseInv'  OBVIOUS
<1>1. Started(ctl) \in Controllers
  BY CtlTypes, BegunAnew DEF PulseInv
<1>2. /\ ctl' \in Controllers /\ timer' \in BOOLEAN
      /\ KnowsItsServer' /\ ConnectingKnowsNothing' /\ RetryIsPending'
  BY <1>1, DisconnectedStep DEF RetryFails
<1>3. lost' \in BOOLEAN
  BY DEF PulseInv, Types, RetryFails, MarkDisconnected, Emit
<1>4. NoContext \in [gen : Nat, life : 0 .. MaxLives,
                     state : {"connecting", "ready", "failed"}]
  BY PulseAssumption DEF NoContext
<1>5. Types'
  BY <1>2, <1>3, <1>4, PulseAssumption
  DEF PulseInv, Types, RetryFails, Controllers, serverVars, wmVars
<1> QED  BY <1>2, <1>5 DEF PulseInv

LEMMA ReadyStep == PulseInv /\ ContextReady => PulseInv'
<1> SUFFICES ASSUME PulseInv, ContextReady PROVE PulseInv'  OBVIOUS
<1>1. context' = [gen |-> context.gen, life |-> life, state |-> "ready"]
  BY DEF PulseInv, Types, ContextReady
<1>2. context' \in [gen : Nat, life : 0 .. MaxLives,
                    state : {"connecting", "ready", "failed"}]
  BY <1>1, PulseAssumption DEF PulseInv, Types
<1>3. /\ ctl' \in Controllers /\ ctl'.known = NoList /\ timer' \in BOOLEAN
      /\ asked' \in 0 .. MaxAsked /\ barren' \in Nat
      /\ ctl'.state = "unavailable" => ctl' = ctl /\ timer' = timer
  <2>1. CASE Current
    <3>1. ctl.known = NoList
      BY <2>1 DEF PulseInv, ConnectingKnowsNothing, ContextReady
    <3>2. /\ ctl' = ReadyNow(ctl) /\ timer' = FALSE /\ asked' = 1
          /\ barren' = barren + 1
      BY <2>1 DEF ContextReady
    <3>3. /\ ctl' \in Controllers /\ ctl'.known = NoList /\ ctl'.state = "ready"
      BY <3>1, <3>2, CtlTypes, BecameReady DEF PulseInv
    <3>4. asked' \in 0 .. MaxAsked /\ barren' \in Nat
      BY <3>2, PulseAssumption DEF PulseInv, Types
    <3> QED  BY <3>2, <3>3, <3>4
  <2>2. CASE ~Current
    <3>1. ctl.known = NoList
      BY <2>2 DEF PulseInv, KnowsItsServer, Current
    <3> QED
      BY <2>2, <3>1, CtlTypes DEF PulseInv, Types, ContextReady
  <2> QED  BY <2>1, <2>2
<1>4. Types'
  BY <1>2, <1>3 DEF PulseInv, Types, ContextReady, Controllers, serverVars, wmVars
<1>5. KnowsItsServer' /\ ConnectingKnowsNothing' /\ RetryIsPending'
  BY <1>3 DEF PulseInv, KnowsItsServer, ConnectingKnowsNothing, RetryIsPending
<1> QED  BY <1>4, <1>5 DEF PulseInv

\* Both callbacks that may give a context up leave a context whose generation
\* is the old one; they differ in what becomes of it.
LEMMA GiveUpStep ==
    ASSUME PulseInv,
           IF Current THEN MarkDisconnected(ctl, timer)
                      ELSE UNCHANGED <<ctl, timer, channel, lost>>
    PROVE  /\ ctl' \in Controllers /\ timer' \in BOOLEAN /\ lost' \in BOOLEAN
           /\ KnowsItsServer' /\ ConnectingKnowsNothing' /\ RetryIsPending'
<1>1. CASE Current
  <2>1. lost' \in BOOLEAN
    BY <1>1 DEF PulseInv, Types, MarkDisconnected, Emit
  <2> QED
    BY <1>1, <2>1, CtlTypes, DisconnectedStep DEF PulseInv, Types
<1>2. CASE ~Current
  <2>1. ctl.known = NoList  BY <1>2 DEF PulseInv, KnowsItsServer, Current
  <2>2. ctl' = ctl /\ timer' = timer /\ lost' = lost  BY <1>2
  <2> QED
    BY <2>1, <2>2, CtlTypes
    DEF PulseInv, Types, KnowsItsServer, ConnectingKnowsNothing, RetryIsPending
<1> QED  BY <1>1, <1>2

LEMMA FailStep == PulseInv /\ ContextFails => PulseInv'
<1> SUFFICES ASSUME PulseInv, ContextFails PROVE PulseInv'  OBVIOUS
<1>1. /\ ctl' \in Controllers /\ timer' \in BOOLEAN /\ lost' \in BOOLEAN
      /\ KnowsItsServer' /\ ConnectingKnowsNothing' /\ RetryIsPending'
  BY GiveUpStep DEF ContextFails
<1>2. context' \in [gen : Nat, life : 0 .. MaxLives,
                    state : {"connecting", "ready", "failed"}]
  BY DEF PulseInv, Types, ContextFails
<1>3. Types'
  BY <1>1, <1>2, PulseAssumption
  DEF PulseInv, Types, ContextFails, Controllers, serverVars, wmVars
<1> QED  BY <1>1, <1>3 DEF PulseInv

LEMMA NoSinkStep == PulseInv /\ NoSinkReply => PulseInv'
<1> SUFFICES ASSUME PulseInv, NoSinkReply PROVE PulseInv'  OBVIOUS
<1>1. /\ ctl' \in Controllers /\ timer' \in BOOLEAN /\ lost' \in BOOLEAN
      /\ KnowsItsServer' /\ ConnectingKnowsNothing' /\ RetryIsPending'
  BY GiveUpStep DEF NoSinkReply
<1>2. asked' \in 0 .. MaxAsked /\ noSinks' \in 0 .. MaxNoSinks
  BY PulseAssumption DEF PulseInv, Types, NoSinkReply
<1>3. Types'
  BY <1>1, <1>2 DEF PulseInv, Types, NoSinkReply, Controllers, wmVars
<1> QED  BY <1>1, <1>3 DEF PulseInv

LEMMA ListStep == PulseInv /\ ListReply => PulseInv'
<1> SUFFICES ASSUME PulseInv, ListReply PROVE PulseInv'  OBVIOUS
<1> DEFINE list == [life |-> context.life, level |-> level]
<1>1. list \in [life : 0 .. MaxLives, level : 0 .. MaxChanges]
  BY DEF PulseInv, Types
<1>2. asked' \in 0 .. MaxAsked
  BY PulseAssumption DEF PulseInv, Types, ListReply
<1>3. context' = context /\ context.state = "ready" /\ timer' = timer
  BY DEF ListReply, Alive
<1>4. /\ ctl' \in Controllers /\ lost' \in BOOLEAN /\ barren' \in Nat
      /\ KnowsItsServer' /\ RetryIsPending'
  <2>1. CASE Current
    <3>1. ctl' = Reconciled(ctl, list)  BY <2>1 DEF ListReply
    <3>2. /\ ctl' \in Controllers /\ ctl'.known = list
          /\ ctl'.generation = ctl.generation /\ ctl'.state = "ready"
      BY <1>1, <3>1, CtlTypes, WasListed DEF PulseInv
    <3>3. lost' \in BOOLEAN /\ barren' \in Nat
      <4>1. Emit(Reconciled(ctl, list)) /\ barren' = 0
        BY <2>1 DEF ListReply
      <4>2. lost' = TRUE \/ lost' = lost  BY <4>1 DEF Emit
      <4> QED  BY <4>1, <4>2 DEF PulseInv, Types
    <3>4. KnowsItsServer'
      BY <1>3, <2>1, <3>2 DEF KnowsItsServer, Current
    <3>5. RetryIsPending'
      BY <3>2 DEF RetryIsPending
    <3> QED  BY <3>2, <3>3, <3>4, <3>5
  <2>2. CASE ~Current
    BY <1>3, <2>2, CtlTypes
    DEF PulseInv, Types, ListReply, KnowsItsServer, RetryIsPending
  <2> QED  BY <2>1, <2>2
<1>5. ConnectingKnowsNothing'
  BY <1>3 DEF ConnectingKnowsNothing
<1>6. Types'
  BY <1>2, <1>3, <1>4 DEF PulseInv, Types, ListReply, Controllers, serverVars, wmVars
<1> QED  BY <1>4, <1>5, <1>6 DEF PulseInv

\* The WM thread and the server touch neither the controller nor the context.
LEMMA ElsewhereStep ==
    ASSUME PulseInv,
           Drain \/ Validate \/ Send \/ LevelChanges \/ ServerDies \/ ServerStarts
    PROVE  PulseInv'
<1>1. UNCHANGED <<context, ctl, timer, barren, lost>>
  BY DEF Drain, Validate, Send, LevelChanges, ServerDies, ServerStarts,
         serverVars, adapterVars, wmVars
<1>2. /\ up' \in BOOLEAN /\ life' \in 1 .. MaxLives /\ noSinks' \in 0 .. MaxNoSinks
      /\ level' \in 0 .. MaxChanges /\ asked' \in 0 .. MaxAsked
  <2>1. CASE Drain \/ Validate \/ Send
    <3>1. UNCHANGED <<up, life, level, noSinks, asked>>
      BY <2>1 DEF Drain, Validate, Send, serverVars, adapterVars
    <3> QED  BY <3>1 DEF PulseInv, Types
  <2>2. CASE LevelChanges
    <3>1. /\ UNCHANGED <<up, life, noSinks>> /\ level < MaxChanges
          /\ level' = level + 1
      BY <2>2 DEF LevelChanges
    <3>2. asked' = asked \/ (asked < MaxAsked /\ asked' = asked + 1)
      BY <2>2 DEF LevelChanges
    <3> QED  BY <3>1, <3>2, PulseAssumption DEF PulseInv, Types
  <2>3. CASE ServerDies
    <3>1. up' = FALSE /\ UNCHANGED <<life, level, noSinks, asked>>
      BY <2>3 DEF ServerDies, adapterVars
    <3> QED  BY <3>1 DEF PulseInv, Types
  <2>4. CASE ServerStarts
    <3>1. /\ up' = TRUE /\ life < MaxLives /\ life' = life + 1
          /\ UNCHANGED <<level, noSinks, asked>>
      BY <2>4 DEF ServerStarts, adapterVars
    <3> QED  BY <3>1, PulseAssumption DEF PulseInv, Types
  <2> QED  BY <2>1, <2>2, <2>3, <2>4
<1>3. command' \in [life : 0 .. MaxLives]
  <2>1. NoCommand \in [life : 0 .. MaxLives]
    BY PulseAssumption DEF NoCommand
  <2>2. [life |-> ctl.known.life] \in [life : 0 .. MaxLives]
    BY DEF PulseInv, Types
  <2>3. command' = command \/ command' = NoCommand
        \/ command' = [life |-> ctl.known.life]
    BY DEF Drain, Validate, Send, LevelChanges, ServerDies, ServerStarts, wmVars
  <2> QED  BY <2>1, <2>2, <2>3 DEF PulseInv, Types
<1>4. Types'
  BY <1>1, <1>2, <1>3 DEF PulseInv, Types
<1>5. KnowsItsServer' /\ ConnectingKnowsNothing' /\ RetryIsPending'
  BY <1>1
  DEF PulseInv, KnowsItsServer, ConnectingKnowsNothing, RetryIsPending, Current
<1> QED  BY <1>4, <1>5 DEF PulseInv

LEMMA NextPulse == PulseInv /\ [Next]_vars => PulseInv'
<1> SUFFICES ASSUME PulseInv, [Next]_vars PROVE PulseInv'  OBVIOUS
<1>1. CASE RetryConnection  BY <1>1, RetryStep
<1>2. CASE RetryFails       BY <1>2, RetryFailsStep
<1>3. CASE ContextReady     BY <1>3, ReadyStep
<1>4. CASE ContextFails     BY <1>4, FailStep
<1>5. CASE ListReply        BY <1>5, ListStep
<1>6. CASE NoSinkReply      BY <1>6, NoSinkStep
<1>7. CASE Drain \/ Validate \/ Send \/ LevelChanges \/ ServerDies \/ ServerStarts
  BY <1>7, ElsewhereStep
<1>8. CASE UNCHANGED vars
  BY <1>8
  DEF PulseInv, Types, KnowsItsServer, ConnectingKnowsNothing, RetryIsPending,
      Current, vars
<1> QED
  BY <1>1, <1>2, <1>3, <1>4, <1>5, <1>6, <1>7, <1>8 DEF Next, Callback

\* PulseInv, the inductive invariant, holds in every reachable state.
THEOREM PulseInvariance == Spec => []PulseInv
  BY InitPulse, NextPulse, PTL DEF Spec

\* The controller offers only what the server behind its current context
\* listed, whatever callbacks of contexts given up still run.
THEOREM PulseOffersItsServer == Spec => []KnowsItsServer
<1>1. PulseInv => KnowsItsServer  BY DEF PulseInv
<1> QED  BY <1>1, PulseInvariance, PTL

\* mark_disconnected never leaves the adapter without a retry while attempts
\* are left.
THEOREM PulseKeepsTrying == Spec => []RetryIsPending
<1>1. PulseInv => RetryIsPending  BY DEF PulseInv
<1> QED  BY <1>1, PulseInvariance, PTL

-----------------------------------------------------------------------------
(* The channel to the WM thread. *)

LEMMA InitFits == Init => ChannelFits
<1> SUFFICES ASSUME Init PROVE ChannelFits  OBVIOUS
<1>1. channel \in Seq({})  BY DEF Init
<1>2. Len(channel) = 0  BY DEF Init
<1> QED  BY <1>1, <1>2, PulseAssumption DEF ChannelFits

LEMMA EmitFits ==
    ASSUME ChannelFits, NEW k, Emit(k)
    PROVE  ChannelFits'
<1>1. PICK S : channel \in Seq(S)  BY DEF ChannelFits
<1>2. CASE Len(channel) < ChannelRoom
  <2>1. channel' = Append(channel, Snapshot(k))  BY <1>2 DEF Emit
  <2> DEFINE T == S \cup {Snapshot(k)}
  <2>2. channel \in Seq(T)  BY <1>1
  <2> HIDE DEF T
  <2>3. Snapshot(k) \in T  BY DEF T
  <2>4. channel' \in Seq(T)  BY <2>1, <2>2, <2>3
  <2>5. Len(channel') = Len(channel) + 1 /\ Len(channel) \in Nat
    BY <2>1, <2>2, <2>3
  <2> QED  BY <1>2, <2>4, <2>5, PulseAssumption DEF ChannelFits
<1>3. CASE ~(Len(channel) < ChannelRoom)
  BY <1>3 DEF Emit, ChannelFits
<1> QED  BY <1>2, <1>3

LEMMA NextFits == ChannelFits /\ [Next]_vars => ChannelFits'
<1> SUFFICES ASSUME ChannelFits, [Next]_vars PROVE ChannelFits'  OBVIOUS
<1>1. CASE channel' = channel  BY <1>1 DEF ChannelFits
<1>2. CASE \E k : Emit(k)  BY <1>2, EmitFits
<1>3. CASE channel' = << >>
  <2>1. channel' \in Seq({}) /\ Len(channel') = 0  BY <1>3
  <2> QED  BY <2>1, PulseAssumption DEF ChannelFits
<1>4. channel' = channel \/ channel' = << >> \/ \E k : Emit(k)
  BY DEF Next, Callback, RetryConnection, RetryFails, ContextReady, ContextFails,
         ListReply, NoSinkReply, Drain, Validate, Send, LevelChanges, ServerDies,
         ServerStarts, MarkDisconnected, vars
<1> QED  BY <1>1, <1>2, <1>3, <1>4

\* The variables keep their types, and the channel its bound.
THEOREM PulseTypeCorrect == Spec => []TypeOK
<1>1. PulseInv /\ ChannelFits => TypeOK
  BY DEF PulseInv, Types, ChannelFits, TypeOK
<1>2. Spec => []ChannelFits
  BY InitFits, NextFits, PTL DEF Spec
<1> QED  BY <1>1, <1>2, PulseInvariance, PTL
=============================================================================
