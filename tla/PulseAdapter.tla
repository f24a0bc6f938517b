---------------------------- MODULE PulseAdapter ----------------------------
(***************************************************************************)
(* The audio provider of the WM: PulseAudio's own thread runs the          *)
(* callbacks of a context (integrations-linux/pulse.rs) and keeps the      *)
(* controller (integrations-core/pulse.rs); snapshots go through a bounded *)
(* channel to the WM thread, which holds the product's view                *)
(* (platform/system.rs) and sends volume and mute commands.                *)
(*                                                                         *)
(* Callbacks run one at a time under the main loop's lock; a command is    *)
(* two steps of the WM thread, since it releases the controller before it  *)
(* takes the main loop's lock.  A server has a life, so that its index     *)
(* spaces can be told apart, and a level, which stands for all it lists.   *)
(* Omitted: reconnect_pending, always set when it is read,                 *)
(* reconcile_pending, set and taken under one lock, and the day-ahead      *)
(* setting of the timer (RETRY_TIMER_SEED), which counts as unarmed.       *)
(***************************************************************************)
EXTENDS Naturals, Sequences, SequencesExt

CONSTANTS
    MaxAttempts, \* BackoffConfig.maximum_attempts, 8 in the code
    ChannelRoom, \* bound of the snapshot channel, 32 in the code
    MaxLives,    \* bound of the model: incarnations of the server
    MaxChanges,  \* bound of the model: changes of the level
    MaxNoSinks,  \* bound of the model: replies without a default sink
    MaxAsked     \* bound of the model: reconciles in flight

ASSUME PulseAssumption ==
    /\ MaxAttempts \in Nat \ {0}
    /\ ChannelRoom \in Nat \ {0}
    /\ MaxLives \in Nat \ {0}
    /\ MaxChanges \in Nat
    /\ MaxNoSinks \in Nat
    /\ MaxAsked \in Nat \ {0}

NoList == [life |-> 0, level |-> 0]
NoContext == [gen |-> 0, life |-> 0, state |-> "failed"]
NoCommand == [life |-> 0]

VARIABLES
    up,       \* a server is running
    life,     \* its incarnation
    level,    \* what it would list
    noSinks,  \* bound of the model: replies without a default sink so far
    context,  \* the context in the slot: its callbacks' generation, its server
    asked,    \* reconciles in flight on it
    ctl,      \* PulseController
    timer,    \* the reconnect timer is armed
    barren,   \* history: connections that became ready since a server was listed
    channel,  \* audio_sender to audio_receiver
    lost,     \* history: a snapshot found the channel full
    service,  \* SystemService.snapshot.audio
    command,  \* a validated command the WM thread has yet to send
    hit       \* history: the last command sent, whom it meant and whom it met

serverVars == <<up, life, level, noSinks>>
adapterVars == <<context, asked, ctl, timer, barren>>
wmVars == <<service, command, hit>>
vars == <<up, life, level, noSinks, context, asked, ctl, timer, barren, channel,
          lost, service, command, hit>>

Snapshot(k) ==
    [generation |-> k.generation, server |-> k.server,
     available |-> k.state = "ready", list |-> k.known]

\* connect() has begun: generation 1, a context that is connecting.
Init ==
    /\ up \in BOOLEAN
    /\ life = 1
    /\ level = 0
    /\ noSinks = 0
    /\ context = [gen |-> 1, life |-> 1, state |-> "connecting"]
    /\ asked = 0
    /\ ctl = [generation |-> 1, server |-> 0, state |-> "connecting",
              known |-> NoList, attempts |-> 0]
    /\ timer = FALSE
    /\ barren = 0
    /\ channel = << >>
    /\ lost = FALSE
    /\ service = [generation |-> 0, server |-> 0, available |-> FALSE, list |-> NoList]
    /\ command = NoCommand
    /\ hit = [meant |-> 0, met |-> 0]

-----------------------------------------------------------------------------
(* PulseController. *)

Started(k) ==
    [generation |-> k.generation + 1, server |-> k.server,
     state |-> "connecting", known |-> k.known, attempts |-> k.attempts]

ReadyNow(k) ==
    [generation |-> k.generation, server |-> k.server,
     state |-> "ready", known |-> k.known, attempts |-> 0]

Restarted(k) ==
    [generation |-> k.generation + 1, server |-> k.server + 1,
     state |-> "unavailable", known |-> NoList, attempts |-> k.attempts]

Reconciled(k, list) == [k EXCEPT !.state = "ready", !.known = list]

MayRetryLess(k) == k.attempts + 1 < MaxAttempts

\* next_reconnect_delay_ms gives a delay until the attempts are used up.
MayRetry(k) == k.attempts < MaxAttempts
Counted(k) == IF MayRetry(k) THEN [k EXCEPT !.attempts = @ + 1] ELSE k

AnyContext == TRUE

\* Every callback of a context compares its generation with the controller's.
Current == context.gen = ctl.generation

-----------------------------------------------------------------------------
(* The PulseAudio thread. *)

\* emit_snapshot: try_send drops the snapshot when the channel is full; the
\* wake byte follows the snapshot, so the WM thread always finds it.
Emit(k) ==
    IF Len(channel) < ChannelRoom
    THEN channel' = Append(channel, Snapshot(k)) /\ UNCHANGED lost
    ELSE lost' = TRUE /\ UNCHANGED channel

\* mark_disconnected, for the generation of the controller k.
MarkDisconnected(k, armed) ==
    /\ ctl' = Counted(Restarted(k))
    /\ timer' = (armed \/ MayRetry(Restarted(k)))
    /\ Emit(Restarted(k))

\* The timer fires: retry_connection, and the context connects or fails later.
RetryConnection ==
    /\ timer
    /\ ctl.state # "ready"
    /\ timer' = FALSE
    /\ ctl' = Started(ctl)
    /\ context' = [gen |-> ctl.generation + 1, life |-> life, state |-> "connecting"]
    /\ asked' = 0
    /\ UNCHANGED <<serverVars, barren, channel, lost, wmVars>>

\* retry_connection whose connect fails at once: the old context is gone too.
RetryFails ==
    /\ timer
    /\ ctl.state # "ready"
    /\ ~up
    /\ MarkDisconnected(Started(ctl), FALSE)
    /\ context' = NoContext
    /\ asked' = 0
    /\ UNCHANGED <<serverVars, barren, wmVars>>

\* context_state_changed, ready: subscribed, and the first reconcile asked for.
ContextReady ==
    /\ context.state = "connecting"
    /\ up
    /\ context' = [context EXCEPT !.state = "ready", !.life = life]
    /\ IF Current
       THEN ctl' = ReadyNow(ctl) /\ timer' = FALSE /\ asked' = 1 /\ barren' = barren + 1
       ELSE UNCHANGED <<ctl, timer, asked, barren>>
    /\ UNCHANGED <<serverVars, channel, lost, wmVars>>

\* context_state_changed, failed or terminated: what was asked is cancelled.
ContextFails ==
    /\ context.state \in {"connecting", "ready"}
    /\ ~up \/ (context.state = "ready" /\ context.life # life)
    /\ context' = [context EXCEPT !.state = "failed"]
    /\ asked' = 0
    /\ IF Current
       THEN MarkDisconnected(ctl, timer)
       ELSE UNCHANGED <<ctl, timer, channel, lost>>
    /\ UNCHANGED <<serverVars, barren, wmVars>>

Alive == up /\ context.state = "ready" /\ context.life = life

\* The reply lists the server: complete_audio_list.
ListReply ==
    /\ asked > 0
    /\ Alive
    /\ asked' = asked - 1
    /\ LET k == Reconciled(ctl, [life |-> context.life, level |-> level])
       IN  IF Current
           THEN ctl' = k /\ Emit(k) /\ barren' = 0
           ELSE UNCHANGED <<ctl, channel, lost, barren>>
    /\ UNCHANGED <<serverVars, context, timer, wmVars>>

\* The reply names no default sink: the adapter gives the context up, which
\* stays in its slot, connected, until the next retry.
NoSinkReply ==
    /\ asked > 0
    /\ Alive
    /\ noSinks < MaxNoSinks
    /\ noSinks' = noSinks + 1
    /\ asked' = asked - 1
    /\ IF Current
       THEN MarkDisconnected(ctl, timer)
       ELSE UNCHANGED <<ctl, timer, channel, lost>>
    /\ UNCHANGED <<up, life, level, context, barren, wmVars>>

\* A sink, source, stream or default changes: the subscription callback asks
\* for a reconcile.
LevelChanges ==
    /\ up
    /\ level < MaxChanges
    /\ Alive /\ Current => asked < MaxAsked
    /\ level' = level + 1
    /\ asked' = IF Alive /\ Current THEN asked + 1 ELSE asked
    /\ UNCHANGED <<up, life, noSinks, context, ctl, timer, barren, channel, lost,
                   wmVars>>

Callback ==
    \/ RetryConnection \/ RetryFails \/ ContextReady \/ ContextFails
    \/ ListReply \/ NoSinkReply

-----------------------------------------------------------------------------
(* The WM thread. *)

NewerOnly(s, u) == IF u.generation <= s.generation THEN s ELSE u

\* SystemService::update_audio.
Updated(s, u) ==
    IF u.generation < s.generation \/ u.server < s.server THEN s ELSE u

\* The wake source drains the channel and the turn applies what it held.
Drain ==
    /\ channel # << >>
    /\ service' = FoldLeft(Updated, service, channel)
    /\ channel' = << >>
    /\ UNCHANGED <<serverVars, adapterVars, lost, command, hit>>

\* perform_action and PulseController::set_volume: a command names the
\* generations of the product's snapshot, and the controller's are the same.
Validate ==
    /\ command = NoCommand
    /\ service.generation = ctl.generation
    /\ service.server = ctl.server
    /\ ctl.state = "ready"
    /\ ctl.known # NoList
    /\ command' = [life |-> ctl.known.life]
    /\ UNCHANGED <<serverVars, adapterVars, channel, lost, service, hit>>

\* PulseAdapter::set_volume under the main loop's lock: any context that is
\* ready will do.
Send ==
    /\ command # NoCommand
    /\ hit' = IF context.state = "ready"
              THEN [meant |-> command.life, met |-> context.life] ELSE hit
    /\ command' = NoCommand
    /\ UNCHANGED <<serverVars, adapterVars, channel, lost, service>>

-----------------------------------------------------------------------------
(* The audio server. *)

ServerDies ==
    /\ up
    /\ up' = FALSE
    /\ UNCHANGED <<life, level, noSinks, adapterVars, channel, lost, wmVars>>

ServerStarts ==
    /\ ~up
    /\ life < MaxLives
    /\ up' = TRUE
    /\ life' = life + 1
    /\ UNCHANGED <<level, noSinks, adapterVars, channel, lost, wmVars>>

Next ==
    \/ Callback
    \/ Drain \/ Validate \/ Send
    \/ LevelChanges \/ ServerDies \/ ServerStarts

\* Both threads are scheduled, the server answers, and the WM's wake source is
\* level-triggered.
Spec ==
    /\ Init
    /\ [][Next]_vars
    /\ WF_vars(RetryConnection \/ RetryFails)
    /\ WF_vars(ContextReady)
    /\ WF_vars(ContextFails)
    /\ WF_vars(ListReply \/ NoSinkReply)
    /\ WF_vars(Drain)
    /\ WF_vars(Send)

-----------------------------------------------------------------------------
(* Properties. *)

\* The variables have their types.
TypeOK ==
    /\ up \in BOOLEAN /\ timer \in BOOLEAN /\ lost \in BOOLEAN
    /\ life \in 1 .. MaxLives
    /\ level \in 0 .. MaxChanges
    /\ noSinks \in 0 .. MaxNoSinks
    /\ context \in [gen : Nat, life : 0 .. MaxLives,
                    state : {"connecting", "ready", "failed"}]
    /\ asked \in 0 .. MaxAsked
    /\ ctl \in [generation : Nat, server : Nat,
                state : {"unavailable", "connecting", "ready"},
                known : [life : 0 .. MaxLives, level : 0 .. MaxChanges],
                attempts : 0 .. MaxAttempts]
    /\ barren \in Nat
    /\ Len(channel) <= ChannelRoom
    /\ command \in [life : 0 .. MaxLives]

\* What the controller offers is what the server behind the current context
\* listed: a reply to a context that was given up changes nothing.
KnowsItsServer ==
    ctl.known # NoList =>
        /\ ctl.state = "ready"
        /\ context.gen = ctl.generation
        /\ ctl.known.life = context.life

\* A retry is pending, or under way, whenever the adapter has no server and has
\* attempts left: a failure never ends in silence.
RetryIsPending ==
    ctl.state = "unavailable" => timer \/ ctl.attempts = MaxAttempts

\* Once all is quiet the product shows what the controller knows, unless the
\* channel overflowed.
CatchesUp == <>[](lost \/ service = Snapshot(ctl))

\* "The resulting state arrives through the normal sink subscription": once all
\* is quiet the product shows what the server listed last.
ResultArrives == <>[](ctl.known # NoList => service = Snapshot(ctl))

\* A server that runs from some time on is connected to in the end.
Reconnects == <>[]up => []<>(ctl.state = "ready")

\* The attempts bound the connections that are made without ever listing a
\* server.
NoRetryStorm == barren <= MaxAttempts + 1

\* A command reaches the server whose list it was chosen from.
CommandMeetsItsServer == hit.met = hit.meant
=============================================================================
