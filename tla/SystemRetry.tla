---------------------------- MODULE SystemRetry -----------------------------
(***************************************************************************)
(* The retry of a system action (volume, Wi-Fi, media) that was refused as *)
(* stale: the mutation worker (control-dbus/mutation_queue.rs,             *)
(* control-core/mutations.rs) against the WM's system service              *)
(* (platform/system.rs) and the providers behind it.                       *)
(*                                                                         *)
(* An action carries the revision of the snapshot the user saw and, for    *)
(* guarded providers, the provider's generation in it.  A provider rotates *)
(* on its own; the service learns of it later.  Each call of the worker is *)
(* a message and a reply, and everything else may happen in between: the   *)
(* worker may give a call up while its message still waits for the WM.     *)
(* An action is checked first and has its effect after: in between, the WM *)
(* is busy with it, but a provider that runs on a thread of its own        *)
(* (PulseAudio) may rotate.                                                *)
(***************************************************************************)
EXTENDS Naturals, Sequences

CONSTANTS
    Providers,    \* network, audio, media
    Guarded,      \* those whose actions carry the provider's generation
    Threaded,     \* those whose generation moves on another thread than the WM's
    Flattened,    \* ControlClient::call makes every error Unavailable
    MaxMutations, \* bound of the model
    MaxRevision,  \* bound of the model: revisions of the service
    MaxRotations  \* bound of the model: rotations of one provider

ASSUME RetryAssumption ==
    /\ Guarded \subseteq Providers
    /\ Threaded \subseteq Providers
    /\ Flattened \in BOOLEAN
    /\ MaxMutations \in Nat
    /\ MaxRevision \in Nat
    /\ MaxRotations \in Nat

Mutations == 1 .. MaxMutations

VARIABLES
    actual,   \* each provider's own generation
    gen,      \* each provider's generation in the service's snapshot
    revision, \* SystemSnapshot.revision of the service
    shown,    \* the snapshot the user acts on
    asked,    \* mutations the worker has taken
    wanted,   \* history: the action of each, as the user gave it
    phase,    \* where the worker is in execute_with_calls
    wire,     \* requests the WM has yet to read, with "GetSystem" among them
    reply,    \* the reply to the call under way
    checked,  \* the WM has checked the first request of wire, and goes on with it
    passed,   \* history: the provider's generation at each mutation's last check
    effects,  \* how often each mutation had its effect
    under,    \* history: the provider's generation when it had
    answers   \* each mutation's outcome, as pushed to the queue

serviceVars == <<actual, gen, revision>>
workerVars == <<asked, wanted, phase, answers>>
effectVars == <<effects, under>>
checkVars == <<checked, passed>>
vars == <<actual, gen, revision, shown, asked, wanted, phase, wire, reply,
          checked, passed, effects, under, answers>>

Snapshot == [revision |-> revision, gen |-> gen]
None == [result |-> "none"]

Init ==
    /\ actual = [p \in Providers |-> 0]
    /\ gen = [p \in Providers |-> 0]
    /\ revision = 0
    /\ shown = Snapshot
    /\ asked = 0
    /\ wanted = << >>
    /\ phase = "idle"
    /\ wire = << >>
    /\ reply = None
    /\ checked = FALSE
    /\ passed = [m \in Mutations |-> 0]
    /\ effects = [m \in Mutations |-> 0]
    /\ under = [m \in Mutations |-> 0]
    /\ answers = [m \in Mutations |-> "none"]

-----------------------------------------------------------------------------
(* Providers, service, user. *)

\* Owner lost, server restarted: the provider's generation moves, in the WM's
\* own loop or, for a threaded one, whatever the WM is busy with.
Rotate(p) ==
    /\ actual[p] < MaxRotations
    /\ checked => p \in Threaded
    /\ actual' = [actual EXCEPT ![p] = @ + 1]
    /\ UNCHANGED <<gen, revision, shown, workerVars, wire, reply, checkVars,
                   effectVars>>

\* The service takes a provider's snapshot over: a new generation, or the same
\* one with other contents.
Update(p) ==
    /\ revision < MaxRevision
    /\ ~checked
    /\ gen' = [gen EXCEPT ![p] = actual[p]]
    /\ revision' = revision + 1
    /\ UNCHANGED <<actual, shown, workerVars, wire, reply, checkVars, effectVars>>

\* The user's process receives the service's snapshot.
Show ==
    /\ shown # Snapshot
    /\ shown' = Snapshot
    /\ UNCHANGED <<serviceVars, workerVars, wire, reply, checkVars, effectVars>>

-----------------------------------------------------------------------------
(* The WM: one request read, SystemService::perform_action with the checks  *)
(* and the effect of the provider behind it, one reply.                    *)

FreshForService(q) ==
    /\ q.revision = revision
    /\ q.provider \in Guarded => q.generation = gen[q.provider]

\* The service's own checks, and the provider's: the snapshot it was handed is
\* of its current generation.
Fresh(q) ==
    /\ q.revision = revision
    /\ q.provider \in Guarded => q.generation = gen[q.provider]
    /\ gen[q.provider] = actual[q.provider]

\* The worker waits for the reply to the last message sent.
Waiting == phase # "idle" /\ reply = None

\* The reply to any other, given up before, finds nobody.
Post(answer) == reply' = IF Waiting /\ Len(wire) = 1 THEN answer ELSE reply

\* The service and the provider find the action fresh.
Validate ==
    /\ wire # << >> /\ ~checked
    /\ LET r == Head(wire) IN
        /\ r.kind = "SystemAction"
        /\ Fresh(r.action)
        /\ passed' = [passed EXCEPT ![r.mutation] = actual[r.action.provider]]
    /\ checked' = TRUE
    /\ UNCHANGED <<serviceVars, shown, workerVars, wire, reply, effectVars>>

\* It has its effect, on whatever provider is there now.
Serve ==
    /\ checked
    /\ LET r == Head(wire) IN
        /\ effects' = [effects EXCEPT ![r.mutation] = @ + 1]
        /\ under' = [under EXCEPT ![r.mutation] = actual[r.action.provider]]
    /\ Post([result |-> "ok"])
    /\ wire' = Tail(wire)
    /\ checked' = FALSE
    /\ UNCHANGED <<serviceVars, shown, workerVars, passed>>

\* It is stale; or refused for a reason of the provider's own, before its check
\* or after.
Refuse ==
    /\ wire # << >>
    /\ LET r == Head(wire) IN
        /\ r.kind = "SystemAction"
        /\ Post([result |-> IF checked \/ Fresh(r.action) THEN "refused"
                            ELSE "stale"])
    /\ wire' = Tail(wire)
    /\ checked' = FALSE
    /\ UNCHANGED <<serviceVars, shown, workerVars, passed, effectVars>>

GetSystem ==
    /\ wire # << >>
    /\ Head(wire).kind = "GetSystem"
    /\ Post([result |-> "ok", snapshot |-> Snapshot])
    /\ wire' = Tail(wire)
    /\ UNCHANGED <<serviceVars, shown, workerVars, checkVars, effectVars>>

Wm == Validate \/ Serve \/ Refuse \/ GetSystem

-----------------------------------------------------------------------------
(* The worker: execute_with_calls. *)

SystemAction(m, action) ==
    [kind |-> "SystemAction", mutation |-> m, action |-> action]

\* The user acts on the snapshot it was shown, and the worker takes the action.
Take(p) ==
    /\ phase = "idle"
    /\ asked < MaxMutations
    /\ LET action == [provider |-> p, generation |-> shown.gen[p],
                      revision |-> shown.revision]
       IN  /\ wanted' = Append(wanted, action)
           /\ wire' = Append(wire, SystemAction(asked + 1, action))
    /\ asked' = asked + 1
    /\ phase' = "first"
    /\ UNCHANGED <<serviceVars, shown, reply, checkVars, effectVars, answers>>

\* What the call returns of a reply.
Told(result) ==
    IF Flattened /\ result # "ok" THEN "unavailable" ELSE result

\* The answer to the user: stale is a refusal too.
Done(outcome) ==
    /\ phase' = "idle"
    /\ answers' = [answers EXCEPT ![asked] = IF outcome = "stale" THEN "refused"
                                             ELSE outcome]
    /\ UNCHANGED wire

AnyError(outcome) == outcome # "ok"
IsStaleRevision(outcome) == outcome = "stale"

\* The first call returned.
FirstReturns ==
    /\ phase = "first"
    /\ reply # None
    /\ LET outcome == Told(reply.result)
       IN  IF IsStaleRevision(outcome)
           THEN /\ phase' = "refetch"
                /\ wire' = Append(wire, [kind |-> "GetSystem"])
                /\ UNCHANGED answers
           ELSE Done(outcome)
    /\ reply' = None
    /\ UNCHANGED <<serviceVars, shown, asked, wanted, checkVars, effectVars>>

\* retryable_system_action: the generation the action carries is the one of the
\* fresh snapshot.
Retryable(action, snapshot) ==
    action.provider \in Guarded
        => action.generation = snapshot.gen[action.provider]

\* GetSystem returned: the same action under the fresh revision, or the first
\* outcome.
RefetchReturns ==
    /\ phase = "refetch"
    /\ reply # None
    /\ IF reply.result = "ok" /\ Retryable(wanted[asked], reply.snapshot)
       THEN /\ phase' = "second"
            /\ wire' = Append(wire,
                  SystemAction(asked, [wanted[asked] EXCEPT
                                          !.revision = reply.snapshot.revision]))
            /\ UNCHANGED answers
       ELSE Done("stale")
    /\ reply' = None
    /\ UNCHANGED <<serviceVars, shown, asked, wanted, checkVars, effectVars>>

SecondAgain ==
    /\ phase = "second"
    /\ reply # None
    /\ LET outcome == Told(reply.result)
       IN  IF IsStaleRevision(outcome)
           THEN /\ phase' = "refetch"
                /\ wire' = Append(wire, [kind |-> "GetSystem"])
                /\ UNCHANGED answers
           ELSE Done(outcome)
    /\ reply' = None
    /\ UNCHANGED <<serviceVars, shown, asked, wanted, checkVars, effectVars>>

\* The second call's outcome stands, whatever it is.
SecondReturns ==
    /\ phase = "second"
    /\ reply # None
    /\ Done(Told(reply.result))
    /\ reply' = None
    /\ UNCHANGED <<serviceVars, shown, asked, wanted, checkVars, effectVars>>

\* Ten seconds without a reply, and the message stays with the WM; or nobody
\* owns the WM's name, and what was sent to it is gone.
CallFails ==
    /\ Waiting
    /\ reply' = [result |-> "unavailable"]
    /\ \/ UNCHANGED <<wire, checked>>
       \/ wire' = << >> /\ checked' = FALSE
    /\ UNCHANGED <<serviceVars, shown, workerVars, passed, effectVars>>

Worker == FirstReturns \/ RefetchReturns \/ SecondReturns \/ CallFails

Next ==
    \/ \E p \in Providers : Rotate(p) \/ Update(p) \/ Take(p)
    \/ Show
    \/ Wm
    \/ Worker

\* A call of the worker returns, and the worker runs on.
Spec == Init /\ [][Next]_vars /\ WF_vars(Worker)

-----------------------------------------------------------------------------
(* Properties. *)

Generations == 0 .. MaxRotations
Revisions == 0 .. MaxRevision
Snapshots == [revision : Revisions, gen : [Providers -> Generations]]
Actions == [provider : Providers, generation : Generations, revision : Revisions]
Messages ==
    [kind : {"SystemAction"}, mutation : Mutations, action : Actions]
        \cup [kind : {"GetSystem"}]
Replies ==
    [result : {"none", "ok", "stale", "refused", "unavailable"}]
        \cup [result : {"ok"}, snapshot : Snapshots]

\* The variables have their types, and a reply is there only during a call.
TypeOK ==
    /\ actual \in [Providers -> Generations]
    /\ gen \in [Providers -> Generations]
    /\ revision \in Revisions
    /\ shown \in Snapshots
    /\ asked \in 0 .. MaxMutations
    /\ wanted \in Seq(Actions) /\ Len(wanted) = asked
    /\ phase \in {"idle", "first", "refetch", "second"}
    /\ wire \in Seq(Messages)
    /\ reply \in Replies
    /\ checked \in BOOLEAN
    /\ passed \in [Mutations -> Generations]
    /\ effects \in [Mutations -> Nat]
    /\ under \in [Mutations -> Generations]
    /\ answers \in [Mutations -> {"none", "ok", "refused", "unavailable"}]
    /\ phase = "idle" => reply = None

\* "A network secret or audio command is never replayed against a provider that
\* already rotated underneath it", however late it is read: an action for a
\* guarded provider that has its effect was last checked while the provider was
\* at the generation the user saw, and where nobody else moves that generation
\* it has its effect there too.
RightProvider ==
    \A m \in 1 .. asked :
        effects[m] > 0 /\ wanted[m].provider \in Guarded
            => /\ passed[m] = wanted[m].generation
               /\ wanted[m].provider \notin Threaded
                     => under[m] = wanted[m].generation

\* Not true: a threaded provider rotates between the check and the effect.
RightServer ==
    \A m \in 1 .. asked :
        effects[m] > 0 /\ wanted[m].provider \in Guarded
            => under[m] = wanted[m].generation

Call == INSTANCE OneCall

\* The worker implements OneCall: one effect at most, in order, and answers that
\* stay true.
ImplementsOneCall == Call!Spec

\* Every mutation is answered.
Answered == phase # "idle" ~> phase = "idle"

\* A system action whose revision went stale is not answered before the worker
\* looked at a fresh snapshot.
StaleIsRetried ==
    [][phase = "first" /\ phase' = "idle" => reply.result # "stale"]_vars
=============================================================================
