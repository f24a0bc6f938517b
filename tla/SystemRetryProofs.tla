-------------------------- MODULE SystemRetryProofs --------------------------
(***************************************************************************)
(* The worker's retry implements OneCall, and an action never takes effect *)
(* that was not checked against the provider generation the user saw: for  *)
(* every set of providers, guarded or not, on threads of their own or not, *)
(* every number of mutations, revisions and rotations, and for both ways   *)
(* of reporting errors.                                                    *)
(*                                                                         *)
(* RetryInv is inductive.  What it adds to the types is about the wire:    *)
(* messages of later mutations come later, a message that is still there   *)
(* has had no effect and no refusal, and once the worker holds a refusal,  *)
(* or looks at a fresh snapshot, no message of its mutation is left.  An   *)
(* action the WM has checked is still the first of the wire, and unless    *)
(* its provider runs on another thread the check still holds.              *)
(***************************************************************************)
EXTENDS SystemRetry, SequenceTheorems, TLAPS

IsSent(r) == r.kind = "SystemAction"
Sent(i) == IsSent(wire[i])

\* The last message belongs to the call under way.
CallOK ==
    /\ phase # "idle" => asked \in Mutations /\ answers[asked] = "none"
    /\ Waiting => wire # << >>
    /\ Waiting => IF phase = "refetch" THEN ~Sent(Len(wire))
                  ELSE Sent(Len(wire)) /\ wire[Len(wire)].mutation = asked
    /\ phase = "refetch" /\ reply.result = "ok" => reply.snapshot \in Snapshots

\* A message on the wire carries the user's action, and has not been answered
\* for good.
WireOK ==
    \A i \in 1 .. Len(wire) :
        Sent(i) =>
            /\ wire[i].mutation <= asked
            /\ wire[i].action.provider = wanted[wire[i].mutation].provider
            /\ wire[i].action.generation = wanted[wire[i].mutation].generation
            /\ answers[wire[i].mutation] \in {"none", "unavailable"}
            /\ \A n \in Mutations : n >= wire[i].mutation => effects[n] = 0

\* Messages are in the order of their mutations.
OrderOK ==
    \A i, j \in 1 .. Len(wire) :
        i < j /\ Sent(i) /\ Sent(j) => wire[i].mutation < wire[j].mutation

\* The worker knows that its mutation had no effect and has no message left.
Refused ==
    \/ phase = "refetch"
    \/ phase # "idle" /\ reply.result \in {"stale", "refused"}

\* What the worker was told is true.
ReplyOK ==
    /\ phase \in {"first", "second"} /\ reply.result = "ok" => effects[asked] = 1
    /\ Refused =>
          /\ effects[asked] = 0
          /\ \A i \in 1 .. Len(wire) : Sent(i) => wire[i].mutation # asked
    /\ \A n \in Mutations : n > asked => effects[n] = 0 /\ answers[n] = "none"

\* What the check of the first message found.
CheckOK ==
    checked =>
        /\ wire # << >> /\ Sent(1)
        /\ wire[1].action.provider \in Guarded
              => /\ passed[wire[1].mutation] = wire[1].action.generation
                 /\ wire[1].action.provider \notin Threaded
                       => actual[wire[1].action.provider] = wire[1].action.generation

RetryInv ==
    /\ TypeOK
    /\ CheckOK
    /\ CallOK
    /\ WireOK
    /\ OrderOK
    /\ ReplyOK
    /\ RightProvider

-----------------------------------------------------------------------------
(* The two ends of the wire. *)

LEMMA PopLemma ==
    ASSUME NEW w \in Seq(Messages), w # << >>
    PROVE  /\ Head(w) \in Messages /\ Head(w) = w[1]
           /\ Len(w) \in Nat \ {0}
           /\ Tail(w) \in Seq(Messages)
           /\ Len(Tail(w)) = Len(w) - 1
           /\ \A i \in 1 .. Len(Tail(w)) :
                 i \in Nat /\ i + 1 \in 1 .. Len(w) /\ Tail(w)[i] = w[i + 1]
OBVIOUS

LEMMA AppendLemma ==
    ASSUME NEW w \in Seq(Messages), NEW r \in Messages
    PROVE  /\ Append(w, r) \in Seq(Messages)
           /\ Len(w) \in Nat
           /\ Len(Append(w, r)) = Len(w) + 1
           /\ Append(w, r)[Len(w) + 1] = r
           /\ \A i \in 1 .. Len(w) : Append(w, r)[i] = w[i]
           /\ Append(w, r) # << >>
OBVIOUS

\* A SystemAction message has the fields of one.
LEMMA MessageLemma ==
    ASSUME NEW r \in Messages
    PROVE  IsSent(r) => r.mutation \in Mutations /\ r.action \in Actions
BY DEF Messages, IsSent

LEMMA SystemActionLemma ==
    ASSUME NEW n \in Mutations, NEW a \in Actions
    PROVE  /\ SystemAction(n, a) \in Messages
           /\ IsSent(SystemAction(n, a))
           /\ SystemAction(n, a).mutation = n
           /\ SystemAction(n, a).action = a
BY DEF SystemAction, Messages, IsSent

LEMMA GetSystemLemma ==
    /\ [kind |-> "GetSystem"] \in Messages
    /\ ~IsSent([kind |-> "GetSystem"])
BY DEF Messages, IsSent

\* A reply other than None has one of the four results.
LEMMA ReplyLemma ==
    ASSUME NEW r \in Replies, r # None
    PROVE  r.result \in {"ok", "stale", "refused", "unavailable"}
BY DEF Replies, None

-----------------------------------------------------------------------------
(* The types. *)

\* The variables keep their types.
LEMMA TypeStep ==
    ASSUME TypeOK, CheckOK, CallOK, [Next]_vars
    PROVE  TypeOK'
<1> USE RetryAssumption DEF TypeOK, Generations, Revisions
<1>1. ASSUME NEW p \in Providers, Rotate(p) PROVE TypeOK'
  BY <1>1 DEF Rotate, workerVars, checkVars, effectVars
<1>2. ASSUME NEW p \in Providers, Update(p) PROVE TypeOK'
  BY <1>2 DEF Update, workerVars, checkVars, effectVars
<1>3. ASSUME NEW p \in Providers, Take(p) PROVE TypeOK'
  <2> DEFINE a == [provider |-> p, generation |-> shown.gen[p],
                   revision |-> shown.revision]
  <2>1. a \in Actions /\ asked + 1 \in Mutations
    BY <1>3 DEF Take, Actions, Snapshots, Mutations
  <2>2. wire' = Append(wire, SystemAction(asked + 1, a)) /\ wanted' = Append(wanted, a)
    BY <1>3 DEF Take
  <2>3. wire' \in Seq(Messages)
    BY <2>1, <2>2, SystemActionLemma, AppendLemma
  <2>4. /\ asked' = asked + 1 /\ asked' \in 0 .. MaxMutations /\ phase' = "first"
        /\ UNCHANGED <<actual, gen, revision, shown, reply, checked, passed,
                       effects, under, answers>>
    BY <1>3 DEF Take, serviceVars, checkVars, effectVars
  <2> HIDE DEF a
  <2>5. wanted' \in Seq(Actions) /\ Len(wanted') = asked'
    <3>1. wanted \in Seq(Actions) /\ Len(wanted) = asked
      OBVIOUS
    <3> HIDE DEF TypeOK
    <3> QED
      BY <2>1, <2>2, <2>4, <3>1
  <2> QED
    BY <2>3, <2>4, <2>5
<1>4. CASE Show
  BY <1>4 DEF Show, Snapshot, Snapshots, serviceVars, workerVars, checkVars, effectVars
<1>5. CASE Validate
  <2>1. Head(wire) \in Messages /\ IsSent(Head(wire))
    BY <1>5, PopLemma DEF Validate, IsSent
  <2>2. Head(wire).mutation \in Mutations /\ Head(wire).action \in Actions
    BY <2>1, MessageLemma
  <2>3. actual[Head(wire).action.provider] \in Generations
    BY <2>2 DEF Actions
  <2> QED
    BY <1>5, <2>2, <2>3 DEF Validate, serviceVars, workerVars, effectVars
<1>6. CASE Serve \/ Refuse \/ GetSystem
  <2>1. wire # << >> /\ wire' = Tail(wire)
    BY <1>6 DEF Serve, Refuse, GetSystem, CheckOK
  <2>2. wire' \in Seq(Messages) /\ Head(wire) \in Messages /\ Head(wire) = wire[1]
    BY <2>1, PopLemma
  <2>3. reply' \in Replies
    <3>1. /\ [result |-> "ok"] \in Replies
          /\ [result |-> "stale"] \in Replies
          /\ [result |-> "refused"] \in Replies
          /\ [result |-> "ok", snapshot |-> Snapshot] \in Replies
      BY DEF Replies, Snapshot, Snapshots
    <3> QED
      BY <1>6, <3>1 DEF Serve, Refuse, GetSystem, Post
  <2>4. phase' = "idle" => reply' = None
    BY <1>6 DEF Serve, Refuse, GetSystem, Post, Waiting, workerVars
  <2>5. CASE Serve
    <3>1. Head(wire).mutation \in Mutations /\ Head(wire).action \in Actions
      BY <2>2, <2>5, MessageLemma DEF Serve, CheckOK, Sent
    <3>2. actual[Head(wire).action.provider] \in Generations
      BY <3>1 DEF Actions
    <3>3. effects' \in [Mutations -> Nat] /\ under' \in [Mutations -> Generations]
      BY <2>5, <3>1, <3>2 DEF Serve
    <3>4. /\ checked' = FALSE
          /\ UNCHANGED <<actual, gen, revision, shown, asked, wanted, phase, answers,
                         passed>>
      BY <2>5 DEF Serve, serviceVars, workerVars
    <3> QED
      BY <2>2, <2>3, <2>4, <3>3, <3>4
  <2>6. CASE Refuse \/ GetSystem
    BY <2>2, <2>3, <2>4, <2>6
    DEF Refuse, GetSystem, serviceVars, workerVars, checkVars, effectVars
  <2> QED
    BY <1>6, <2>5, <2>6
<1>7. CASE FirstReturns \/ SecondReturns
  <2>1. reply.result \in {"ok", "stale", "refused", "unavailable"}
    BY <1>7, ReplyLemma DEF FirstReturns, SecondReturns
  <2>2. Told(reply.result) \in {"ok", "stale", "refused", "unavailable"}
    BY <2>1 DEF Told
  <2>3. wire' \in Seq(Messages)
    BY <1>7, GetSystemLemma, AppendLemma DEF FirstReturns, SecondReturns, Done
  <2>4. None \in Replies
    BY DEF None, Replies
  <2>5. asked \in Mutations
    BY <1>7 DEF CallOK, FirstReturns, SecondReturns
  <2> QED
    BY <1>7, <2>2, <2>3, <2>4, <2>5
    DEF FirstReturns, SecondReturns, Done, serviceVars, checkVars, effectVars
<1>8. CASE RefetchReturns
  <2>1. None \in Replies
    BY DEF None, Replies
  <2>2. asked \in Mutations /\ wanted[asked] \in Actions
    BY <1>8 DEF CallOK, RefetchReturns, Mutations
  <2>3. CASE reply.result = "ok" /\ Retryable(wanted[asked], reply.snapshot)
    <3> DEFINE a == [wanted[asked] EXCEPT !.revision = reply.snapshot.revision]
    <3>1. a \in Actions
      BY <1>8, <2>2, <2>3 DEF CallOK, RefetchReturns, Snapshots, Actions
    <3>2. wire' = Append(wire, SystemAction(asked, a)) /\ phase' = "second" /\ answers' = answers
      BY <1>8, <2>3 DEF RefetchReturns
    <3>3. wire' \in Seq(Messages)
      BY <2>2, <3>1, <3>2, SystemActionLemma, AppendLemma
    <3> QED
      BY <1>8, <2>1, <3>2, <3>3 DEF RefetchReturns, serviceVars, checkVars, effectVars
  <2>4. CASE ~(reply.result = "ok" /\ Retryable(wanted[asked], reply.snapshot))
    BY <1>8, <2>1, <2>2, <2>4 DEF RefetchReturns, Done, serviceVars, checkVars, effectVars
  <2> QED
    BY <2>3, <2>4
<1>9. CASE CallFails
  <2>1. [result |-> "unavailable"] \in Replies
    BY DEF Replies
  <2>2. wire' \in Seq(Messages)
    <3>1. << >> \in Seq(Messages)
      OBVIOUS
    <3> QED
      BY <1>9, <3>1 DEF CallFails
  <2> QED
    BY <1>9, <2>1, <2>2 DEF CallFails, Waiting, serviceVars, workerVars, effectVars
<1>10. CASE UNCHANGED vars
  BY <1>10 DEF vars
<1> QED
  BY <1>1, <1>2, <1>3, <1>4, <1>5, <1>6, <1>7, <1>8, <1>9, <1>10
  DEF Next, Wm, Worker

-----------------------------------------------------------------------------
(* The inductive invariant, one action at a time. *)

\* A provider, the service and the user's view: the worker's part stays, and no
\* provider of the WM's own thread moves during a check.
LEMMA OutsideStep ==
    ASSUME RetryInv, TypeOK',
           UNCHANGED <<workerVars, wire, reply, checkVars, effectVars>>,
           checked => \A p \in Providers \ Threaded : actual'[p] = actual[p]
    PROVE  RetryInv'
<1>1. CallOK' /\ ReplyOK'
  BY DEF RetryInv, CallOK, ReplyOK, Refused, Waiting, Sent, IsSent, workerVars, effectVars
<1>2. WireOK' /\ OrderOK'
  BY DEF RetryInv, WireOK, OrderOK, Sent, IsSent, workerVars, effectVars
<1>3. RightProvider'
  BY DEF RetryInv, RightProvider, workerVars, checkVars, effectVars
<1>4. CheckOK'
  <2> SUFFICES ASSUME checked PROVE CheckOK'
    BY DEF CheckOK, checkVars
  <2>1. wire # << >> /\ Sent(1) /\ wire[1] \in Messages
    BY PopLemma DEF RetryInv, CheckOK, TypeOK
  <2>2. wire[1].action.provider \in Providers
    BY <2>1, MessageLemma DEF Sent, Actions
  <2> QED
    BY <2>1, <2>2 DEF RetryInv, CheckOK, Sent, IsSent, checkVars
<1> QED
  BY <1>1, <1>2, <1>3, <1>4 DEF RetryInv

\* The checks pass: what they found is noted, and the message has had no effect.
LEMMA ValidateStep ==
    ASSUME RetryInv, TypeOK', Validate
    PROVE  RetryInv'
<1> DEFINE r == Head(wire)
<1>0. /\ wire # << >> /\ IsSent(r) /\ Fresh(r.action) /\ checked' = TRUE
      /\ passed' = [passed EXCEPT ![r.mutation] = actual[r.action.provider]]
      /\ UNCHANGED <<asked, wanted, phase, answers, wire, reply, effects, under, actual>>
  BY DEF Validate, IsSent, serviceVars, workerVars, effectVars
<1>1. r \in Messages /\ r = wire[1] /\ 1 \in 1 .. Len(wire) /\ Sent(1)
  BY <1>0, PopLemma DEF RetryInv, TypeOK, Sent
<1>2. r.mutation \in Mutations /\ r.action \in Actions
  BY <1>0, <1>1, MessageLemma
<1>3. effects[r.mutation] = 0
  BY <1>1, <1>2 DEF RetryInv, WireOK, Mutations
<1>4. CallOK' /\ ReplyOK'
  BY <1>0 DEF RetryInv, CallOK, ReplyOK, Refused, Waiting, Sent, IsSent
<1>5. WireOK' /\ OrderOK'
  BY <1>0 DEF RetryInv, WireOK, OrderOK, Sent, IsSent
<1>6. r.action.provider \in Guarded => actual[r.action.provider] = r.action.generation
  BY <1>0 DEF Fresh
<1>7. CheckOK'
  <2>1. passed'[r.mutation] = actual[r.action.provider]
    BY <1>0, <1>2 DEF RetryInv, TypeOK
  <2> HIDE DEF r
  <2> QED
    BY <1>0, <1>1, <1>6, <2>1 DEF CheckOK, Sent
<1>8. RightProvider'
  <2> SUFFICES ASSUME NEW n \in 1 .. asked, effects[n] > 0, wanted[n].provider \in Guarded
               PROVE  /\ passed'[n] = wanted[n].generation
                      /\ wanted[n].provider \notin Threaded => under[n] = wanted[n].generation
    BY <1>0 DEF RightProvider
  <2>1. n \in Mutations
    BY RetryAssumption DEF RetryInv, TypeOK, Mutations
  <2>2. n # r.mutation
    BY <1>3
  <2>3. passed'[n] = passed[n]
    BY <1>0, <1>2, <2>1, <2>2 DEF RetryInv, TypeOK
  <2> QED
    BY <2>3 DEF RetryInv, RightProvider
<1> QED
  BY <1>4, <1>5, <1>7, <1>8 DEF RetryInv

\* The WM reads a message: the others keep what is known of them, unless the
\* one it read had its effect.
LEMMA PopStep ==
    ASSUME RetryInv, TypeOK', wire # << >>, wire' = Tail(wire),
           UNCHANGED <<workerVars, passed, effectVars>>
    PROVE  WireOK' /\ OrderOK' /\ RightProvider'
<1>1. \A i \in 1 .. Len(wire') :
         i \in Nat /\ i + 1 \in 1 .. Len(wire) /\ wire'[i] = wire[i + 1]
  BY PopLemma DEF RetryInv, TypeOK
<1>2. WireOK'
  BY <1>1 DEF RetryInv, WireOK, Sent, workerVars, effectVars
<1>3. OrderOK'
  <2> SUFFICES ASSUME NEW i \in 1 .. Len(wire'), NEW j \in 1 .. Len(wire'),
                      i < j, IsSent(wire'[i]), IsSent(wire'[j])
               PROVE  wire'[i].mutation < wire'[j].mutation
    BY DEF OrderOK, Sent
  <2>1. i + 1 < j + 1
    BY <1>1
  <2> QED
    BY <1>1, <2>1 DEF RetryInv, OrderOK, Sent
<1>4. RightProvider'
  BY DEF RetryInv, RightProvider, workerVars, effectVars
<1> QED
  BY <1>2, <1>3, <1>4

\* The action has its effect: it is the first of its mutation, no later one had
\* any, and no message of it is left.
LEMMA ServeStep ==
    ASSUME RetryInv, TypeOK', Serve
    PROVE  RetryInv'
<1> DEFINE r == Head(wire)
<1>0. /\ wire' = Tail(wire) /\ checked /\ checked' = FALSE /\ passed' = passed
      /\ effects' = [effects EXCEPT ![r.mutation] = @ + 1]
      /\ under' = [under EXCEPT ![r.mutation] = actual[r.action.provider]]
      /\ Post([result |-> "ok"])
      /\ asked' = asked /\ wanted' = wanted /\ phase' = phase /\ answers' = answers
  BY DEF Serve, workerVars
<1>1. /\ wire # << >> /\ r \in Messages /\ r = wire[1] /\ 1 \in 1 .. Len(wire)
      /\ Sent(1) /\ IsSent(r)
  BY <1>0, PopLemma DEF RetryInv, TypeOK, CheckOK, Sent
<1>2. /\ Len(wire') = Len(wire) - 1
      /\ \A i \in 1 .. Len(wire') :
            i \in Nat /\ i + 1 \in 1 .. Len(wire) /\ 1 < i + 1 /\ wire'[i] = wire[i + 1]
  BY <1>0, <1>1, PopLemma DEF RetryInv, TypeOK
<1>3. r.mutation \in Mutations /\ r.action \in Actions
  BY <1>1, MessageLemma
<1>4. /\ r.mutation <= asked
      /\ r.action.provider = wanted[r.mutation].provider
      /\ r.action.generation = wanted[r.mutation].generation
      /\ answers[r.mutation] \in {"none", "unavailable"}
      /\ \A n \in Mutations : n >= r.mutation => effects[n] = 0
  BY <1>1 DEF RetryInv, WireOK
<1>5. \A n \in Mutations : effects'[n] = IF n = r.mutation THEN 1 ELSE effects[n]
  BY <1>0, <1>3, <1>4 DEF RetryInv, TypeOK, Mutations
<1>6. \A i \in 1 .. Len(wire') : IsSent(wire'[i]) =>
         wire'[i].mutation \in Mutations /\ r.mutation < wire'[i].mutation
  <2> SUFFICES ASSUME NEW i \in 1 .. Len(wire'), IsSent(wire'[i])
               PROVE  wire'[i].mutation \in Mutations /\ r.mutation < wire'[i].mutation
    OBVIOUS
  <2>1. /\ i + 1 \in 1 .. Len(wire) /\ 1 < i + 1 /\ wire'[i] = wire[i + 1]
        /\ wire[i + 1] \in Messages
    BY <1>2 DEF RetryInv, TypeOK
  <2>2. Sent(i + 1)
    BY <2>1 DEF Sent
  <2>3. wire'[i].mutation \in Mutations
    BY <2>1, MessageLemma
  <2>4. wire[1].mutation < wire[i + 1].mutation
    BY <1>1, <2>1, <2>2 DEF RetryInv, OrderOK
  <2> QED
    BY <1>1, <2>1, <2>3, <2>4
<1>7. WireOK'
  <2> SUFFICES ASSUME NEW i \in 1 .. Len(wire'), IsSent(wire'[i])
               PROVE  /\ wire'[i].mutation <= asked
                      /\ wire'[i].action.provider = wanted[wire'[i].mutation].provider
                      /\ wire'[i].action.generation = wanted[wire'[i].mutation].generation
                      /\ answers[wire'[i].mutation] \in {"none", "unavailable"}
                      /\ \A n \in Mutations : n >= wire'[i].mutation => effects'[n] = 0
    BY <1>0 DEF WireOK, Sent
  <2>1. i + 1 \in 1 .. Len(wire) /\ wire'[i] = wire[i + 1] /\ Sent(i + 1)
    BY <1>2 DEF Sent
  <2>2. \A n \in Mutations : n >= wire'[i].mutation => n > r.mutation
    BY <1>3, <1>6 DEF Mutations
  <2> QED
    BY <1>5, <2>1, <2>2 DEF RetryInv, WireOK, Mutations
<1>8. OrderOK'
  <2> SUFFICES ASSUME NEW i \in 1 .. Len(wire'), NEW j \in 1 .. Len(wire'),
                      i < j, IsSent(wire'[i]), IsSent(wire'[j])
               PROVE  wire'[i].mutation < wire'[j].mutation
    BY DEF OrderOK, Sent
  <2>1. i + 1 < j + 1
    BY <1>2
  <2> QED
    BY <1>2, <2>1 DEF RetryInv, OrderOK, Sent
<1>9. RightProvider'
  <2> SUFFICES ASSUME NEW n \in 1 .. asked, effects'[n] > 0, wanted[n].provider \in Guarded
               PROVE  /\ passed[n] = wanted[n].generation
                      /\ wanted[n].provider \notin Threaded => under'[n] = wanted[n].generation
    BY <1>0 DEF RightProvider
  <2>1. n \in Mutations
    BY RetryAssumption DEF RetryInv, TypeOK, Mutations
  <2>2. CASE n = r.mutation
    <3>1. under'[n] = actual[r.action.provider]
      BY <1>0, <2>1, <2>2 DEF RetryInv, TypeOK
    <3>2. /\ r.action.provider \in Guarded /\ r.action.generation = wanted[n].generation
          /\ r.action.provider = wanted[n].provider
      BY <1>4, <2>2
    <3>3. /\ passed[n] = r.action.generation
          /\ r.action.provider \notin Threaded
                => actual[r.action.provider] = r.action.generation
      BY <1>0, <1>1, <2>2, <3>2 DEF RetryInv, CheckOK
    <3> QED
      BY <3>1, <3>2, <3>3
  <2>3. CASE n # r.mutation
    <3>1. effects[n] > 0 /\ under'[n] = under[n]
      BY <1>0, <1>3, <1>5, <2>1, <2>3 DEF RetryInv, TypeOK
    <3> QED
      BY <3>1 DEF RetryInv, RightProvider
  <2> QED
    BY <2>2, <2>3
<1>10. CASE Waiting /\ Len(wire) = 1
  <2>1. reply' = [result |-> "ok"] /\ r.mutation = asked /\ phase \in {"first", "second"}
    BY <1>0, <1>1, <1>10 DEF Post, RetryInv, CallOK, Sent, Waiting, TypeOK
  <2>2. reply'.result = "ok" /\ reply' # None
    BY <2>1 DEF None
  <2>3. CallOK'
    BY <1>0, <2>1, <2>2 DEF CallOK, Waiting, RetryInv
  <2>4. ReplyOK'
    BY <1>0, <1>3, <1>5, <2>1, <2>2 DEF ReplyOK, Refused, RetryInv, TypeOK, Mutations
  <2> QED
    BY <1>0, <1>7, <1>8, <1>9, <2>3, <2>4 DEF RetryInv, CheckOK
<1>11. CASE ~(Waiting /\ Len(wire) = 1)
  <2>1. reply' = reply /\ (Waiting' <=> Waiting)
    BY <1>0, <1>11 DEF Post, Waiting
  <2>2. Waiting => Len(wire) > 1 /\ Len(wire') \in 1 .. Len(wire')
                   /\ wire'[Len(wire')] = wire[Len(wire)] /\ wire' # << >>
    BY <1>1, <1>2, <1>11 DEF RetryInv, TypeOK
  <2>3. CallOK'
    BY <1>0, <2>1, <2>2 DEF CallOK, RetryInv, Sent
  <2>4. Refused => r.mutation # asked
    BY <1>1 DEF RetryInv, ReplyOK
  <2>5. phase \in {"first", "second"} /\ reply.result = "ok" => r.mutation # asked
    BY <1>3, <1>4 DEF RetryInv, ReplyOK
  <2>6. phase # "idle" => asked \in Mutations
    BY DEF RetryInv, CallOK
  <2>7. ReplyOK'
    <3>1. Refused' <=> Refused
      BY <1>0, <2>1 DEF Refused
    <3>2. Refused => effects'[asked] = 0
      BY <1>5, <2>4, <2>6 DEF RetryInv, ReplyOK, Refused
    <3>3. Refused => \A i \in 1 .. Len(wire') : IsSent(wire'[i]) => wire'[i].mutation # asked
      BY <1>2 DEF RetryInv, ReplyOK, Sent
    <3>4. phase \in {"first", "second"} /\ reply.result = "ok" => effects'[asked] = 1
      BY <1>5, <2>5, <2>6 DEF RetryInv, ReplyOK
    <3>5. \A n \in Mutations : n > asked => effects'[n] = 0 /\ answers[n] = "none"
      BY <1>3, <1>4, <1>5 DEF RetryInv, ReplyOK, TypeOK, Mutations
    <3> QED
      BY <1>0, <2>1, <3>1, <3>2, <3>3, <3>4, <3>5 DEF ReplyOK, Sent
  <2> QED
    BY <1>0, <1>7, <1>8, <1>9, <2>3, <2>7 DEF RetryInv, CheckOK
<1> QED
  BY <1>10, <1>11

\* A message without effect is read and answered: what the answer says is true.
LEMMA AnswerStep ==
    ASSUME RetryInv, TypeOK', Refuse \/ GetSystem
    PROVE  RetryInv'
<1> DEFINE r == Head(wire)
<1>1. /\ wire # << >> /\ wire' = Tail(wire)
      /\ UNCHANGED <<workerVars, passed, effectVars>>
      /\ asked' = asked /\ phase' = phase /\ answers' = answers /\ effects' = effects
  BY DEF Refuse, GetSystem, workerVars, checkVars, effectVars
<1>2. WireOK' /\ OrderOK' /\ RightProvider'
  BY <1>1, PopStep
<1>3. r \in Messages /\ r = wire[1] /\ 1 \in 1 .. Len(wire)
  BY <1>1, PopLemma DEF RetryInv, TypeOK
<1>4. checked' = FALSE
  BY <1>3 DEF Refuse, GetSystem, checkVars, RetryInv, CheckOK, Sent, IsSent, TypeOK
<1>5. /\ Len(wire') = Len(wire) - 1
      /\ \A i \in 1 .. Len(wire') :
            i \in Nat /\ i + 1 \in 1 .. Len(wire) /\ wire'[i] = wire[i + 1]
  BY <1>1, PopLemma DEF RetryInv, TypeOK
<1>6. CASE Waiting /\ Len(wire) = 1
  <2>1. /\ reply' # None
        /\ phase = "refetch" /\ reply'.result = "ok" => reply'.snapshot \in Snapshots
        /\ phase # "refetch" => reply'.result \in {"stale", "refused"}
    <3>1. CASE phase = "refetch"
      <4>1. GetSystem
        BY <1>3, <1>6, <3>1 DEF Refuse, RetryInv, CallOK, Sent, IsSent
      <4>2. reply' = [result |-> "ok", snapshot |-> Snapshot]
        BY <1>6, <4>1 DEF GetSystem, Post
      <4>3. Snapshot \in Snapshots
        BY DEF Snapshot, Snapshots, RetryInv, TypeOK
      <4>4. reply'.result = "ok" /\ reply'.snapshot = Snapshot
        BY <4>2
      <4> QED
        BY <3>1, <4>3, <4>4 DEF None
    <3>2. CASE phase # "refetch"
      <4>1. Refuse
        BY <1>3, <1>6, <3>2 DEF GetSystem, RetryInv, CallOK, Sent, IsSent
      <4>2. reply'.result \in {"stale", "refused"}
        BY <1>6, <4>1 DEF Refuse, Post
      <4> QED
        BY <3>2, <4>2 DEF None
    <3> QED
      BY <3>1, <3>2
  <2>2. CallOK'
    BY <1>1, <2>1 DEF CallOK, Waiting, RetryInv
  <2>3. Len(wire') = 0
    BY <1>5, <1>6
  <2>4. effects[asked] = 0
    <3>1. CASE phase = "refetch"
      BY <3>1 DEF RetryInv, ReplyOK, Refused
    <3>2. CASE phase # "refetch"
      BY <1>3, <1>6, <3>2 DEF RetryInv, CallOK, WireOK, Waiting, Mutations
    <3> QED
      BY <3>1, <3>2
  <2>5. ReplyOK'
    <3>1. phase \in {"first", "second"} => reply'.result # "ok"
      BY <2>1
    <3>2. \A i \in 1 .. Len(wire') : IsSent(wire'[i]) => wire'[i].mutation # asked
      BY <2>3
    <3>3. \A n \in Mutations : n > asked => effects[n] = 0 /\ answers[n] = "none"
      BY DEF RetryInv, ReplyOK
    <3> QED
      BY <1>1, <2>4, <3>1, <3>2, <3>3 DEF ReplyOK, Sent
  <2> QED
    BY <1>2, <1>4, <2>2, <2>5 DEF RetryInv, CheckOK
<1>7. CASE ~(Waiting /\ Len(wire) = 1)
  <2>1. reply' = reply /\ (Waiting' <=> Waiting)
    BY <1>1, <1>7 DEF Refuse, GetSystem, Post, Waiting
  <2>2. Waiting => Len(wire') \in 1 .. Len(wire')
                   /\ wire'[Len(wire')] = wire[Len(wire)] /\ wire' # << >>
    BY <1>3, <1>5, <1>7 DEF RetryInv, TypeOK
  <2>3. CallOK'
    BY <1>1, <2>1, <2>2 DEF CallOK, RetryInv, Sent
  <2>4. ReplyOK'
    <3>1. Refused' <=> Refused
      BY <1>1, <2>1 DEF Refused
    <3>2. Refused => \A i \in 1 .. Len(wire') : IsSent(wire'[i]) => wire'[i].mutation # asked
      BY <1>5 DEF RetryInv, ReplyOK, Sent
    <3> QED
      BY <1>1, <2>1, <3>1, <3>2 DEF RetryInv, ReplyOK, Sent
  <2> QED
    BY <1>2, <1>4, <2>3, <2>4 DEF RetryInv, CheckOK
<1> QED
  BY <1>6, <1>7

\* The worker sends a message: what holds of those on the wire holds of it too.
LEMMA SendStep ==
    ASSUME RetryInv, TypeOK', NEW r \in Messages,
           wire' = Append(wire, r), asked <= asked',
           \A k \in 1 .. asked : wanted'[k] = wanted[k],
           UNCHANGED <<answers, effects>>,
           IsSent(r) =>
               /\ r.mutation <= asked'
               /\ r.action.provider = wanted'[r.mutation].provider
               /\ r.action.generation = wanted'[r.mutation].generation
               /\ answers[r.mutation] = "none"
               /\ \A n \in Mutations : n >= r.mutation => effects[n] = 0
               /\ \A i \in 1 .. Len(wire) : Sent(i) => wire[i].mutation < r.mutation
    PROVE  WireOK' /\ OrderOK'
<1>1. /\ Len(wire) \in Nat /\ Len(wire') = Len(wire) + 1 /\ wire'[Len(wire) + 1] = r
      /\ \A i \in 1 .. Len(wire) : wire'[i] = wire[i]
  BY AppendLemma DEF RetryInv, TypeOK
<1>2. \A i \in 1 .. Len(wire') : i \in 1 .. Len(wire) \/ (i = Len(wire) + 1 /\ wire'[i] = r)
  BY <1>1
<1>3. WireOK'
  <2> SUFFICES ASSUME NEW i \in 1 .. Len(wire'), IsSent(wire'[i])
               PROVE  /\ wire'[i].mutation <= asked'
                      /\ wire'[i].action.provider = wanted'[wire'[i].mutation].provider
                      /\ wire'[i].action.generation = wanted'[wire'[i].mutation].generation
                      /\ answers[wire'[i].mutation] \in {"none", "unavailable"}
                      /\ \A n \in Mutations : n >= wire'[i].mutation => effects[n] = 0
    BY DEF WireOK, Sent
  <2>1. CASE i \in 1 .. Len(wire)
    <3>1. wire'[i] = wire[i] /\ Sent(i)
      BY <1>1, <2>1 DEF Sent
    <3>2. wire[i] \in Messages
      BY <2>1 DEF RetryInv, TypeOK
    <3>3. wire[i].mutation \in Mutations
      BY <3>1, <3>2, MessageLemma DEF Sent
    <3>4. wire[i].mutation <= asked /\ wire[i].mutation \in 1 .. asked
      BY <2>1, <3>1, <3>3 DEF RetryInv, WireOK, TypeOK, Mutations
    <3>5. wanted'[wire[i].mutation] = wanted[wire[i].mutation] /\ wire[i].mutation <= asked'
      BY <3>4, RetryAssumption DEF RetryInv, TypeOK
    <3> QED
      BY <2>1, <3>1, <3>5 DEF RetryInv, WireOK
  <2>2. CASE wire'[i] = r
    BY <2>2
  <2> QED
    BY <1>2, <2>1, <2>2
<1>4. OrderOK'
  <2> SUFFICES ASSUME NEW i \in 1 .. Len(wire'), NEW j \in 1 .. Len(wire'),
                      i < j, IsSent(wire'[i]), IsSent(wire'[j])
               PROVE  wire'[i].mutation < wire'[j].mutation
    BY DEF OrderOK, Sent
  <2>1. i \in 1 .. Len(wire) /\ wire'[i] = wire[i] /\ Sent(i)
    BY <1>1, <1>2 DEF Sent
  <2>2. CASE j \in 1 .. Len(wire)
    BY <1>1, <2>1, <2>2 DEF RetryInv, OrderOK, Sent
  <2>3. CASE wire'[j] = r
    BY <2>1, <2>3
  <2> QED
    BY <1>2, <2>2, <2>3
<1> QED
  BY <1>3, <1>4

\* Nothing the worker adds to the end of the wire disturbs a check.
LEMMA KeepStep ==
    ASSUME RetryInv, NEW r \in Messages, wire' = Append(wire, r),
           UNCHANGED <<checked, passed, actual>>
    PROVE  CheckOK'
<1> SUFFICES ASSUME checked PROVE CheckOK'
  BY DEF CheckOK
<1>1. wire # << >> /\ 1 \in 1 .. Len(wire)
  BY PopLemma DEF RetryInv, CheckOK, TypeOK
<1>2. wire' # << >> /\ wire'[1] = wire[1]
  BY <1>1, AppendLemma DEF RetryInv, TypeOK
<1> QED
  BY <1>2 DEF RetryInv, CheckOK, Sent, IsSent

\* The worker takes an action: it is the last one asked for.
LEMMA TakeStep ==
    ASSUME RetryInv, TypeOK', NEW p \in Providers, Take(p)
    PROVE  RetryInv'
<1> DEFINE a == [provider |-> p, generation |-> shown.gen[p], revision |-> shown.revision]
           r == SystemAction(asked + 1, a)
<1>1. /\ phase = "idle" /\ reply = None /\ reply' = None /\ phase' = "first"
      /\ asked' = asked + 1 /\ wanted' = Append(wanted, a) /\ wire' = Append(wire, r)
      /\ UNCHANGED <<answers, effects, under, checked, passed, actual>>
  BY DEF Take, serviceVars, checkVars, effectVars, RetryInv, TypeOK
<1>2. asked \in Nat /\ asked + 1 \in Mutations /\ a \in Actions
  BY RetryAssumption
  DEF Take, RetryInv, TypeOK, Mutations, Actions, Snapshots, Generations, Revisions
<1>3. r \in Messages /\ IsSent(r) /\ r.mutation = asked + 1 /\ r.action = a
  BY <1>2, SystemActionLemma
<1>4. /\ wanted'[asked + 1] = a
      /\ \A k \in 1 .. asked : wanted'[k] = wanted[k]
  BY <1>1, <1>2 DEF RetryInv, TypeOK
<1>5. /\ answers[asked + 1] = "none"
      /\ \A n \in Mutations : n > asked => effects[n] = 0 /\ answers[n] = "none"
  BY <1>2 DEF RetryInv, ReplyOK
<1>6. WireOK' /\ OrderOK'
  <2>1. \A i \in 1 .. Len(wire) : Sent(i) => wire[i].mutation < r.mutation
    <3> SUFFICES ASSUME NEW i \in 1 .. Len(wire), Sent(i)
                 PROVE  wire[i].mutation < r.mutation
      OBVIOUS
    <3>1. wire[i].mutation \in Mutations
      BY MessageLemma DEF RetryInv, TypeOK, Sent
    <3> QED
      BY <1>2, <1>3, <3>1 DEF RetryInv, WireOK, Mutations
  <2>2. \A n \in Mutations : n >= r.mutation => effects[n] = 0
    BY <1>2, <1>3, <1>5 DEF Mutations
  <2>3. /\ r.mutation <= asked'
        /\ r.action.provider = wanted'[r.mutation].provider
        /\ r.action.generation = wanted'[r.mutation].generation
        /\ answers[r.mutation] = "none"
    <3>1. wanted'[r.mutation] = a
      BY <1>3, <1>4
    <3>2. a.provider = r.action.provider /\ a.generation = r.action.generation
      BY <1>3
    <3>3. r.mutation <= asked' /\ answers[r.mutation] = "none"
      BY <1>1, <1>2, <1>3, <1>5
    <3> HIDE DEF r, a
    <3> QED
      BY <3>1, <3>2, <3>3
  <2>4. asked <= asked' /\ UNCHANGED <<answers, effects>> /\ wire' = Append(wire, r)
    BY <1>1, <1>2
  <2> HIDE DEF r, a
  <2> QED
    BY <1>3, <1>4, <2>1, <2>2, <2>3, <2>4, SendStep
<1>7. /\ Len(wire) \in Nat /\ Len(wire') = Len(wire) + 1
      /\ wire'[Len(wire')] = r /\ wire' # << >>
  BY <1>1, <1>3, AppendLemma DEF RetryInv, TypeOK
<1>8. CallOK'
  BY <1>1, <1>2, <1>3, <1>5, <1>7 DEF CallOK, Sent
<1>9. ReplyOK'
  <2>1. None.result = "none"
    BY DEF None
  <2>2. \A n \in Mutations : n > asked' => effects'[n] = 0 /\ answers'[n] = "none"
    BY <1>1, <1>2, <1>5 DEF Mutations
  <2> HIDE DEF r, a
  <2> QED
    BY <1>1, <2>1, <2>2 DEF ReplyOK, Refused
<1>10. RightProvider'
  <2> SUFFICES ASSUME NEW n \in 1 .. asked', effects[n] > 0, wanted'[n].provider \in Guarded
               PROVE  /\ passed[n] = wanted'[n].generation
                      /\ wanted'[n].provider \notin Threaded => under[n] = wanted'[n].generation
    BY <1>1 DEF RightProvider
  <2>1. n # asked + 1
    BY <1>2, <1>5
  <2>2. n \in 1 .. asked
    BY <1>1, <1>2, <2>1
  <2> QED
    BY <1>4, <2>2 DEF RetryInv, RightProvider
<1>11. CheckOK'
  BY <1>1, <1>3, KeepStep
<1> QED
  BY <1>6, <1>8, <1>9, <1>10, <1>11 DEF RetryInv

\* The worker answers: nothing of a refused or served mutation is on the wire.
LEMMA DoneStep ==
    ASSUME RetryInv, TypeOK', phase # "idle", reply' = None,
           NEW outcome \in {"ok", "stale", "refused", "unavailable"}, Done(outcome),
           UNCHANGED <<asked, wanted, checkVars, actual, effectVars>>,
           outcome \in {"stale", "refused"} => Refused,
           outcome = "ok" => effects[asked] = 1
    PROVE  RetryInv'
<1> DEFINE told == IF outcome = "stale" THEN "refused" ELSE outcome
<1>1. /\ phase' = "idle" /\ wire' = wire
      /\ answers' = [answers EXCEPT ![asked] = told]
      /\ asked' = asked /\ wanted' = wanted /\ effects' = effects /\ under' = under
      /\ UNCHANGED <<checked, passed, actual>>
  BY DEF Done, checkVars, effectVars
<1>2. asked \in Mutations /\ answers[asked] = "none"
  BY DEF RetryInv, CallOK
<1>3. \A n \in Mutations : n # asked => answers'[n] = answers[n]
  BY <1>1 DEF RetryInv, TypeOK
<1>4. answers'[asked] = told
  BY <1>1, <1>2 DEF RetryInv, TypeOK
<1>5. \A i \in 1 .. Len(wire) : Sent(i) =>
         wire[i].mutation \in Mutations
            /\ (wire[i].mutation = asked => told = "unavailable")
  <2> SUFFICES ASSUME NEW i \in 1 .. Len(wire), Sent(i)
               PROVE  wire[i].mutation \in Mutations
                         /\ (wire[i].mutation = asked => told = "unavailable")
    OBVIOUS
  <2>1. wire[i].mutation \in Mutations
    BY MessageLemma DEF RetryInv, TypeOK, Sent
  <2>2. wire[i].mutation = asked => effects[asked] = 0
    BY <1>2 DEF RetryInv, WireOK, Mutations
  <2>3. wire[i].mutation = asked => ~Refused
    BY DEF RetryInv, ReplyOK
  <2> QED
    BY <2>1, <2>2, <2>3
<1>6. WireOK'
  BY <1>1, <1>3, <1>4, <1>5 DEF RetryInv, WireOK, Sent
<1>7. OrderOK' /\ RightProvider'
  BY <1>1 DEF RetryInv, OrderOK, RightProvider, Sent
<1>8. CallOK'
  BY <1>1 DEF CallOK, Waiting
<1>9. ReplyOK'
  BY <1>1, <1>2, <1>3 DEF RetryInv, ReplyOK, Refused, TypeOK, Mutations
<1>10. CheckOK'
  BY <1>1 DEF RetryInv, CheckOK, Sent, IsSent
<1> QED
  BY <1>6, <1>7, <1>8, <1>9, <1>10 DEF RetryInv

\* The first call returned.
LEMMA FirstStep ==
    ASSUME RetryInv, TypeOK', FirstReturns
    PROVE  RetryInv'
<1> DEFINE outcome == Told(reply.result)
           r == [kind |-> "GetSystem"]
<1>1. /\ phase = "first" /\ reply # None /\ reply' = None
      /\ UNCHANGED <<asked, wanted, checkVars, actual, effectVars>>
  BY DEF FirstReturns, serviceVars
<1>2. reply.result \in {"ok", "stale", "refused", "unavailable"}
  BY <1>1, ReplyLemma DEF RetryInv, TypeOK
<1>3. /\ outcome \in {"ok", "stale", "refused", "unavailable"}
      /\ outcome \in {"ok", "stale", "refused"} => reply.result = outcome
  BY <1>2 DEF Told
<1>4. outcome \in {"stale", "refused"} => Refused
  BY <1>1, <1>3 DEF Refused
<1>5. CASE outcome = "stale"
  <2>1. phase' = "refetch" /\ wire' = Append(wire, r) /\ UNCHANGED answers
    BY <1>5 DEF FirstReturns, IsStaleRevision
  <2>2. r \in Messages /\ ~IsSent(r)
    BY GetSystemLemma
  <2>3. asked <= asked' /\ UNCHANGED <<answers, effects>> /\ UNCHANGED <<asked, wanted, under, checked, passed, actual>>
    BY <1>1, <2>1, RetryAssumption DEF checkVars, effectVars, RetryInv, TypeOK
  <2>4. /\ Len(wire) \in Nat /\ Len(wire') = Len(wire) + 1
        /\ wire'[Len(wire')] = r /\ wire' # << >>
        /\ \A i \in 1 .. Len(wire) : wire'[i] = wire[i]
    <3> HIDE DEF r
    <3>1. wire \in Seq(Messages)
      BY DEF RetryInv, TypeOK
    <3> QED
      BY <2>1, <2>2, <3>1, AppendLemma
  <2> HIDE DEF r
  <2>5. WireOK' /\ OrderOK'
    BY <2>1, <2>2, <2>3, SendStep
  <2>6. None.result = "none"
    BY DEF None
  <2>7. CallOK'
    BY <1>1, <2>1, <2>2, <2>3, <2>4, <2>6 DEF RetryInv, CallOK, Waiting, Sent
  <2>8. ReplyOK'
    <3>1. effects[asked] = 0 /\ \A i \in 1 .. Len(wire) : Sent(i) => wire[i].mutation # asked
      BY <1>4, <1>5 DEF RetryInv, ReplyOK
    <3>2. \A i \in 1 .. Len(wire') : IsSent(wire'[i]) => wire'[i].mutation # asked
      <4> SUFFICES ASSUME NEW i \in 1 .. Len(wire'), IsSent(wire'[i])
                   PROVE  wire'[i].mutation # asked
        OBVIOUS
      <4>1. i \in 1 .. Len(wire)
        BY <2>2, <2>4
      <4> QED
        BY <2>4, <3>1, <4>1 DEF Sent
    <3>3. \A n \in Mutations : n > asked => effects[n] = 0 /\ answers[n] = "none"
      BY DEF RetryInv, ReplyOK
    <3> QED
      BY <2>1, <2>3, <3>1, <3>2, <3>3 DEF ReplyOK, Sent
  <2>9. RightProvider'
    BY <2>3 DEF RetryInv, RightProvider
  <2>10. CheckOK'
    BY <2>1, <2>2, <2>3, KeepStep
  <2> QED
    BY <2>5, <2>7, <2>8, <2>9, <2>10 DEF RetryInv
<1>6. CASE outcome # "stale"
  <2>1. Done(outcome)
    BY <1>6 DEF FirstReturns, IsStaleRevision
  <2>2. outcome = "ok" => effects[asked] = 1
    BY <1>1, <1>3 DEF RetryInv, ReplyOK
  <2> HIDE DEF outcome
  <2> QED
    BY <1>1, <1>3, <1>4, <2>1, <2>2, DoneStep
<1> QED
  BY <1>5, <1>6

\* GetSystem returned.
LEMMA RefetchStep ==
    ASSUME RetryInv, TypeOK', RefetchReturns
    PROVE  RetryInv'
<1>1. /\ phase = "refetch" /\ reply # None /\ reply' = None
      /\ UNCHANGED <<asked, wanted, checkVars, actual, effectVars>>
  BY DEF RefetchReturns, serviceVars
<1>2. Refused /\ asked \in Mutations /\ answers[asked] = "none"
  BY <1>1 DEF Refused, RetryInv, CallOK
<1>3. CASE reply.result = "ok" /\ Retryable(wanted[asked], reply.snapshot)
  <2> DEFINE a == [wanted[asked] EXCEPT !.revision = reply.snapshot.revision]
             r == SystemAction(asked, a)
  <2>1. phase' = "second" /\ wire' = Append(wire, r) /\ UNCHANGED answers
    BY <1>3 DEF RefetchReturns
  <2>2. wanted[asked] \in Actions
    BY <1>2 DEF RetryInv, TypeOK, Mutations
  <2>3. /\ a \in Actions /\ a.provider = wanted[asked].provider
        /\ a.generation = wanted[asked].generation
    BY <1>1, <1>3, <2>2 DEF RetryInv, CallOK, Snapshots, Actions
  <2> HIDE DEF a
  <2>4. r \in Messages /\ IsSent(r) /\ r.mutation = asked /\ r.action = a
    BY <1>2, <2>3, SystemActionLemma
  <2> HIDE DEF r
  <2>5. /\ effects[asked] = 0
        /\ \A i \in 1 .. Len(wire) : Sent(i) => wire[i].mutation # asked
        /\ \A n \in Mutations : n > asked => effects[n] = 0 /\ answers[n] = "none"
    BY <1>2 DEF RetryInv, ReplyOK
  <2>6. asked <= asked' /\ UNCHANGED <<answers, effects>> /\ UNCHANGED <<asked, wanted, under, checked, passed, actual>>
    BY <1>1, <2>1, RetryAssumption DEF checkVars, effectVars, RetryInv, TypeOK
  <2>7. \A i \in 1 .. Len(wire) : Sent(i) => wire[i].mutation < r.mutation
    <3> SUFFICES ASSUME NEW i \in 1 .. Len(wire), Sent(i)
                 PROVE  wire[i].mutation < asked
      BY <2>4
    <3>1. wire[i].mutation \in Mutations
      BY MessageLemma DEF RetryInv, TypeOK, Sent
    <3> QED
      BY <1>2, <2>5, <3>1 DEF RetryInv, WireOK, Mutations
  <2>8. WireOK' /\ OrderOK'
    <3>1. \A n \in Mutations : n >= r.mutation => effects[n] = 0
      BY <1>2, <2>4, <2>5 DEF Mutations
    <3>2. /\ r.mutation <= asked'
          /\ r.action.provider = wanted'[r.mutation].provider
          /\ r.action.generation = wanted'[r.mutation].generation
          /\ answers[r.mutation] = "none"
      BY <1>2, <2>3, <2>4, <2>6
    <3>3. \A k \in 1 .. asked : wanted'[k] = wanted[k]
      BY <2>6
    <3> QED
      BY <2>1, <2>4, <2>6, <2>7, <3>1, <3>2, <3>3, SendStep
  <2>9. /\ Len(wire') = Len(wire) + 1 /\ wire'[Len(wire')] = r /\ wire' # << >>
    <3>1. wire \in Seq(Messages)
      BY DEF RetryInv, TypeOK
    <3> QED
      BY <2>1, <2>4, <3>1, AppendLemma
  <2>10. CallOK'
    BY <1>2, <2>1, <2>4, <2>6, <2>9 DEF CallOK, Sent
  <2>11. ReplyOK'
    <3>1. None.result = "none"
      BY DEF None
    <3> QED
      BY <1>1, <2>1, <2>5, <2>6, <3>1 DEF ReplyOK, Refused
  <2>12. RightProvider'
    BY <2>6 DEF RetryInv, RightProvider
  <2>13. CheckOK'
    BY <2>1, <2>4, <2>6, KeepStep
  <2> QED
    BY <2>8, <2>10, <2>11, <2>12, <2>13 DEF RetryInv
<1>4. CASE ~(reply.result = "ok" /\ Retryable(wanted[asked], reply.snapshot))
  <2>1. Done("stale")
    BY <1>4 DEF RefetchReturns
  <2> QED
    BY <1>1, <1>2, <2>1, DoneStep
<1> QED
  BY <1>3, <1>4

\* The second call returned.
LEMMA SecondStep ==
    ASSUME RetryInv, TypeOK', SecondReturns
    PROVE  RetryInv'
<1> DEFINE outcome == Told(reply.result)
<1>1. /\ phase = "second" /\ reply # None /\ reply' = None /\ Done(outcome)
      /\ UNCHANGED <<asked, wanted, checkVars, actual, effectVars>>
  BY DEF SecondReturns, serviceVars
<1>2. reply.result \in {"ok", "stale", "refused", "unavailable"}
  BY <1>1, ReplyLemma DEF RetryInv, TypeOK
<1>3. /\ outcome \in {"ok", "stale", "refused", "unavailable"}
      /\ outcome \in {"ok", "stale", "refused"} => reply.result = outcome
  BY <1>2 DEF Told
<1>4. outcome \in {"stale", "refused"} => Refused
  BY <1>1, <1>3 DEF Refused
<1>5. outcome = "ok" => effects[asked] = 1
  BY <1>1, <1>3 DEF RetryInv, ReplyOK
<1> HIDE DEF outcome
<1> QED
  BY <1>1, <1>3, <1>4, <1>5, DoneStep

\* A call fails: its message stays, or all that was sent is gone.
LEMMA FailStep ==
    ASSUME RetryInv, TypeOK', CallFails
    PROVE  RetryInv'
<1>1. /\ phase # "idle" /\ reply = None
      /\ (wire' = wire /\ checked' = checked) \/ (wire' = << >> /\ checked' = FALSE)
      /\ UNCHANGED <<asked, wanted, phase, answers, passed, effects, under, actual>>
  BY DEF CallFails, Waiting, serviceVars, workerVars, effectVars
<1>2. reply' # None /\ reply'.result = "unavailable" /\ None.result = "none"
  BY DEF CallFails, None
<1>3. CASE wire' = wire /\ checked' = checked
  <2>1. WireOK' /\ OrderOK' /\ RightProvider'
    BY <1>1, <1>3 DEF RetryInv, WireOK, OrderOK, RightProvider, Sent
  <2>2. CallOK'
    BY <1>1, <1>2 DEF RetryInv, CallOK, Waiting
  <2>3. ReplyOK'
    BY <1>1, <1>2, <1>3 DEF RetryInv, ReplyOK, Refused, Sent
  <2>4. CheckOK'
    BY <1>1, <1>3 DEF RetryInv, CheckOK, Sent, IsSent
  <2> QED
    BY <2>1, <2>2, <2>3, <2>4 DEF RetryInv
<1>4. CASE wire' = << >> /\ checked' = FALSE
  <2>1. WireOK' /\ OrderOK' /\ RightProvider'
    BY <1>1, <1>4 DEF RetryInv, WireOK, OrderOK, RightProvider
  <2>2. CallOK'
    BY <1>1, <1>2 DEF RetryInv, CallOK, Waiting
  <2>3. ReplyOK'
    BY <1>1, <1>2, <1>4 DEF RetryInv, ReplyOK, Refused
  <2>4. CheckOK'
    BY <1>1, <1>4 DEF RetryInv, CheckOK, Sent, IsSent
  <2> QED
    BY <2>1, <2>2, <2>3, <2>4 DEF RetryInv
<1> QED
  BY <1>1, <1>3, <1>4

-----------------------------------------------------------------------------
(* The theorems. *)

\* RetryInv holds of the initial state.
LEMMA RetryInit == Init => RetryInv
<1> SUFFICES ASSUME Init PROVE RetryInv
  OBVIOUS
<1>1. None \in Replies /\ None.result = "none"
  BY DEF None, Replies
<1>2. << >> \in Seq(Messages) /\ << >> \in Seq(Actions)
  OBVIOUS
<1>3. TypeOK
  <2>1. 0 \in Generations /\ 0 \in Revisions /\ 0 \in 0 .. MaxMutations
    BY RetryAssumption DEF Generations, Revisions
  <2>2. shown \in Snapshots
    BY <2>1 DEF Init, Snapshot, Snapshots
  <2>3. wanted = << >> /\ Len(wanted) = 0
    BY DEF Init
  <2> QED
    BY <1>1, <1>2, <2>1, <2>2, <2>3 DEF Init, TypeOK
<1>4. CallOK /\ WireOK /\ OrderOK /\ RightProvider /\ CheckOK
  BY DEF Init, CheckOK, CallOK, WireOK, OrderOK, RightProvider, Waiting
<1>5. ReplyOK
  BY <1>1 DEF Init, ReplyOK, Refused
<1> QED
  BY <1>3, <1>4, <1>5 DEF RetryInv

\* Every step keeps RetryInv.
LEMMA RetryStep == RetryInv /\ [Next]_vars => RetryInv'
<1> SUFFICES ASSUME RetryInv, [Next]_vars PROVE RetryInv'
  OBVIOUS
<1>1. TypeOK'
  BY TypeStep DEF RetryInv
<1>2. ASSUME NEW p \in Providers, Rotate(p) \/ Update(p) PROVE RetryInv'
  <2>1. \A q \in Providers : q # p => actual'[q] = actual[q]
    BY <1>2 DEF Rotate, Update, RetryInv, TypeOK
  <2>2. checked => \A q \in Providers \ Threaded : actual'[q] = actual[q]
    BY <1>2, <2>1 DEF Rotate, Update
  <2> QED
    BY <1>1, <1>2, <2>2, OutsideStep DEF Rotate, Update
<1>3. CASE Show \/ UNCHANGED vars
  BY <1>1, <1>3, OutsideStep
  DEF Show, vars, serviceVars, workerVars, checkVars, effectVars
<1>4. ASSUME NEW p \in Providers, Take(p) PROVE RetryInv'
  BY <1>1, <1>4, TakeStep
<1>5. CASE Wm
  BY <1>1, <1>5, ValidateStep, ServeStep, AnswerStep DEF Wm
<1>6. CASE Worker
  BY <1>1, <1>6, FirstStep, RefetchStep, SecondStep, FailStep DEF Worker
<1> QED
  BY <1>2, <1>3, <1>4, <1>5, <1>6 DEF Next

\* What RetryInv says of wire, call and answers holds in every reachable state.
THEOREM RetryInvariance == Spec => []RetryInv
BY RetryInit, RetryStep, PTL DEF Spec

\* The variables have their types, and no reply outlives its call.
THEOREM RetryTypeCorrect == Spec => []TypeOK
<1>1. RetryInv => TypeOK
  BY DEF RetryInv
<1> QED
  BY RetryInvariance, <1>1, PTL

\* A guarded provider acts only on a check against the generation the user saw,
\* and if it runs on the WM's thread under that generation, whenever the request
\* is read.
THEOREM NeverReplayed == Spec => []RightProvider
<1>1. RetryInv => RightProvider
  BY DEF RetryInv
<1> QED
  BY RetryInvariance, <1>1, PTL

\* Serve executes a mutation, Done answers one, Take asks for one; every other
\* step is invisible to the user.
THEOREM RetryRefinement == Spec => ImplementsOneCall
<1>1. Init => Call!Init
  BY DEF Init, Call!Init
<1>2. ASSUME RetryInv, RetryInv', [Next]_vars
      PROVE  [Call!Next]_Call!vars
  <2>1. ASSUME NEW p \in Providers, Take(p)
        PROVE  Call!Ask
    <3>1. TypeOK'
      BY <1>2 DEF RetryInv
    <3>2. asked' = asked + 1 /\ asked' \in 0 .. MaxMutations /\ asked \in 0 .. MaxMutations
      BY <1>2, <2>1, <3>1 DEF Take, RetryInv, TypeOK
    <3> QED
      BY <2>1, <3>2, RetryAssumption DEF Take, Call!Ask, Mutations, effectVars
  <2>2. CASE Serve
    <3> DEFINE n == Head(wire).mutation
    <3>1. Head(wire) = wire[1] /\ 1 \in 1 .. Len(wire) /\ Head(wire) \in Messages
      BY <1>2, <2>2, PopLemma DEF Serve, RetryInv, TypeOK, CheckOK
    <3>2. IsSent(Head(wire)) /\ n \in Mutations
      BY <1>2, <2>2, <3>1, MessageLemma DEF Serve, RetryInv, CheckOK, Sent
    <3>3. /\ n <= asked /\ answers[n] \in {"none", "unavailable"}
          /\ \A k \in Mutations : k >= n => effects[k] = 0
      BY <1>2, <3>1, <3>2 DEF RetryInv, WireOK, Sent
    <3>4. effects[n] = 0
      BY <3>2, <3>3 DEF Mutations
    <3>5. effects' = [effects EXCEPT ![n] = 1]
      BY <2>2, <3>4 DEF Serve
    <3>6. asked' = asked /\ answers' = answers
      BY <2>2 DEF Serve, workerVars
    <3>7. Call!Execute(n)
      BY <3>3, <3>5, <3>6 DEF Call!Execute
    <3> QED
      BY <3>2, <3>7 DEF Call!Next
  <2>3. ASSUME NEW outcome \in {"ok", "stale", "refused", "unavailable"}, Done(outcome),
               phase # "idle", UNCHANGED <<asked, effectVars>>,
               outcome \in {"stale", "refused"} => Refused,
               outcome = "ok" => effects[asked] = 1
        PROVE  Call!Next
    <3> DEFINE told == IF outcome = "stale" THEN "refused" ELSE outcome
    <3>1. asked \in Mutations /\ answers[asked] = "none"
      BY <1>2, <2>3 DEF RetryInv, CallOK
    <3>2. told = "refused" => effects[asked] = 0
      BY <1>2, <2>3 DEF RetryInv, ReplyOK
    <3>3. told \in {"ok", "refused", "unavailable"} /\ (told = "ok" => effects[asked] = 1)
      BY <2>3
    <3>4. /\ answers' = [answers EXCEPT ![asked] = told]
          /\ asked' = asked /\ effects' = effects /\ asked <= asked
      BY <2>3, <3>1 DEF Done, effectVars, Mutations
    <3> HIDE DEF told
    <3>5. Call!Answer(asked, told)
      BY <3>1, <3>2, <3>3, <3>4 DEF Call!Answer
    <3> QED
      BY <3>1, <3>3, <3>5 DEF Call!Next
  <2>4. CASE FirstReturns \/ SecondReturns
    <3> DEFINE outcome == Told(reply.result)
    <3>1. phase \in {"first", "second"} /\ reply # None /\ UNCHANGED <<asked, effectVars>>
      BY <2>4 DEF FirstReturns, SecondReturns
    <3>2. reply.result \in {"ok", "stale", "refused", "unavailable"}
      BY <1>2, <3>1, ReplyLemma DEF RetryInv, TypeOK
    <3>3. /\ outcome \in {"ok", "stale", "refused", "unavailable"}
          /\ outcome \in {"ok", "stale", "refused"} => reply.result = outcome
      BY <3>2 DEF Told
    <3>4. Done(outcome) \/ UNCHANGED answers
      BY <2>4 DEF FirstReturns, SecondReturns
    <3>5. outcome \in {"stale", "refused"} => Refused
      BY <3>1, <3>3 DEF Refused
    <3>6. outcome = "ok" => effects[asked] = 1
      BY <1>2, <3>1, <3>3 DEF RetryInv, ReplyOK
    <3> HIDE DEF outcome
    <3>7. CASE Done(outcome)
      BY <2>3, <3>1, <3>3, <3>5, <3>6, <3>7
    <3>8. CASE UNCHANGED answers
      BY <3>1, <3>8 DEF effectVars, Call!vars
    <3> QED
      BY <3>4, <3>7, <3>8
  <2>5. CASE RefetchReturns
    <3>1. phase = "refetch" /\ UNCHANGED <<asked, effectVars>> /\ Refused
      BY <2>5 DEF RefetchReturns, Refused
    <3>2. Done("stale") \/ UNCHANGED answers
      BY <2>5 DEF RefetchReturns
    <3>3. CASE Done("stale")
      BY <2>3, <3>1, <3>3
    <3>4. CASE UNCHANGED answers
      BY <3>1, <3>4 DEF effectVars, Call!vars
    <3> QED
      BY <3>2, <3>3, <3>4
  <2>6. CASE CallFails \/ Validate \/ Refuse \/ GetSystem \/ Show \/ UNCHANGED vars
    BY <2>6 DEF CallFails, Validate, Refuse, GetSystem, Show, vars, workerVars, effectVars, Call!vars
  <2>7. ASSUME NEW p \in Providers, Rotate(p) \/ Update(p)
        PROVE  UNCHANGED Call!vars
    BY <2>7 DEF Rotate, Update, workerVars, effectVars, Call!vars
  <2> QED
    BY <1>2, <2>1, <2>2, <2>4, <2>5, <2>6, <2>7 DEF Next, Wm, Worker, Call!Next
<1> QED
  BY RetryInvariance, <1>1, <1>2, PTL DEF Spec, ImplementsOneCall, Call!Spec
=============================================================================
