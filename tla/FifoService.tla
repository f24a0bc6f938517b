----------------------------- MODULE FifoService -----------------------------
(***************************************************************************)
(* What a client of the mutation dispatcher is promised: every accepted    *)
(* mutation is answered exactly once, in the order of acceptance, and      *)
(* nothing is accepted once the dispatcher has been closed.  Mutations are *)
(* numbered by acceptance, so two counters say it all.                     *)
(***************************************************************************)
EXTENDS Naturals

VARIABLES
    accepted,   \* number of the last mutation the service took in
    answered,   \* number of the last mutation whose result was handed out
    shut        \* no further mutation is accepted

vars == <<accepted, answered, shut>>

Init ==
    /\ accepted = 0
    /\ answered = 0
    /\ shut = FALSE

Accept ==
    /\ ~shut
    /\ accepted' = accepted + 1
    /\ UNCHANGED <<answered, shut>>

Answer ==
    /\ answered < accepted
    /\ answered' = answered + 1
    /\ UNCHANGED <<accepted, shut>>

Shut ==
    /\ shut' = TRUE
    /\ UNCHANGED <<accepted, answered>>

Next == Accept \/ Answer \/ Shut

Spec == Init /\ [][Next]_vars
=============================================================================
