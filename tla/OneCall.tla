------------------------------ MODULE OneCall -------------------------------
(***************************************************************************)
(* What the user is promised about the mutations of one process: each has  *)
(* its effect at most once and in the order they were asked for, success   *)
(* means that it had it, a refusal that it did not and never will; an      *)
(* unavailable service leaves it open, and the effect may come later.      *)
(***************************************************************************)
EXTENDS Naturals

CONSTANT Mutations \* positions in the order of asking: 1 .. n

VARIABLES
    asked,   \* how many were asked for
    effects, \* how often each had its effect
    answers  \* each one's answer: "none", "ok", "refused" or "unavailable"

vars == <<asked, effects, answers>>

Init ==
    /\ asked = 0
    /\ effects = [m \in Mutations |-> 0]
    /\ answers = [m \in Mutations |-> "none"]

Ask ==
    /\ asked + 1 \in Mutations
    /\ asked' = asked + 1
    /\ UNCHANGED <<effects, answers>>

Execute(m) ==
    /\ m <= asked
    /\ answers[m] \in {"none", "unavailable"}
    /\ \A n \in Mutations : n >= m => effects[n] = 0
    /\ effects' = [effects EXCEPT ![m] = 1]
    /\ UNCHANGED <<asked, answers>>

Answer(m, a) ==
    /\ m <= asked
    /\ answers[m] = "none"
    /\ a = "ok" => effects[m] = 1
    /\ a = "refused" => effects[m] = 0
    /\ answers' = [answers EXCEPT ![m] = a]
    /\ UNCHANGED <<asked, effects>>

Next ==
    \/ Ask
    \/ \E m \in Mutations :
          Execute(m) \/ \E a \in {"ok", "refused", "unavailable"} : Answer(m, a)

Spec == Init /\ [][Next]_vars
=============================================================================
