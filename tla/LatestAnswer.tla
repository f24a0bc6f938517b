---------------------------- MODULE LatestAnswer ----------------------------
(***************************************************************************)
(* What a drag is promised about its preview: one is on the screen only    *)
(* because it was asked for and not given up since, its picture is the one *)
(* of what is asked now, and a picture that came stays.  An answer to      *)
(* anything given up or replaced changes nothing, and never brings a       *)
(* preview back.                                                           *)
(***************************************************************************)
EXTENDS Naturals

CONSTANTS
    Targets, \* what may be asked for
    None

VARIABLES
    number, \* of the last request or the last time one was given up
    asked,  \* the request that is on the screen, or None
    shown   \* the request whose picture it shows, or None

vars == <<number, asked, shown>>

Init ==
    /\ number = 1
    /\ asked = None
    /\ shown = None

Ask(t) ==
    /\ number' = number + 1
    /\ asked' = [generation |-> number', target |-> t]
    /\ shown' = None

Answer ==
    /\ asked # None
    /\ shown = None
    /\ shown' = asked
    /\ UNCHANGED <<number, asked>>

\* A request that is given up at once takes a number too.
Forget ==
    /\ number' \in {number + 1, number + 2}
    /\ asked' = None
    /\ shown' = None

Next == (\E t \in Targets : Ask(t)) \/ Answer \/ Forget

Spec == Init /\ [][Next]_vars
=============================================================================
