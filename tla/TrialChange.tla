---------------------------- MODULE TrialChange -----------------------------
(***************************************************************************)
(* What becomes of a change of the display mode: at most one is on trial,  *)
(* it has a number no other had, and all outputs that show one picture go  *)
(* with it.  It ends in one of two ways: everything is kept as it was      *)
(* tried, or it is undone, and then the output it was for and every output *)
(* that did not take part is as before, while those that went with it lose *)
(* their picture.  No picture changes but by a trial and its end.          *)
(***************************************************************************)
EXTENDS Naturals

CONSTANTS Outputs, Modes, Dark

VARIABLES
    pictures, \* in effect
    kept,     \* in effect for good
    trial,    \* number of the change on trial, or 0
    last,     \* number of the last one tried
    mirrors   \* the outputs that went with the one of the change

vars == <<pictures, kept, trial, last, mirrors>>

Init ==
    /\ pictures \in [Outputs -> Modes \cup {Dark}]
    /\ kept = pictures
    /\ trial = 0
    /\ last = 0
    /\ mirrors = {}

\* The outputs that go with o show what it shows.
Try(o, others, m) ==
    /\ trial = 0
    /\ o \notin others
    /\ kept[o] # Dark
    /\ \A p \in others : kept[p] = kept[o]
    /\ pictures' = [p \in Outputs |-> IF p \in others \cup {o} THEN m ELSE kept[p]]
    /\ mirrors' = others
    /\ trial' = last + 1
    /\ last' = last + 1
    /\ UNCHANGED kept

Keep ==
    /\ trial # 0
    /\ kept' = pictures
    /\ trial' = 0
    /\ mirrors' = {}
    /\ UNCHANGED <<pictures, last>>

Undo ==
    /\ trial # 0
    /\ pictures' = [p \in Outputs |-> IF p \in mirrors THEN Dark ELSE kept[p]]
    /\ kept' = pictures'
    /\ trial' = 0
    /\ mirrors' = {}
    /\ UNCHANGED last

Next ==
    \/ \E o \in Outputs, others \in SUBSET Outputs, m \in Modes : Try(o, others, m)
    \/ Keep
    \/ Undo

Spec == Init /\ [][Next]_vars
=============================================================================
