------------------------------ MODULE MCTaskBar ------------------------------
(* Small instances of TaskBar. *)
EXTENDS TaskBar, TLC

Symmetry == Permutations(Ids) \cup Permutations(Apps)
=============================================================================
