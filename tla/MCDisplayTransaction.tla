------------------------ MODULE MCDisplayTransaction ------------------------
(***************************************************************************)
(* DisplayTransaction for TLC: outputs, CRTCs, modes and clients are each  *)
(* interchangeable in the runs without liveness.                           *)
(***************************************************************************)
EXTENDS DisplayTransaction, TLC

Interchangeable ==
    Permutations(Outputs) \cup Permutations(Crtcs) \cup Permutations(Modes)
        \cup Permutations(Clients)
=============================================================================
