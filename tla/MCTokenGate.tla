---------------------------- MODULE MCTokenGate ----------------------------
(* Small instances of TokenGate for TLC. *)
EXTENDS TokenGate, TLC

MCWeights == {1, 2}
=============================================================================
