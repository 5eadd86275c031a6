------------------------------ MODULE MCBridge ------------------------------
(* Small instances of Bridge for TLC. *)
EXTENDS Bridge, TLC

Versions == 0..2

\* Every change gives a view that was never shown before.
Onward == [v \in Versions |-> {w \in Versions : w > v}]
\* Changes may come back to earlier views: a dialog that opens and closes.
AnyMove == [v \in Versions |-> Versions \ {v}]
=============================================================================
