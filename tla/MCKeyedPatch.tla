---------------------------- MODULE MCKeyedPatch ----------------------------
(* Small instances of KeyedPatch for TLC. *)
EXTENDS KeyedPatch, TLC

CONSTANTS a, b, c, d

\* Only the first item's markup changes; the others are told apart by their keys.
OneChanges == a :> {"old", "new"} @@ [k \in {b, c, d} |-> {"old"}]
PairChanges == [k \in {a, b} |-> {"old", "new"}]
=============================================================================
