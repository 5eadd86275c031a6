----------------------------- MODULE MCSessions -----------------------------
(***************************************************************************)
(* Three worlds for the sessions: two tabs that share the cookies of one   *)
(* browser, with two principals; tabs of two browsers; and one principal   *)
(* whose tabs poll more than once.                                         *)
(***************************************************************************)
EXTENDS Sessions, TLC

CONSTANTS left, right,  \* tabs
          home, away,   \* browsers
          alice, bob

Shared ==
    [home |-> left :> home @@ right :> home, users |-> left :> {alice, bob} @@ right :> {alice},
     pendingTtl |-> 2, pruneAge |-> 1, polls |-> 1, maxTime |-> 2, maxLogins |-> 1, maxEpoch |-> 1]
Apart ==
    [home |-> left :> home @@ right :> away, users |-> left :> {alice} @@ right :> {bob},
     pendingTtl |-> 1, pruneAge |-> 0, polls |-> 1, maxTime |-> 1, maxLogins |-> 2, maxEpoch |-> 0]
Patient ==
    [Shared EXCEPT !.users = [t \in Tabs |-> {alice}], !.pendingTtl = 1, !.polls = 2, !.maxTime = 1]
MCWorlds == {Shared, Apart, Patient}
=============================================================================
