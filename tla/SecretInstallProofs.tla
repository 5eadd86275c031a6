------------------------- MODULE SecretInstallProofs -------------------------
(***************************************************************************)
(* For every number of calls: what was handed out while no other first     *)
(* call waited stays valid for ever.                                       *)
(***************************************************************************)
EXTENDS SecretInstall, TLAPS

(* The strengthened invariant holds at the start and is kept by every step of *)
(* a call and by an upgrade.                                                  *)
THEOREM InductiveHolds == Spec => []Inductive
  <1>1. Init => Inductive
    BY SecretConstants DEF Init, Inductive, TypeOK, SettledCredentialsHold, Waiting
  <1>2. Inductive /\ [Next]_vars => Inductive'
    <2> SUFFICES ASSUME Inductive, [Next]_vars PROVE Inductive'
      OBVIOUS
    <2> USE DEF Inductive, TypeOK, SettledCredentialsHold, Waiting
    <2>1. ASSUME NEW c \in Calls, ArriveReady(c) PROVE Inductive'
      BY <2>1, SecretConstants DEF ArriveReady, Answer, needsSecret
    <2>2. ASSUME NEW c \in Calls, ArriveFirst(c) PROVE Inductive'
      BY <2>2, SecretConstants DEF ArriveFirst, needsSecret
    <2>3. ASSUME NEW c \in Calls, Draw(c) PROVE Inductive'
      BY <2>3, SecretConstants DEF Draw, Answer
    <2>4. ASSUME NEW c \in Calls, DrawRejected(c) PROVE Inductive'
      BY <2>4 DEF DrawRejected
    <2>5. CASE Upgrade
      BY <2>5 DEF Upgrade
    <2>6. CASE UNCHANGED vars
      BY <2>6 DEF vars
    <2>. QED  BY <2>1, <2>2, <2>3, <2>4, <2>5, <2>6 DEF Next
  <1>. QED  BY <1>1, <1>2, PTL DEF Spec

(* What was handed out while no other first call was waiting stays valid.     *)
THEOREM SettledCredentialsHoldAlways == Spec => []SettledCredentialsHold
  BY InductiveHolds, PTL DEF Inductive
=============================================================================
