---------------------------- MODULE SecretInstall ----------------------------
(***************************************************************************)
(* The lazy installation of the HMAC secret in the generated actor         *)
(* (compiler/src/project.rs) and in App (setSecret, needsSecret).  Every   *)
(* update call tests needsSecret, and when the secret is missing awaits    *)
(* the system's random bytes before it goes on: the await is a commit      *)
(* point, and other calls run while it is pending.  What a call is         *)
(* answered with carries credentials signed by the secret of that moment:  *)
(* secure-form tokens, a login nonce, or a session.                        *)
(***************************************************************************)
EXTENDS Integers, FiniteSets

CONSTANTS Calls,    \* update calls: http_request_update and mvEstablish
          NoSecret  \* the empty blob

ASSUME SecretConstants == NoSecret \notin Nat

VARIABLES secret,   \* App.mvSecret
          stable,   \* the actor's stable var mvSecret
          drawn,    \* the number of random blobs drawn; the k-th blob is k
          status,   \* per call: "unsent", "waiting", "answered", "rejected"
          signer,   \* per call: the secret that signed its answer
          settled   \* (history) the calls answered while no other waited

vars == <<secret, stable, drawn, status, signer, settled>>

Waiting == {c \in Calls : status[c] = "waiting"}
needsSecret == secret = NoSecret

Init ==
    /\ secret = NoSecret
    /\ stable = NoSecret
    /\ drawn = 0
    /\ status = [c \in Calls |-> "unsent"]
    /\ signer = [c \in Calls |-> NoSecret]
    /\ settled = {}

\* The rest of the call, after the needsSecret test: it is answered under s.
Answer(c, s) ==
    /\ status' = [status EXCEPT ![c] = "answered"]
    /\ signer' = [signer EXCEPT ![c] = s]
    /\ settled' = IF Waiting \subseteq {c} THEN settled \cup {c} ELSE settled

\* The call finds a secret and never awaits.
ArriveReady(c) ==
    /\ status[c] = "unsent"
    /\ ~needsSecret
    /\ Answer(c, secret)
    /\ UNCHANGED <<secret, stable, drawn>>

\* (mutant: an installed secret is drawn anew)
ArriveAnyway(c) ==
    /\ status[c] = "unsent"
    /\ status' = [status EXCEPT ![c] = "waiting"]
    /\ UNCHANGED <<secret, stable, drawn, signer, settled>>

\* The call finds no secret and awaits Random.blob().
ArriveFirst(c) ==
    /\ status[c] = "unsent"
    /\ needsSecret
    /\ status' = [status EXCEPT ![c] = "waiting"]
    /\ UNCHANGED <<secret, stable, drawn, signer, settled>>

\* The random bytes arrive.  The continuation assigns them without testing
\* needsSecret again, and goes on to answer the call.
Draw(c) ==
    /\ status[c] = "waiting"
    /\ drawn' = drawn + 1
    /\ stable' = drawn'
    /\ secret' = drawn'
    /\ Answer(c, drawn')

\* The system rejects the call for random bytes: the await throws.
DrawRejected(c) ==
    /\ status[c] = "waiting"
    /\ status' = [status EXCEPT ![c] = "rejected"]
    /\ UNCHANGED <<secret, stable, drawn, signer, settled>>

\* (mutant: the secret is not restored from its stable variable)
UpgradeForgets ==
    /\ Waiting = {}
    /\ secret' = NoSecret
    /\ UNCHANGED <<stable, drawn, status, signer, settled>>

\* An upgrade: refused by the Motoko runtime while a call awaits; the new actor
\* restores the secret from the stable variable.
Upgrade ==
    /\ Waiting = {}
    /\ secret' = stable
    /\ UNCHANGED <<stable, drawn, status, signer, settled>>

Next ==
    \/ \E c \in Calls : ArriveReady(c) \/ ArriveFirst(c) \/ Draw(c) \/ DrawRejected(c)
    \/ Upgrade

Spec == Init /\ [][Next]_vars
-----------------------------------------------------------------------------
TypeOK ==
    /\ secret \in Nat \cup {NoSecret}
    /\ stable \in Nat \cup {NoSecret}
    /\ drawn \in Nat
    /\ status \in [Calls -> {"unsent", "waiting", "answered", "rejected"}]
    /\ signer \in [Calls -> Nat \cup {NoSecret}]
    /\ settled \subseteq Calls

(* What was handed out while no other first call was waiting for its random   *)
(* bytes stays valid for ever, across upgrades: the secret is replaced only   *)
(* by first calls that overlapped.                                            *)
SettledCredentialsHold ==
    \A c \in settled : signer[c] = secret

(* The inductive strengthening: the application and the stable variable agree *)
(* on the secret, and once a call was answered alone no call waits, nor will  *)
(* one, because the secret is never missing again.                            *)
Inductive ==
    /\ TypeOK
    /\ secret = stable
    /\ secret # NoSecret => secret = drawn
    /\ settled # {} => Waiting = {} /\ secret # NoSecret
    /\ SettledCredentialsHold

(* "mvSecret is still installed lazily above (one-time, then a no-op)": once  *)
(* installed, the secret never changes, so nothing it signed is voided.       *)
InstalledOnce == [][secret # NoSecret => secret' = secret]_vars
=============================================================================
