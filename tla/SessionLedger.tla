---------------------------- MODULE SessionLedger ----------------------------
(***************************************************************************)
(* What the session bridge of a MotoView canister promises, without        *)
(* cookies, nonces, MACs, epochs, lost messages or upgrades: a session is  *)
(* given out for a limited time, a logout ends every session of the        *)
(* principal at once, and a session that ended never comes back.           *)
(***************************************************************************)
EXTENDS Integers

CONSTANT Ttl  \* the lifetime of a session

VARIABLES clock,   \* the time of the executing block
          live,    \* the sessions that are accepted
          ended,   \* the sessions that expired or were logged out
          logouts  \* principal -> how often it logged out

ledgerVars == <<clock, live, ended, logouts>>

LedgerInit ==
    /\ clock = 0
    /\ live = {}
    /\ ended = {}
    /\ logouts = [p \in DOMAIN logouts |-> 0]

\* A session is given out, unless the same one was given out in the same block.
SignIn ==
    \E s \in live' :
        /\ s \notin ended
        /\ s.expiry = clock + Ttl
        /\ live' = live \cup {s}
        /\ UNCHANGED <<clock, ended, logouts>>

\* All sessions of one principal end, and no others.
LogOut ==
    \E p \in DOMAIN logouts :
        LET gone == {s \in live : s.who = p}
        IN  /\ logouts' = [logouts EXCEPT ![p] = @ + 1]
            /\ live' = live \ gone
            /\ ended' = ended \cup gone
            /\ UNCHANGED clock

\* Time passes: exactly the sessions that outlived their time end.
Elapse ==
    /\ clock' > clock
    /\ LET gone == {s \in live : s.expiry < clock'}
       IN  /\ live' = live \ gone
           /\ ended' = ended \cup gone
    /\ UNCHANGED logouts

LedgerNext == SignIn \/ LogOut \/ Elapse

LedgerSpec == LedgerInit /\ [][LedgerNext]_ledgerVars
=============================================================================
