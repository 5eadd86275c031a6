------------------------------ MODULE Sessions ------------------------------
(***************************************************************************)
(* The Internet Identity session bridge: the login flow of                 *)
(* client/glue/mv-auth.js in several tabs of several browsers, the         *)
(* endpoints /mv-login-begin, /mv-session and /mv-logout and the           *)
(* authenticated call mvEstablish of runtime/src/App.mo, their pending and *)
(* epoch tables, and the upgrade (compiler/src/project.rs).                *)
(*                                                                         *)
(* Requests are served in any order, and a request or a response can be    *)
(* lost.  A request carries the cookies its browser held when it was sent; *)
(* a response sets cookies when it arrives.                                *)
(*                                                                         *)
(* The secret is installed and the MACs unforgeable, so a browser presents *)
(* only nonces and session tokens it was given.  A login nonce is the pair *)
(* <<loginCounter, time>> that the code signs.  Time is in ticks.          *)
(***************************************************************************)
EXTENDS Integers, FiniteSets, Functions

CONSTANTS Tabs,         \* browser tabs
          Browsers,     \* cookie jars
          Principals,   \* identities a user signs in with (not anonymous)
          None,         \* no cookie, no nonce, no token, no principal
          PendingCap,   \* 4096
          SessionTtl,   \* sessionTtlNs
          Worlds        \* the settings a run considers, below

\* home: the browser of a tab; users: whom it may sign in; pendingTtl: 5 minutes,
\* while an established login can be redeemed; pruneAge: 1 minute, what a full
\* pending table keeps; polls: 15, of /mv-session in one login.  The bounds: the
\* last tick, loginCounter, the logouts of one principal.
ASSUME SessionConstants ==
    /\ None \notin Principals
    /\ None \notin Nat \X Nat
    /\ {PendingCap, SessionTtl} \subseteq Nat
    /\ Worlds \subseteq [home : [Tabs -> Browsers], users : [Tabs -> SUBSET Principals],
                         pendingTtl : Nat, pruneAge : Nat, polls : Nat,
                         maxTime : Nat, maxLogins : Nat, maxEpoch : Nat]

VARIABLES world,         \* the setting of this behavior
          now,           \* Time.now() of the executing block
          loginCounter,  \* App.loginCounter; NOT persisted
          pending,       \* App.pending: nonce -> [who, at]; NOT persisted
          epochs,        \* App.epochs: principal -> logouts so far
          loginCookie,   \* per browser: mv_login
          sessionCookie, \* per browser: mv_session
          tabs,          \* per tab: the state of mvAuth.establish
          wire,          \* per tab: its outstanding request or response
          calls,         \* signed mvEstablish calls that may still execute
          minted,        \* (history) every session token given out
          exchanged,     \* (history) every nonce exchanged for a session
          chosen         \* (history) who signed in where: <<browser, principal>>

serverVars == <<now, loginCounter, pending, epochs>>
cookieVars == <<loginCookie, sessionCookie>>
historyVars == <<minted, exchanged, chosen>>
vars == <<world, serverVars, cookieVars, tabs, wire, calls, historyVars>>

HomeOf == world.home
PendingTtl == world.pendingTtl
PruneAge == world.pruneAge
MaxPolls == world.polls
MaxTime == world.maxTime
MaxLogins == world.maxLogins
MaxEpoch == world.maxEpoch

Nonce == Nat \X Nat
Session == [who : Principals, expiry : Nat, epoch : Nat]
Quiet == [kind |-> "quiet"]
Idle == [phase |-> "idle", who |-> None, polls |-> 0]
TabState == [phase : {"idle", "beginning", "polling", "leaving"},
             who : Principals \cup {None}, polls : Nat]
Message ==
    {Quiet}
        \cup [kind : {"begin", "redeem"}, login : Nonce \cup {None}]
        \cup [kind : {"begun"}, login : Nonce]
        \cup [kind : {"logout", "signedIn"}, session : Session]
        \cup [kind : {"refused", "loggedOut"}]

Send(t, m) == wire' = [wire EXCEPT ![t] = m]
-----------------------------------------------------------------------------
(* The tables of App. *)

\* (mutant: the time is not part of the nonce)
FreshNonceWithoutTime == <<loginCounter + 1, 0>>

FreshNonce == <<loginCounter + 1, now>>

\* (mutant: a full table still takes the entry)
EstablishOverCap(n, p) ==
    [m \in DOMAIN pending \cup {n} |->
        IF m = n THEN [who |-> p, at |-> now] ELSE pending[m]]

\* establish: a full table forgets entries older than PruneAge, and does not take
\* the new one if it is still full.
Establish(n, p) ==
    LET young == IF Cardinality(DOMAIN pending) >= PendingCap
                 THEN {m \in DOMAIN pending : pending[m].at >= now - PruneAge}
                 ELSE DOMAIN pending
        kept  == Restrict(pending, young)
    IN  IF Cardinality(young) >= PendingCap
        THEN kept
        ELSE [m \in young \cup {n} |->
                 IF m = n THEN [who |-> p, at |-> now] ELSE kept[m]]

\* The nonce of a mv_login cookie can be exchanged.
Redeemable(n) ==
    /\ n \in DOMAIN pending
    /\ now - pending[n].at < PendingTtl

\* (mutant: the lifetime is subtracted)
MintExpired(p) == [who |-> p, expiry |-> now - SessionTtl, epoch |-> epochs[p]]

MintSession(p) == [who |-> p, expiry |-> now + SessionTtl, epoch |-> epochs[p]]

\* (mutant: the epoch is not compared)
VerifyIgnoringEpoch(s) == now <= s.expiry

\* verifySession of a genuine token.
VerifySession(s) ==
    /\ now <= s.expiry
    /\ s.epoch = epochs[s.who]

\* effectiveCaller: None is the anonymous gateway caller.
EffectiveCaller(s) == IF s # None /\ VerifySession(s) THEN s.who ELSE None
-----------------------------------------------------------------------------
Init ==
    /\ world \in Worlds
    /\ now = 0
    /\ loginCounter = 0
    /\ pending = <<>>
    /\ epochs = [p \in Principals |-> 0]
    /\ loginCookie = [b \in Browsers |-> None]
    /\ sessionCookie = [b \in Browsers |-> None]
    /\ tabs = [t \in Tabs |-> Idle]
    /\ wire = [t \in Tabs |-> Quiet]
    /\ calls = {}
    /\ minted = {}
    /\ exchanged = {}
    /\ chosen = {}

(* The tab. *)

\* The user signs in as p: establish() asks for a nonce.
StartLogin(t, p) ==
    /\ p \in world.users[t]
    /\ tabs[t].phase = "idle"
    /\ wire[t] = Quiet
    /\ tabs' = [tabs EXCEPT ![t] = [phase |-> "beginning", who |-> p, polls |-> 0]]
    /\ Send(t, [kind |-> "begin", login |-> None])
    /\ chosen' = chosen \cup {<<HomeOf[t], p>>}
    /\ UNCHANGED <<world, serverVars, cookieVars, calls, minted, exchanged>>

\* The nonce arrives, in the body and as the mv_login cookie; the tab signs and
\* submits mvEstablish and starts polling.
ReceiveNonce(t) ==
    /\ wire[t].kind = "begun"
    /\ loginCookie' = [loginCookie EXCEPT ![HomeOf[t]] = wire[t].login]
    /\ calls' = calls \cup {[nonce |-> wire[t].login, who |-> tabs[t].who]}
    /\ tabs' = [tabs EXCEPT ![t].phase = "polling"]
    /\ Send(t, Quiet)
    /\ UNCHANGED <<world, serverVars, sessionCookie, historyVars>>

\* (mutant: the polls are not counted)
PollUncounted(t) ==
    /\ tabs[t].phase = "polling"
    /\ wire[t] = Quiet
    /\ Send(t, [kind |-> "redeem", login |-> loginCookie[HomeOf[t]]])
    /\ UNCHANGED <<world, serverVars, cookieVars, tabs, calls, historyVars>>

\* GET /mv-session, at most MaxPolls times.
Poll(t) ==
    /\ tabs[t].phase = "polling"
    /\ wire[t] = Quiet
    /\ tabs[t].polls < MaxPolls
    /\ tabs' = [tabs EXCEPT ![t].polls = @ + 1]
    /\ Send(t, [kind |-> "redeem", login |-> loginCookie[HomeOf[t]]])
    /\ UNCHANGED <<world, serverVars, cookieVars, calls, historyVars>>

\* The session arrives: the cookies are set and the page is reloaded.
ReceiveSession(t) ==
    /\ wire[t].kind = "signedIn"
    /\ sessionCookie' = [sessionCookie EXCEPT ![HomeOf[t]] = wire[t].session]
    /\ loginCookie' = [loginCookie EXCEPT ![HomeOf[t]] = None]
    /\ tabs' = [tabs EXCEPT ![t] = Idle]
    /\ Send(t, Quiet)
    /\ UNCHANGED <<world, serverVars, calls, historyVars>>

\* An empty body arrives: the tab polls again, or reports the failure.
ReceiveRefusal(t) ==
    /\ wire[t].kind = "refused"
    /\ tabs' = IF tabs[t].polls < MaxPolls THEN tabs ELSE [tabs EXCEPT ![t] = Idle]
    /\ Send(t, Quiet)
    /\ UNCHANGED <<world, serverVars, cookieVars, calls, historyVars>>

\* mvAuth.logout, offered to a browser that appears signed in.
StartLogout(t) ==
    /\ tabs[t].phase = "idle"
    /\ sessionCookie[HomeOf[t]] # None
    /\ wire[t] = Quiet
    /\ Send(t, [kind |-> "logout", session |-> sessionCookie[HomeOf[t]]])
    /\ tabs' = [tabs EXCEPT ![t].phase = "leaving"]
    /\ UNCHANGED <<world, serverVars, cookieVars, calls, historyVars>>

ReceiveLogout(t) ==
    /\ wire[t].kind = "loggedOut"
    /\ sessionCookie' = [sessionCookie EXCEPT ![HomeOf[t]] = None]
    /\ tabs' = [tabs EXCEPT ![t] = Idle]
    /\ Send(t, Quiet)
    /\ UNCHANGED <<world, serverVars, loginCookie, calls, historyVars>>

(* The canister. *)

ServeBegin(t) ==
    /\ wire[t].kind = "begin"
    /\ loginCounter < MaxLogins
    /\ loginCounter' = loginCounter + 1
    /\ Send(t, [kind |-> "begun", login |-> FreshNonce])
    /\ UNCHANGED <<world, now, pending, epochs, cookieVars, tabs, calls, historyVars>>

ServeEstablish(c) ==
    /\ calls' = calls \ {c}
    /\ pending' = Establish(c.nonce, c.who)
    /\ UNCHANGED <<world, now, loginCounter, epochs, cookieVars, tabs, wire, historyVars>>

\* (mutant: the nonce stays redeemable)
ServeSessionKeepingNonce(t) ==
    LET n == wire[t].login
    IN  /\ wire[t].kind = "redeem"
        /\ Redeemable(n)
        /\ UNCHANGED pending
        /\ minted' = minted \cup {MintSession(pending[n].who)}
        /\ exchanged' = exchanged \cup {n}
        /\ Send(t, [kind |-> "signedIn", session |-> MintSession(pending[n].who)])
        /\ UNCHANGED <<world, now, loginCounter, epochs, cookieVars, tabs, calls, chosen>>

\* sessionFor succeeds: the nonce is spent, a session is minted.
ServeSession(t) ==
    LET n == wire[t].login
    IN  /\ wire[t].kind = "redeem"
        /\ Redeemable(n)
        /\ pending' = Restrict(pending, DOMAIN pending \ {n})
        /\ minted' = minted \cup {MintSession(pending[n].who)}
        /\ exchanged' = exchanged \cup {n}
        /\ Send(t, [kind |-> "signedIn", session |-> MintSession(pending[n].who)])
        /\ UNCHANGED <<world, now, loginCounter, epochs, cookieVars, tabs, calls, chosen>>

ServeRefusal(t) ==
    /\ wire[t].kind = "redeem"
    /\ ~Redeemable(wire[t].login)
    /\ Send(t, [kind |-> "refused"])
    /\ UNCHANGED <<world, serverVars, cookieVars, tabs, calls, historyVars>>

\* /mv-logout: the epoch of the caller, if not anonymous, is bumped.
ServeLogout(t) ==
    LET p == EffectiveCaller(wire[t].session)
    IN  /\ wire[t].kind = "logout"
        /\ IF p = None
           THEN UNCHANGED epochs
           ELSE /\ epochs[p] < MaxEpoch
                /\ epochs' = [epochs EXCEPT ![p] = @ + 1]
        /\ Send(t, [kind |-> "loggedOut"])
        /\ UNCHANGED <<world, now, loginCounter, pending, cookieVars, tabs, calls, historyVars>>

(* The environment. *)

\* A request or a response is lost, or the tab is closed: establish() rejects.
Lose(t) ==
    /\ wire[t] # Quiet
    /\ Send(t, Quiet)
    /\ tabs' = [tabs EXCEPT ![t] = Idle]
    /\ UNCHANGED <<world, serverVars, cookieVars, calls, historyVars>>

\* A signed call is lost or passes its ingress expiry.
LoseCall(c) ==
    /\ calls' = calls \ {c}
    /\ UNCHANGED <<world, serverVars, cookieVars, tabs, wire, historyVars>>

Tick ==
    /\ now < MaxTime
    /\ now' = now + 1
    /\ UNCHANGED <<world, loginCounter, pending, epochs, cookieVars, tabs, wire, calls, historyVars>>

\* preupgrade keeps the epochs; the counter and the pending logins are lost.
Upgrade ==
    /\ now < MaxTime
    /\ now' = now + 1
    /\ loginCounter' = 0
    /\ pending' = <<>>
    /\ UNCHANGED <<world, epochs, cookieVars, tabs, wire, calls, historyVars>>

\* What the machines do by themselves: the tab's script and the canister.
Machine(t) ==
    \/ ReceiveNonce(t) \/ Poll(t) \/ ReceiveSession(t) \/ ReceiveRefusal(t) \/ ReceiveLogout(t)
    \/ ServeBegin(t) \/ ServeSession(t) \/ ServeRefusal(t) \/ ServeLogout(t)

Next ==
    \/ \E t \in Tabs : Machine(t) \/ StartLogout(t) \/ Lose(t)
    \/ \E t \in Tabs, p \in Principals : StartLogin(t, p)
    \/ \E c \in calls : ServeEstablish(c) \/ LoseCall(c)
    \/ Tick
    \/ Upgrade

\* The scripts run, requests are served or lost; users owe nothing.
Spec ==
    /\ Init /\ [][Next]_vars
    /\ \A t \in Tabs : WF_vars(Machine(t) \/ Lose(t))
-----------------------------------------------------------------------------
TypeOK ==
    /\ world \in Worlds
    /\ now \in Nat
    /\ loginCounter \in Nat
    /\ DOMAIN pending \subseteq Nonce
    /\ pending \in [DOMAIN pending -> [who : Principals, at : Nat]]
    /\ epochs \in [Principals -> Nat]
    /\ loginCookie \in [Browsers -> Nonce \cup {None}]
    /\ sessionCookie \in [Browsers -> Session \cup {None}]
    /\ tabs \in [Tabs -> TabState]
    /\ wire \in [Tabs -> Message]
    /\ calls \subseteq [nonce : Nonce, who : Principals]
    /\ minted \subseteq Session
    /\ exchanged \subseteq Nonce
    /\ chosen \subseteq Browsers \X Principals

(* A browser only ever holds sessions of principals its own tabs signed in    *)
(* as, whatever the tabs interleave and although the login counter starts     *)
(* again after an upgrade ("only the browser that began the login can redeem  *)
(* it").                                                                      *)
OwnSessions ==
    \A b \in Browsers :
        sessionCookie[b] # None => <<b, sessionCookie[b].who>> \in chosen

(* A nonce is exchanged for at most one session: what was exchanged is never  *)
(* redeemable again, not even when the signed call executes late              *)
(* (sessionFor, "Single-use").                                                *)
ExchangedOnce ==
    \A n \in exchanged :
        /\ n \notin DOMAIN pending
        /\ \A c \in calls : c.nonce # n

(* The table of pending logins never grows over its cap ("bound memory        *)
(* against unauthenticated flooding of mvEstablish").                         *)
PendingBounded == Cardinality(DOMAIN pending) <= PendingCap

(* The inductive invariant behind OwnSessions and ExchangedOnce. A nonce is   *)
(* on its way to a tab, in a signed call, pending or exchanged, and passes    *)
(* these stages in that order; only one browser holds it.                     *)
Answered == {wire[t].login : t \in {u \in Tabs : wire[u].kind = "begun"}}
Signed == {c.nonce : c \in calls}
HeldBy(b) ==
    ({loginCookie[b]}
        \cup {wire[t].login : t \in {u \in Tabs : wire[u].kind = "redeem" /\ HomeOf[u] = b}})
    \ {None}
Held == UNION {HeldBy(b) : b \in Browsers}

\* A nonce of an earlier block, or of this incarnation's counter.
Dated(n) == n[2] < now \/ (n[2] = now /\ n[1] <= loginCounter)
NoncesDated == \A n \in Answered \cup Signed \cup DOMAIN pending \cup exchanged \cup Held : Dated(n)

NoncesInStages ==
    /\ Answered \cap (Signed \cup DOMAIN pending \cup exchanged \cup Held) = {}
    /\ Signed \cap (DOMAIN pending \cup exchanged) = {}
    /\ DOMAIN pending \cap exchanged = {}
    /\ \A t, u \in Tabs :
          /\ wire[t].kind = "begun" /\ wire[u].kind = "begun"
          /\ wire[t].login = wire[u].login
          => t = u
    /\ \A c, d \in calls : c.nonce = d.nonce => c = d

\* Whoever a login or a session is for was chosen in the browser that gets it.
FlowsOwned ==
    \A t \in Tabs : wire[t].kind \in {"begin", "begun"} =>
        tabs[t].who \in Principals /\ <<HomeOf[t], tabs[t].who>> \in chosen
LoginsOwned ==
    \A b \in Browsers : \A n \in HeldBy(b) :
        /\ \A c \in calls : c.nonce = n => <<b, c.who>> \in chosen
        /\ n \in DOMAIN pending => <<b, pending[n].who>> \in chosen
AnswersOwned ==
    \A t \in Tabs : wire[t].kind = "signedIn" =>
        <<HomeOf[t], wire[t].session.who>> \in chosen

EpochsReached == \A s \in minted : s.epoch <= epochs[s.who]

Inductive ==
    /\ TypeOK
    /\ NoncesDated
    /\ NoncesInStages
    /\ FlowsOwned
    /\ LoginsOwned
    /\ AnswersOwned
    /\ OwnSessions
    /\ EpochsReached

(* A login or a logout that was started ends, signed in or with an error,     *)
(* whatever is lost and however other tabs interfere.                         *)
FlowsEnd == \A t \in Tabs : tabs[t].phase # "idle" ~> tabs[t].phase = "idle"

(* The refinement: the tokens that verify are a ledger of sessions. A logout  *)
(* ends all sessions of its principal and no others, an ended session never   *)
(* verifies again, and upgrades end none (security.md: sessions are           *)
(* revocable per principal and survive canister upgrades).                    *)
Ledger == INSTANCE SessionLedger WITH
    Ttl <- SessionTtl,
    clock <- now,
    live <- {s \in minted : VerifySession(s)},
    ended <- {s \in minted : ~VerifySession(s)},
    logouts <- epochs
ImplementsLedger == Ledger!LedgerSpec
=============================================================================
