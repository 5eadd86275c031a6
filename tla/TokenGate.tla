------------------------------ MODULE TokenGate ------------------------------
(***************************************************************************)
(* The replay-protection and spend gate of a MotoView app: the tokens that *)
(* runtime/src/App.mo mints into rendered pages (makeCtx), the check of a  *)
(* submitted token (Security.verify), the store of consumed nonces with    *)
(* its size-triggered pruning, the per-principal spend velocity log        *)
(* (WalletAuth.Velocity), and the upgrade that snapshots and restores      *)
(* them (compiler/src/project.rs, preupgrade and the actor's init).        *)
(*                                                                         *)
(* An update message of the canister runs without interleaving, so one     *)
(* request is one step: verification, consumption, the handler, and the    *)
(* render of the response, which mints new tokens.  Only genuine tokens    *)
(* are presented (the HMAC is assumed unforgeable, the secret installed);  *)
(* anything else fails Security.verify and changes nothing.                *)
(*                                                                         *)
(* Time is in ticks.  A nonce is the pair <<time, counter>> of the code's  *)
(* text "<time>-<counter>".  A hashed schema or intent is the schema or    *)
(* the intent itself (the hashes are taken to be collision-free).          *)
(***************************************************************************)
EXTENDS Integers, Sequences, FiniteSets, Functions

CONSTANTS Callers,        \* principals
          Routes,         \* (page, handler) pairs bound to a secure form
          SpendRoutes,    \* those whose handler calls ctx.authorizeSpend
          Intents,        \* the spends a confirm page may display
          NoIntent,       \* the intent hash "" of an ordinary form
          FormSchema,     \* the hash of a form's declared fields
          Weights,        \* the weights a handler passes to authorizeSpend
          TokenLife,      \* expiryNs
          StoreCap,       \* 4096
          SpendWindow,    \* spendWindowNs
          SpendLimit,     \* spendLimit
          MaxTime,        \* bound: the last tick
          MaxTokens       \* bound: tokens ever minted

ASSUME GateConstants ==
    /\ SpendRoutes \subseteq Routes
    /\ NoIntent \notin Intents
    /\ FormSchema \notin Intents
    /\ Weights \subseteq Nat
    /\ TokenLife \in Nat
    /\ StoreCap \in Nat
    /\ SpendWindow \in Nat
    /\ SpendLimit \in Nat
    /\ MaxTime \in Nat
    /\ MaxTokens \in Nat

VARIABLES now,       \* Time.now(), the time of the executing block
          counter,   \* App.counter; NOT persisted, 0 after an upgrade
          consumed,  \* App.consumed: nonce -> the time it stops mattering
          velocity,  \* WalletAuth.Velocity.log: caller -> bag of [ts, weight]
          tokens,    \* every token ever rendered into a page
          boot,      \* (history) the time of the last install or upgrade
          redeemed   \* (history) the redemptions, oldest first

vars == <<now, counter, consumed, velocity, tokens, boot, redeemed>>

Nonce == Nat \X Nat
Entry == [ts : Nat, weight : Nat]
IsLog(es) == DOMAIN es \subseteq Entry /\ es \in [DOMAIN es -> Nat]
Token == [route : Routes, caller : Callers, expiry : Nat, nonce : Nonce,
          schema : Intents \cup {FormSchema}, intent : Intents \cup {NoIntent}]
Redemption == [token : Token, by : Callers, intent : Intents \cup {NoIntent},
               at : Nat, weight : Nat]
-----------------------------------------------------------------------------
(* Minting and verifying. *)

\* (mutants: the expiry is subtracted; the nonce is the counter alone)
FormTokenSubtractsExpiry(n, c, r) ==
    [route |-> r, caller |-> c, expiry |-> now - TokenLife,
     nonce |-> <<now, n>>, schema |-> FormSchema, intent |-> NoIntent]
FormTokenWithoutTime(n, c, r) ==
    [route |-> r, caller |-> c, expiry |-> now + TokenLife,
     nonce |-> <<0, n>>, schema |-> FormSchema, intent |-> NoIntent]

\* ctx.mintToken: an ordinary secure-form token binds no intent.
FormToken(n, c, r) ==
    [route |-> r, caller |-> c, expiry |-> now + TokenLife,
     nonce |-> <<now, n>>, schema |-> FormSchema, intent |-> NoIntent]

\* ctx.mintSpendToken: bound to the intent, whose hash also stands for the schema.
SpendToken(n, c, r, i) ==
    [route |-> r, caller |-> c, expiry |-> now + TokenLife,
     nonce |-> <<now, n>>, schema |-> i, intent |-> i]

\* (mutant: the counter is not advanced between the two tokens of a page)
MintedSharingCounter(c, r, i) ==
    {FormToken(counter + 1, c, r)}
        \cup (IF i = NoIntent THEN {} ELSE {SpendToken(counter + 1, c, r, i)})

\* Rendering route r for caller c: a confirm page mints a spend token for the
\* intent i it displays in onLoad, then every secure form mints one while the
\* markup is written.  i is NoIntent when the page displays no spend, or when a
\* security error made the response skip onLoad.
Minted(c, r, i) ==
    IF i = NoIntent
    THEN {FormToken(counter + 1, c, r)}
    ELSE {SpendToken(counter + 1, c, r, i), FormToken(counter + 2, c, r)}

\* (mutant: the principal is not compared)
VerifyAnyPrincipal(t, c, r, schema, intent) ==
    /\ t.route = r
    /\ t.schema = schema
    /\ t.intent = intent
    /\ now <= t.expiry

\* Security.verify of a genuine token.
Verify(t, c, r, schema, intent) ==
    /\ t.route = r
    /\ t.caller = c
    /\ t.schema = schema
    /\ t.intent = intent
    /\ now <= t.expiry

(* The store of consumed nonces. *)

Put(store, n, exp) == [m \in DOMAIN store \cup {n} |-> IF m = n THEN exp ELSE store[m]]

\* (mutants: live nonces are evicted too; nothing is ever evicted)
ConsumeNonceEvictsLive(store, n) ==
    LET put == Put(store, n, now + TokenLife)
    IN  IF Cardinality(DOMAIN put) > StoreCap THEN Restrict(put, {n}) ELSE put
ConsumeNonceKeepsAll(store, n) == Put(store, n, now + TokenLife)

\* Only a put that takes the store over its cap prunes, and only expired nonces.
ConsumeNonce(store, n) ==
    LET put  == Put(store, n, now + TokenLife)
        live == {m \in DOMAIN put : put[m] >= now}
    IN  IF Cardinality(DOMAIN put) > StoreCap THEN Restrict(put, live) ELSE put

\* setConsumed on a freshly initialised store: expired entries are not reloaded.
SetConsumed(dump, time) == Restrict(dump, {m \in DOMAIN dump : dump[m] >= time})

(* The velocity limiter. *)

\* The log of a caller is an array whose order does not matter: a bag, entry ->
\* multiplicity.  Entries that left the rolling window do not count.
\* (mutants: the window is one tick short; one tick long)
LiveShort(es) == Restrict(es, {e \in DOMAIN es : e.ts > now + 1 - SpendWindow})
LiveLong(es) == Restrict(es, {e \in DOMAIN es : e.ts >= now - SpendWindow})

Live(es) == Restrict(es, {e \in DOMAIN es : e.ts > now - SpendWindow})
SumWeight(es) == SumFunction([e \in DOMAIN es |-> e.weight * es[e]])
WithinLimit(c, w) == SumWeight(Live(velocity[c])) + w <= SpendLimit
Recorded(es, e) == Put(es, e, IF e \in DOMAIN es THEN es[e] + 1 ELSE 1)
-----------------------------------------------------------------------------
Init ==
    /\ now = 0
    /\ counter = 0
    /\ consumed = <<>>
    /\ velocity = [c \in Callers |-> <<>>]
    /\ tokens = {}
    /\ boot = 0
    /\ redeemed = <<>>

\* The response to a request renders a page of the caller, unless it is a
\* redirect or a page without a secure form.
Respond(c) ==
    \/ UNCHANGED <<counter, tokens>>
    \/ \E r \in Routes, i \in Intents \cup {NoIntent} :
          /\ i # NoIntent => r \in SpendRoutes
          /\ Cardinality(tokens) + 2 <= MaxTokens
          /\ tokens' = tokens \cup Minted(c, r, i)
          /\ counter' = counter + (IF i = NoIntent THEN 1 ELSE 2)

\* GET of a page, or a render poll, through the update path.
Render(c) ==
    /\ Respond(c)
    /\ UNCHANGED <<now, consumed, velocity, boot, redeemed>>

\* The secure-form check of serveEvent passes and the nonce is consumed.
FormAccepted(c, r, t) ==
    /\ Verify(t, c, r, FormSchema, NoIntent)
    /\ t.nonce \notin DOMAIN consumed

FormRedemption(c, t) ==
    [token |-> t, by |-> c, intent |-> NoIntent, at |-> now, weight |-> 0]
SpendRedemption(c, s, i, w) ==
    [token |-> s, by |-> c, intent |-> i, at |-> now, weight |-> w]

\* serveEvent of a secure form whose handler authorizes no spend.
SubmitForm(c, r, t) ==
    /\ r \notin SpendRoutes
    /\ FormAccepted(c, r, t)
    /\ consumed' = ConsumeNonce(consumed, t.nonce)
    /\ redeemed' = Append(redeemed, FormRedemption(c, t))
    /\ Respond(c)
    /\ UNCHANGED <<now, velocity, boot>>

\* App.authorizeSpend, called by the handler after the form's nonce is gone.
SpendAuthorized(c, r, s, i, w, store) ==
    /\ Verify(s, c, r, i, i)
    /\ s.nonce \notin DOMAIN store
    /\ WithinLimit(c, w)

\* serveEvent of a confirm form: form token t, spend token s, and the intent i
\* the page displays when the event arrives.
ConfirmSpend(c, r, t, s, i, w) ==
    LET store == ConsumeNonce(consumed, t.nonce)
        past  == Append(redeemed, FormRedemption(c, t))
    IN  /\ r \in SpendRoutes
        /\ FormAccepted(c, r, t)
        /\ IF SpendAuthorized(c, r, s, i, w, store)
           THEN /\ velocity' = [velocity EXCEPT ![c] = Recorded(Live(@), [ts |-> now, weight |-> w])]
                /\ consumed' = ConsumeNonce(store, s.nonce)
                /\ redeemed' = Append(past, SpendRedemption(c, s, i, w))
           ELSE /\ consumed' = store
                /\ redeemed' = past
                /\ UNCHANGED velocity
        /\ Respond(c)
        /\ UNCHANGED <<now, boot>>

\* A new block.
Tick ==
    /\ now < MaxTime
    /\ now' = now + 1
    /\ UNCHANGED <<counter, consumed, velocity, tokens, boot, redeemed>>

\* (mutant: the consumed nonces are not carried over)
UpgradeWithoutConsumed ==
    /\ now < MaxTime
    /\ now' = now + 1
    /\ boot' = now'
    /\ counter' = 0
    /\ consumed' = <<>>
    /\ UNCHANGED <<velocity, tokens, redeemed>>

\* An upgrade: preupgrade dumps the stores, the new actor's init reloads them;
\* App.counter starts again.  It runs in a later block than what it interrupts.
Upgrade ==
    /\ now < MaxTime
    /\ now' = now + 1
    /\ boot' = now'
    /\ counter' = 0
    /\ consumed' = SetConsumed(consumed, now')
    /\ UNCHANGED <<velocity, tokens, redeemed>>

Next ==
    \/ \E c \in Callers : Render(c)
    \/ \E c \in Callers, r \in Routes, t \in tokens : SubmitForm(c, r, t)
    \/ \E c \in Callers, r \in Routes, t, s \in tokens, i \in Intents, w \in Weights :
          ConfirmSpend(c, r, t, s, i, w)
    \/ Tick
    \/ Upgrade

Spec == Init /\ [][Next]_vars
-----------------------------------------------------------------------------
(* Type invariant. *)
TypeOK ==
    /\ now \in Nat
    /\ counter \in Nat
    /\ DOMAIN consumed \subseteq Nonce
    /\ consumed \in [DOMAIN consumed -> Nat]
    /\ velocity \in [Callers -> {velocity[c] : c \in Callers}]
    /\ \A c \in Callers : IsLog(velocity[c])
    /\ tokens \subseteq Token
    /\ boot \in Nat
    /\ redeemed \in Seq(Redemption)

(* Single use: no nonce is accepted twice, by the form check, by the spend    *)
(* gate or by one of each, whatever the store has pruned and however many     *)
(* upgrades lie in between (the SOUNDNESS comment of consumeNonce, and the    *)
(* persistence of mvConsumed).                                                *)
SingleUse ==
    \A i, j \in DOMAIN redeemed :
        redeemed[i].token.nonce = redeemed[j].token.nonce => i = j

(* Two tokens never share a nonce, although the counter starts again after    *)
(* every upgrade and tokens of earlier incarnations are still in the pages    *)
(* (makeCtx: the nonce is the time and the counter).                          *)
NoncesUnique ==
    \A t, u \in tokens : t.nonce = u.nonce => t = u

(* The store never refuses a submission that was not made before: what it     *)
(* holds are nonces that were redeemed ("replayed submission" is only said    *)
(* of a replay).                                                              *)
NoFalseReplay ==
    \A t \in tokens :
        t.nonce \in DOMAIN consumed =>
            \E i \in DOMAIN redeemed : redeemed[i].token = t

(* The store is bounded by its cap or by the submissions of one token         *)
(* lifetime: over the cap it keeps only nonces that were alive when the       *)
(* latest one was consumed (consumeNonce prunes on the put, not later).       *)
StoreBounded ==
    Cardinality(DOMAIN consumed) > StoreCap =>
        \A m, n \in DOMAIN consumed : consumed[m] + TokenLife >= consumed[n]

(* The inductive invariant behind SingleUse and NoncesUnique.  A store is      *)
(* sound for a history when it remembers every redeemed nonce that could      *)
(* still be presented, for at least as long, and nothing but redeemed ones.   *)
SoundStore(store, past, issued, time) ==
    /\ DOMAIN store \subseteq Nonce
    /\ store \in [DOMAIN store -> Nat]
    /\ past \in Seq(Redemption)
    /\ \A n \in DOMAIN store : store[n] >= n[1] + TokenLife
    /\ \A n \in DOMAIN store : \E i \in DOMAIN past : past[i].token.nonce = n
    /\ \A i \in DOMAIN past :
          /\ past[i].token \in issued
          /\ past[i].token.nonce \in DOMAIN store
                \/ past[i].token.nonce[1] + TokenLife < time
    /\ \A i, j \in DOMAIN past : past[i].token.nonce = past[j].token.nonce => i = j

\* A token's deadline is determined by its nonce, and a nonce of this incarnation
\* does not exceed the counter.
TokensDated ==
    \A t \in tokens :
        /\ t.expiry = t.nonce[1] + TokenLife
        /\ t.nonce[1] <= now
        /\ t.nonce[1] < boot \/ t.nonce[2] <= counter

Inductive ==
    /\ TypeOK
    /\ boot <= now
    /\ TokensDated
    /\ NoncesUnique
    /\ SoundStore(consumed, redeemed, tokens, now)

(* In every window of SpendWindow ticks, a principal's authorized spends sum  *)
(* to at most SpendLimit, although the log is pruned on every record and is   *)
(* dumped and reloaded by upgrades (WalletAuth.Velocity).                     *)
SpendsOf(past, c, from) ==
    {i \in DOMAIN past : /\ past[i].by = c
                         /\ past[i].intent # NoIntent
                         /\ past[i].at > from
                         /\ past[i].at <= from + SpendWindow}
WeightOf(past, spends) == SumFunctionOnSet([i \in DOMAIN past |-> past[i].weight], spends)
WindowSum(c, from) == WeightOf(redeemed, SpendsOf(redeemed, c, from))
SpendWindowBounded ==
    \A c \in Callers : \A from \in (0 - SpendWindow)..MaxTime : WindowSum(c, from) <= SpendLimit

(* Nothing counts against the limit but authorized spends: the live part of   *)
(* the pruned log is exactly what the history of redemptions says (a rejected *)
(* attempt "costs the caller nothing toward their limit").                    *)
VelocityAgrees ==
    \A c \in Callers : SumWeight(Live(velocity[c])) = WindowSum(c, now - SpendWindow)

(* The inductive invariant behind the two: from any moment of the present      *)
(* window on, the log says what the history says, whatever it has forgotten.  *)
SpendsSince(past, c, from) ==
    {i \in DOMAIN past : past[i].by = c /\ past[i].intent # NoIntent /\ past[i].at > from}
LoggedSince(es, from) ==
    SumFunctionOnSet([e \in DOMAIN es |-> e.weight * es[e]], {e \in DOMAIN es : e.ts > from})
SpendsAccounted ==
    /\ \A c \in Callers :
          /\ IsFiniteSet(DOMAIN velocity[c])
          /\ \A e \in DOMAIN velocity[c] : e.ts <= now
          /\ \A from \in (now - SpendWindow)..now :
                LoggedSince(velocity[c], from) = WeightOf(redeemed, SpendsSince(redeemed, c, from))
    /\ \A i \in DOMAIN redeemed : redeemed[i].at <= now

(* What StoreBounded rests on: no entry of the store is later than one        *)
(* lifetime from now.                                                         *)
StoreTimely ==
    /\ IsFiniteSet(DOMAIN consumed)
    /\ \A n \in DOMAIN consumed : consumed[n] <= now + TokenLife

(* The refinement: the pages' tokens, the store, its pruning and the upgrades *)
(* implement tickets that are redeemed once, by their owner, for their        *)
(* purpose, in time.                                                          *)
Tickets == INSTANCE SingleUseTickets WITH
    clock <- now,
    issued <- tokens,
    redemptions <- [i \in DOMAIN redeemed |-> [ticket |-> redeemed[i].token,
                                               by |-> redeemed[i].by,
                                               intent |-> redeemed[i].intent]]
ImplementsTickets == Tickets!TicketSpec
=============================================================================
