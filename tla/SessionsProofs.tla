---------------------------- MODULE SessionsProofs ----------------------------
(***************************************************************************)
(* Proofs about Sessions for every number of tabs, browsers, principals    *)
(* and worlds: types, single exchange, the cap of the pending table, own   *)
(* sessions, and the refinement of SessionLedger.                          *)
(***************************************************************************)
EXTENDS Sessions, FiniteSetTheorems, TLAPS

(* What a well-typed message carries.                                         *)
LEMMA MessageFields ==
    ASSUME NEW m \in Message
    PROVE  /\ m.kind \in {"begin", "redeem"} => m.login \in Nonce \cup {None}
           /\ m.kind = "begun" => m.login \in Nonce
           /\ m.kind \in {"logout", "signedIn"} => m.session \in Session
           /\ m.kind \in {"begin", "redeem", "begun"} => m # Quiet
  BY DEF Message, Quiet

(* The settings of a world.                                                   *)
LEMMA WorldFields ==
    ASSUME world \in Worlds
    PROVE  /\ HomeOf \in [Tabs -> Browsers]
           /\ world.users \in [Tabs -> SUBSET Principals]
           /\ PendingTtl \in Nat /\ PruneAge \in Nat
  BY SessionConstants DEF HomeOf, PendingTtl, PruneAge

(* Sending a message leaves the other tabs' messages alone.                   *)
LEMMA SendFields ==
    ASSUME NEW t \in Tabs, NEW m, wire \in [Tabs -> Message], Send(t, m)
    PROVE  /\ wire'[t] = m
           /\ \A u \in Tabs \ {t} : wire'[u] = wire[u]
           /\ m \in Message => wire' \in [Tabs -> Message]
  BY DEF Send

(* What establish does to the pending table.                                  *)
LEMMA EstablishTable ==
    ASSUME NEW n \in Nonce, NEW p \in Principals, now \in Nat,
           DOMAIN pending \subseteq Nonce,
           pending \in [DOMAIN pending -> [who : Principals, at : Nat]]
    PROVE  LET table == Establish(n, p)
           IN  /\ DOMAIN table \subseteq DOMAIN pending \cup {n}
               /\ table \in [DOMAIN table -> [who : Principals, at : Nat]]
               /\ \A m \in DOMAIN table :
                     \/ m \in DOMAIN pending /\ table[m] = pending[m]
                     \/ m = n /\ table[m] = [who |-> p, at |-> now]
  <1> DEFINE young == IF Cardinality(DOMAIN pending) >= PendingCap
                      THEN {m \in DOMAIN pending : pending[m].at >= now - PruneAge}
                      ELSE DOMAIN pending
             kept == Restrict(pending, young)
             added == [m \in young \cup {n} |-> IF m = n THEN [who |-> p, at |-> now] ELSE kept[m]]
  <1>1. young \subseteq DOMAIN pending
    OBVIOUS
  <1>2. DOMAIN kept = young /\ \A m \in young : kept[m] = pending[m]
    BY DEF Restrict
  <1>3. CASE Establish(n, p) = kept
    BY <1>1, <1>2, <1>3 DEF Restrict
  <1>4. CASE Establish(n, p) = added
    <2>1. [who |-> p, at |-> now] \in [who : Principals, at : Nat]
      OBVIOUS
    <2>2. DOMAIN added = young \cup {n}
      OBVIOUS
    <2>3. \A m \in DOMAIN added :
             added[m] = IF m = n THEN [who |-> p, at |-> now] ELSE pending[m]
      BY <1>2
    <2>4. \A m \in DOMAIN added : added[m] \in [who : Principals, at : Nat]
      BY <1>1, <2>1, <2>3
    <2>5. added \in [DOMAIN added -> [who : Principals, at : Nat]]
      BY <2>2, <2>4
    <2> HIDE DEF added
    <2>. QED  BY <1>1, <1>4, <2>2, <2>3, <2>5
  <1> HIDE DEF young
  <1>. QED  BY <1>3, <1>4 DEF Establish, young

LEMMA TypeInit == Init => TypeOK
  BY SessionConstants DEF Init, TypeOK, TabState, Idle, Quiet, Message

(* Every step keeps the types; that a travelling nonce belongs to somebody    *)
(* is what a signed call needs.                                               *)
LEMMA TypeStep ==
    ASSUME TypeOK, FlowsOwned, [Next]_vars
    PROVE  TypeOK'
  <1> USE DEF TypeOK, TabState
  <1>1. ASSUME NEW t \in Tabs, Machine(t) PROVE TypeOK'
    <2> wire[t] \in Message
      OBVIOUS
    <2>1. CASE ReceiveNonce(t)
      <3>1. wire[t].login \in Nonce /\ tabs[t].who \in Principals
        BY <2>1, MessageFields DEF ReceiveNonce, FlowsOwned
      <3>2. wire' \in [Tabs -> Message]
        BY <2>1, SendFields DEF ReceiveNonce, Message
      <3>3. tabs' \in [Tabs -> TabState]
        BY <2>1 DEF ReceiveNonce
      <3>4. calls' \subseteq [nonce : Nonce, who : Principals]
        BY <2>1, <3>1 DEF ReceiveNonce
      <3>5. loginCookie' \in [Browsers -> Nonce \cup {None}]
        BY <2>1, <3>1, WorldFields DEF ReceiveNonce
      <3>. QED  BY <2>1, <3>2, <3>3, <3>4, <3>5 DEF ReceiveNonce, serverVars, historyVars
    <2>2. CASE Poll(t)
      <3>1. loginCookie[HomeOf[t]] \in Nonce \cup {None}
        BY WorldFields
      <3>2. wire' \in [Tabs -> Message]
        BY <2>2, <3>1, SendFields DEF Poll, Message
      <3>3. tabs' \in [Tabs -> TabState]
        BY <2>2 DEF Poll
      <3>. QED  BY <2>2, <3>2, <3>3 DEF Poll, serverVars, cookieVars, historyVars
    <2>3. CASE ReceiveSession(t)
      <3>1. wire[t].session \in Session
        BY <2>3, MessageFields DEF ReceiveSession
      <3>2. wire' \in [Tabs -> Message]
        BY <2>3, SendFields DEF ReceiveSession, Message
      <3>. QED  BY <2>3, <3>1, <3>2, WorldFields DEF ReceiveSession, serverVars, historyVars, Idle
    <2>4. CASE ReceiveRefusal(t)
      <3>1. wire' \in [Tabs -> Message]
        BY <2>4, SendFields DEF ReceiveRefusal, Message
      <3>. QED  BY <2>4, <3>1 DEF ReceiveRefusal, serverVars, cookieVars, historyVars, Idle
    <2>5. CASE ReceiveLogout(t)
      <3>1. wire' \in [Tabs -> Message]
        BY <2>5, SendFields DEF ReceiveLogout, Message
      <3>. QED  BY <2>5, <3>1, WorldFields DEF ReceiveLogout, serverVars, historyVars, Idle
    <2>6. CASE ServeBegin(t)
      <3>1. FreshNonce \in Nonce
        BY DEF FreshNonce, Nonce
      <3>2. wire' \in [Tabs -> Message]
        BY <2>6, <3>1, SendFields DEF ServeBegin, Message
      <3>. QED  BY <2>6, <3>2 DEF ServeBegin, cookieVars, historyVars
    <2>7. CASE ServeSession(t)
      <3> DEFINE n == wire[t].login
                 s == MintSession(pending[n].who)
      <3>1. n \in DOMAIN pending /\ n \in Nonce
        BY <2>7 DEF ServeSession, Redeemable
      <3>2. s \in Session
        BY <3>1, SessionConstants DEF MintSession, Session
      <3>3. wire' \in [Tabs -> Message]
        BY <2>7, <3>2, SendFields DEF ServeSession, Message
      <3>4. /\ DOMAIN pending' \subseteq Nonce
            /\ pending' \in [DOMAIN pending' -> [who : Principals, at : Nat]]
        BY <2>7 DEF ServeSession, Restrict
      <3>. QED  BY <2>7, <3>1, <3>2, <3>3, <3>4 DEF ServeSession, cookieVars
    <2>8. CASE ServeRefusal(t)
      <3>1. wire' \in [Tabs -> Message]
        BY <2>8, SendFields DEF ServeRefusal, Message
      <3>. QED  BY <2>8, <3>1 DEF ServeRefusal, serverVars, cookieVars, historyVars
    <2>9. CASE ServeLogout(t)
      <3>1. wire' \in [Tabs -> Message]
        BY <2>9, SendFields DEF ServeLogout, Message
      <3>2. epochs' \in [Principals -> Nat]
        BY <2>9 DEF ServeLogout
      <3>. QED  BY <2>9, <3>1, <3>2 DEF ServeLogout, cookieVars, historyVars
    <2>. QED  BY <1>1, <2>1, <2>2, <2>3, <2>4, <2>5, <2>6, <2>7, <2>8, <2>9 DEF Machine
  <1>2. ASSUME NEW t \in Tabs, StartLogout(t) PROVE TypeOK'
    <2>1. sessionCookie[HomeOf[t]] \in Session
      BY <1>2, WorldFields DEF StartLogout
    <2>2. wire' \in [Tabs -> Message]
      BY <1>2, <2>1, SendFields DEF StartLogout, Message
    <2>. QED  BY <1>2, <2>2 DEF StartLogout, serverVars, cookieVars, historyVars
  <1>3. ASSUME NEW t \in Tabs, Lose(t) PROVE TypeOK'
    <2>1. wire' \in [Tabs -> Message]
      BY <1>3, SendFields DEF Lose, Message
    <2>. QED  BY <1>3, <2>1 DEF Lose, serverVars, cookieVars, historyVars, Idle
  <1>4. ASSUME NEW t \in Tabs, NEW p \in Principals, StartLogin(t, p) PROVE TypeOK'
    <2>1. wire' \in [Tabs -> Message]
      BY <1>4, SendFields DEF StartLogin, Message
    <2>2. tabs' \in [Tabs -> TabState]
      <3>1. [phase |-> "beginning", who |-> p, polls |-> 0] \in TabState
        OBVIOUS
      <3>2. tabs' = [tabs EXCEPT ![t] = [phase |-> "beginning", who |-> p, polls |-> 0]]
        BY <1>4 DEF StartLogin
      <3> HIDE DEF TabState
      <3>. QED  BY <3>1, <3>2
    <2>3. chosen' \subseteq Browsers \X Principals
      <3>1. HomeOf[t] \in Browsers
        BY WorldFields
      <3>2. chosen' = chosen \cup {<<HomeOf[t], p>>}
        BY <1>4 DEF StartLogin
      <3>. QED  BY <3>1, <3>2
    <2>. QED  BY <1>4, <2>1, <2>2, <2>3 DEF StartLogin, serverVars, cookieVars
  <1>5. ASSUME NEW c \in calls, ServeEstablish(c) PROVE TypeOK'
    <2>1. /\ DOMAIN pending' \subseteq Nonce
          /\ pending' \in [DOMAIN pending' -> [who : Principals, at : Nat]]
      BY <1>5, EstablishTable DEF ServeEstablish
    <2>. QED  BY <1>5, <2>1 DEF ServeEstablish, cookieVars, historyVars
  <1>6. ASSUME NEW c \in calls, LoseCall(c) PROVE TypeOK'
    BY <1>6 DEF LoseCall, serverVars, cookieVars, historyVars
  <1>7. CASE Tick
    BY <1>7 DEF Tick, cookieVars, historyVars
  <1>8. CASE Upgrade
    <2>1. DOMAIN << >> = {} /\ << >> \in [DOMAIN << >> -> [who : Principals, at : Nat]]
      OBVIOUS
    <2>. QED  BY <1>8, <2>1 DEF Upgrade, cookieVars, historyVars
  <1>9. CASE UNCHANGED vars
    BY <1>9 DEF vars, serverVars, cookieVars, historyVars
  <1>. QED  BY <1>1, <1>2, <1>3, <1>4, <1>5, <1>6, <1>7, <1>8, <1>9 DEF Next

(* The stages of a nonce and who holds it, in terms of messages.              *)
LEMMA HeldStep ==
    ASSUME TypeOK, world' = world,
           \A b \in Browsers : loginCookie'[b] \in {loginCookie[b], None},
           \A u \in Tabs : wire'[u].kind = "redeem" =>
               \/ wire'[u] = wire[u]
               \/ wire'[u].login = loginCookie[HomeOf[u]]
    PROVE  \A b \in Browsers : HeldBy(b)' \subseteq HeldBy(b)
  <1> SUFFICES ASSUME NEW b \in Browsers, NEW n \in HeldBy(b)' PROVE n \in HeldBy(b)
    OBVIOUS
  <1>1. HomeOf' = HomeOf
    BY DEF HomeOf
  <1>2. n # None
    BY DEF HeldBy
  <1>3. CASE n = loginCookie'[b]
    BY <1>2, <1>3 DEF HeldBy
  <1>4. CASE \E u \in Tabs : wire'[u].kind = "redeem" /\ HomeOf[u] = b /\ n = wire'[u].login
    BY <1>2, <1>4 DEF HeldBy
  <1>. QED  BY <1>1, <1>3, <1>4 DEF HeldBy

(* Every nonce that is anywhere is one.                                       *)
LEMMA StagesTyped ==
    ASSUME TypeOK
    PROVE  Answered \cup Signed \cup DOMAIN pending \cup exchanged \cup Held \subseteq Nonce
  <1>1. Answered \subseteq Nonce
    BY MessageFields DEF Answered, TypeOK
  <1>2. Signed \subseteq Nonce
    BY DEF Signed, TypeOK
  <1>3. Held \subseteq Nonce
    <2> SUFFICES ASSUME NEW b \in Browsers, NEW n \in HeldBy(b) PROVE n \in Nonce
      BY DEF Held
    <2>1. loginCookie[b] \in Nonce \cup {None}
      BY DEF TypeOK
    <2>2. \A t \in Tabs : wire[t].kind = "redeem" => wire[t].login \in Nonce \cup {None}
      BY MessageFields DEF TypeOK
    <2>. QED  BY <2>1, <2>2 DEF HeldBy
  <1>. QED  BY <1>1, <1>2, <1>3 DEF TypeOK

(* A step after which no nonce is where it was not before keeps what is known *)
(* of the nonces.                                                             *)
LEMMA NoNewNonce ==
    ASSUME TypeOK, NoncesDated, NoncesInStages, LoginsOwned,
           \A u \in Tabs : wire'[u].kind = "begun" => wire'[u] = wire[u],
           calls' \subseteq calls,
           DOMAIN pending' \subseteq DOMAIN pending,
           \A n \in DOMAIN pending' : pending'[n] = pending[n],
           exchanged' = exchanged,
           \A b \in Browsers : HeldBy(b)' \subseteq HeldBy(b),
           chosen \subseteq chosen',
           now' \in Nat, now' > now \/ (now' = now /\ loginCounter' = loginCounter)
    PROVE  NoncesDated' /\ NoncesInStages' /\ LoginsOwned'
  <1>1. /\ Answered' \subseteq Answered
        /\ Signed' \subseteq Signed
        /\ Held' \subseteq Held
    BY DEF Answered, Signed, Held
  <1>2. \A n \in Answered \cup Signed \cup DOMAIN pending \cup exchanged \cup Held : Dated(n)'
    BY StagesTyped DEF NoncesDated, Dated, TypeOK, Nonce
  <1>3. NoncesDated'
    BY <1>1, <1>2 DEF NoncesDated
  <1>4. NoncesInStages'
    BY <1>1 DEF NoncesInStages
  <1>5. LoginsOwned'
    BY DEF LoginsOwned
  <1>. QED  BY <1>3, <1>4, <1>5

(* Every step keeps what is known of the nonces: they are dated, in one stage *)
(* and held by one browser.                                                   *)
LEMMA NoncesStep ==
    ASSUME TypeOK, NoncesDated, NoncesInStages, FlowsOwned, LoginsOwned, [Next]_vars
    PROVE  NoncesDated' /\ NoncesInStages' /\ LoginsOwned'
  <1> DEFINE Goal == NoncesDated' /\ NoncesInStages' /\ LoginsOwned'
  <1>0. now \in Nat /\ wire \in [Tabs -> Message]
    BY DEF TypeOK
  <1>1. ASSUME NEW t \in Tabs, ReceiveNonce(t) PROVE Goal
    <2> DEFINE n == wire[t].login
               own == HomeOf[t]
    <2>1. /\ wire[t].kind = "begun"
          /\ wire'[t] = Quiet
          /\ \A u \in Tabs \ {t} : wire'[u] = wire[u]
          /\ calls' = calls \cup {[nonce |-> n, who |-> tabs[t].who]}
          /\ UNCHANGED <<world, now, loginCounter, pending, exchanged, chosen>>
      BY <1>0, <1>1, SendFields DEF ReceiveNonce, serverVars, historyVars
    <2>2. n \in Answered /\ n \notin Signed \cup DOMAIN pending \cup exchanged \cup Held
      BY <2>1 DEF Answered, NoncesInStages
    <2>3. HomeOf' = HomeOf /\ own \in Browsers
      BY <2>1, WorldFields DEF HomeOf, TypeOK
    <2>4. /\ Answered' \subseteq Answered \ {n}
          /\ Signed' = Signed \cup {n}
      <3>1. \A u \in Tabs : wire'[u].kind = "begun" => wire'[u] = wire[u] /\ u # t
        BY <2>1 DEF Quiet
      <3>2. \A u \in Tabs : wire'[u].kind = "begun" => wire'[u].login # n
        BY <2>1, <3>1 DEF NoncesInStages
      <3>3. Answered' \subseteq Answered \ {n}
        BY <3>1, <3>2 DEF Answered
      <3>4. Signed' = Signed \cup {n}
        <4> DEFINE signed == [nonce |-> n, who |-> tabs[t].who]
        <4>1. signed.nonce = n /\ calls' = calls \cup {signed}
          BY <2>1
        <4> HIDE DEF signed
        <4>. QED  BY <4>1 DEF Signed
      <3>. QED  BY <3>3, <3>4
    <2>5. \A b \in Browsers : HeldBy(b)' \subseteq HeldBy(b) \cup (IF b = own THEN {n} ELSE {})
      <3> SUFFICES ASSUME NEW b \in Browsers, NEW m \in HeldBy(b)', m \notin HeldBy(b)
                   PROVE  b = own /\ m = n
        OBVIOUS
      <3>1. \/ m = loginCookie'[b]
            \/ \E u \in Tabs : wire'[u].kind = "redeem" /\ HomeOf[u] = b /\ m = wire'[u].login
        BY <2>3 DEF HeldBy
      <3>2. m # None
        BY DEF HeldBy
      <3>3. \A u \in Tabs : wire'[u].kind = "redeem" => wire'[u] = wire[u]
        BY <2>1 DEF Quiet
      <3>4. loginCookie' = [loginCookie EXCEPT ![own] = n] /\ loginCookie \in [Browsers -> Nonce \cup {None}]
        BY <1>1 DEF ReceiveNonce, TypeOK
      <3>. QED  BY <3>1, <3>2, <3>3, <3>4 DEF HeldBy
    <2>6. Held' \subseteq Held \cup {n}
      BY <2>5 DEF Held
    <2>7. NoncesDated'
      BY <2>1, <2>2, <2>4, <2>6 DEF NoncesDated, Dated
    <2>8. NoncesInStages'
      <3>1. Answered' \cap (Signed' \cup DOMAIN pending' \cup exchanged' \cup Held') = {}
        BY <2>1, <2>4, <2>6 DEF NoncesInStages
      <3>2. Signed' \cap (DOMAIN pending' \cup exchanged') = {} /\ DOMAIN pending' \cap exchanged' = {}
        BY <2>1, <2>2, <2>4 DEF NoncesInStages
      <3>3. \A c, d \in calls' : c.nonce = d.nonce => c = d
        BY <2>1, <2>2 DEF NoncesInStages, Signed
      <3>4. \A u \in Tabs : wire'[u].kind = "begun" => wire'[u] = wire[u]
        BY <2>1 DEF Quiet
      <3>. QED  BY <3>1, <3>2, <3>3, <3>4 DEF NoncesInStages
    <2>9. LoginsOwned'
      <3> SUFFICES ASSUME NEW b \in Browsers, NEW m \in HeldBy(b)'
                   PROVE  /\ \A c \in calls' : c.nonce = m => <<b, c.who>> \in chosen
                          /\ m \in DOMAIN pending => <<b, pending[m].who>> \in chosen
        BY <2>1 DEF LoginsOwned
      <3>1. CASE m \in HeldBy(b)
        <4>1. m # n
          BY <2>2, <3>1 DEF Held
        <4>. QED  BY <2>1, <3>1, <4>1 DEF LoginsOwned
      <3>2. CASE b = own /\ m = n
        BY <2>1, <2>2, <3>2 DEF FlowsOwned, Signed
      <3>. QED  BY <2>5, <3>1, <3>2
    <2>. QED  BY <2>7, <2>8, <2>9
  <1>2. ASSUME NEW t \in Tabs, ServeBegin(t) PROVE Goal
    <2> DEFINE n == FreshNonce
    <2>1. /\ wire'[t] = [kind |-> "begun", login |-> n]
          /\ \A u \in Tabs \ {t} : wire'[u] = wire[u]
          /\ loginCounter' = loginCounter + 1
          /\ UNCHANGED <<world, now, pending, calls, exchanged, chosen, loginCookie>>
      BY <1>0, <1>2, SendFields DEF ServeBegin, cookieVars, historyVars
    <2>2. ~Dated(n) /\ n[2] = now' /\ n[1] <= loginCounter'
      BY <2>1 DEF FreshNonce, Dated, TypeOK
    <2>3. n \notin Answered \cup Signed \cup DOMAIN pending \cup exchanged \cup Held
      BY <2>2 DEF NoncesDated
    <2>4. Answered' \subseteq Answered \cup {n} /\ Signed' = Signed
      BY <2>1 DEF Answered, Signed
    <2>5. \A b \in Browsers : HeldBy(b)' \subseteq HeldBy(b)
      BY <2>1, HeldStep DEF TypeOK
    <2>6. Held' \subseteq Held
      BY <2>5 DEF Held
    <2>7. NoncesDated'
      <3>1. \A m \in Answered \cup Signed \cup DOMAIN pending \cup exchanged \cup Held : Dated(m)'
        BY <2>1, StagesTyped DEF NoncesDated, Dated, TypeOK, Nonce
      <3> DEFINE all == Answered' \cup Signed' \cup DOMAIN pending' \cup exchanged' \cup Held'
      <3>2. \A m \in all : m \in Answered \cup Signed \cup DOMAIN pending \cup exchanged \cup Held \/ m = n
        BY <2>1, <2>4, <2>6
      <3>3. \A m \in all : m[2] < now' \/ (m[2] = now' /\ m[1] <= loginCounter')
        BY <2>2, <3>1, <3>2 DEF Dated
      <3>. QED  BY <3>3 DEF NoncesDated, Dated
    <2>8. NoncesInStages'
      <3>1. Answered' \cap (Signed' \cup DOMAIN pending' \cup exchanged' \cup Held') = {}
        BY <2>1, <2>3, <2>4, <2>6 DEF NoncesInStages
      <3>2. ASSUME NEW u \in Tabs, NEW v \in Tabs, wire'[u].kind = "begun", wire'[v].kind = "begun",
                   wire'[u].login = wire'[v].login
            PROVE  u = v
        <4>1. \A w \in Tabs \ {t} : wire'[w].kind = "begun" => wire'[w].login # n
          BY <2>1, <2>3 DEF Answered
        <4>. QED  BY <2>1, <3>2, <4>1 DEF NoncesInStages
      <3>. QED  BY <2>1, <2>4, <3>1, <3>2 DEF NoncesInStages
    <2>9. LoginsOwned'
      BY <2>1, <2>5 DEF LoginsOwned
    <2>. QED  BY <2>7, <2>8, <2>9
  <1>3. ASSUME NEW c \in calls, ServeEstablish(c) PROVE Goal
    <2> DEFINE n == c.nonce
    <2>1. /\ calls' = calls \ {c}
          /\ UNCHANGED <<world, now, loginCounter, wire, exchanged, chosen, loginCookie>>
      BY <1>3 DEF ServeEstablish, cookieVars, historyVars
    <2>2. \A m \in DOMAIN pending' :
             \/ m \in DOMAIN pending /\ pending'[m] = pending[m]
             \/ m = n /\ pending'[m].who = c.who
      BY <1>3, EstablishTable DEF ServeEstablish, TypeOK
    <2>3. n \in Signed /\ n \notin exchanged /\ n \notin DOMAIN pending
      BY DEF Signed, NoncesInStages
    <2>4. Answered' = Answered /\ Signed' \subseteq Signed \ {n}
      BY <2>1 DEF Answered, Signed, NoncesInStages
    <2>5. \A b \in Browsers : HeldBy(b)' = HeldBy(b)
      BY <2>1 DEF HeldBy, HomeOf
    <2>6. Held' = Held
      BY <2>5 DEF Held
    <2>7. NoncesDated'
      BY <2>1, <2>2, <2>3, <2>4, <2>6 DEF NoncesDated, Dated
    <2>8. NoncesInStages'
      BY <2>1, <2>2, <2>3, <2>4, <2>6 DEF NoncesInStages
    <2>9. LoginsOwned'
      BY <2>1, <2>2, <2>5 DEF LoginsOwned
    <2>. QED  BY <2>7, <2>8, <2>9
  <1>4. ASSUME NEW t \in Tabs, ServeSession(t) PROVE Goal
    <2> DEFINE n == wire[t].login
    <2>1. /\ n \in DOMAIN pending
          /\ wire'[t].kind = "signedIn"
          /\ \A u \in Tabs \ {t} : wire'[u] = wire[u]
          /\ DOMAIN pending' = DOMAIN pending \ {n}
          /\ \A m \in DOMAIN pending' : pending'[m] = pending[m]
          /\ exchanged' = exchanged \cup {n}
          /\ UNCHANGED <<world, now, loginCounter, calls, chosen, loginCookie>>
      BY <1>0, <1>4, SendFields DEF ServeSession, Redeemable, Restrict, cookieVars
    <2>2. Answered' \subseteq Answered /\ Signed' = Signed
      BY <2>1 DEF Answered, Signed
    <2>3. \A b \in Browsers : HeldBy(b)' \subseteq HeldBy(b)
      BY <2>1, HeldStep
    <2>4. Held' \subseteq Held
      BY <2>3 DEF Held
    <2>5. NoncesDated'
      BY <2>1, <2>2, <2>4 DEF NoncesDated, Dated
    <2>6. \A u \in Tabs : wire'[u].kind = "begun" => wire'[u] = wire[u]
      BY <2>1
    <2>7. NoncesInStages'
      BY <2>1, <2>2, <2>4, <2>6 DEF NoncesInStages
    <2>8. LoginsOwned'
      BY <2>1, <2>3 DEF LoginsOwned
    <2>. QED  BY <2>5, <2>7, <2>8
  <1>5. ASSUME NEW t \in Tabs, NEW m, Send(t, m), m.kind \notin {"begun", "redeem"},
               UNCHANGED <<world, now, loginCounter, pending, exchanged>>,
               calls' \subseteq calls, chosen \subseteq chosen',
               \A b \in Browsers : loginCookie'[b] \in {loginCookie[b], None}
        PROVE  Goal
    <2>1. wire'[t] = m /\ \A u \in Tabs \ {t} : wire'[u] = wire[u]
      BY <1>0, <1>5, SendFields
    <2>2. \A u \in Tabs : wire'[u].kind \in {"begun", "redeem"} => wire'[u] = wire[u]
      BY <1>5, <2>1
    <2>3. \A b \in Browsers : HeldBy(b)' \subseteq HeldBy(b)
      BY <1>5, <2>2, HeldStep
    <2>. QED  BY <1>0, <1>5, <2>2, <2>3, NoNewNonce
  <1>6. ASSUME NEW t \in Tabs, Poll(t) PROVE Goal
    <2>1. /\ wire'[t] = [kind |-> "redeem", login |-> loginCookie[HomeOf[t]]]
          /\ \A u \in Tabs \ {t} : wire'[u] = wire[u]
          /\ UNCHANGED <<world, now, loginCounter, pending, exchanged, calls, chosen, loginCookie>>
      BY <1>0, <1>6, SendFields DEF Poll, serverVars, cookieVars, historyVars
    <2>2. \A b \in Browsers : HeldBy(b)' \subseteq HeldBy(b)
      BY <2>1, HeldStep
    <2>. QED  BY <1>0, <2>1, <2>2, NoNewNonce
  <1>7. ASSUME UNCHANGED <<world, wire, exchanged, chosen, loginCookie>>,
               calls' \subseteq calls, DOMAIN pending' \subseteq DOMAIN pending,
               \A n \in DOMAIN pending' : pending'[n] = pending[n],
               now' \in Nat, now' > now \/ (now' = now /\ loginCounter' = loginCounter)
        PROVE  Goal
    <2>1. \A b \in Browsers : HeldBy(b)' \subseteq HeldBy(b)
      BY <1>7 DEF HeldBy, HomeOf
    <2>. QED  BY <1>7, <2>1, NoNewNonce
  <1>8. ASSUME NEW t \in Tabs,
               ReceiveSession(t) \/ ReceiveRefusal(t) \/ ReceiveLogout(t) \/ ServeRefusal(t)
                   \/ ServeLogout(t) \/ StartLogout(t) \/ Lose(t)
                   \/ \E p \in Principals : StartLogin(t, p)
        PROVE  Goal
    <2>1. \A b \in Browsers : loginCookie'[b] \in {loginCookie[b], None}
      BY <1>8 DEF ReceiveSession, ReceiveRefusal, ReceiveLogout, ServeRefusal, ServeLogout,
                  StartLogout, Lose, StartLogin, cookieVars, TypeOK
    <2>2. /\ UNCHANGED <<world, now, loginCounter, pending, exchanged, calls>>
          /\ chosen \subseteq chosen'
      BY <1>8 DEF ReceiveSession, ReceiveRefusal, ReceiveLogout, ServeRefusal, ServeLogout,
                  StartLogout, Lose, StartLogin, serverVars, historyVars
    <2>3. \E m : Send(t, m) /\ m.kind \notin {"begun", "redeem"}
      BY <1>8 DEF ReceiveSession, ReceiveRefusal, ReceiveLogout, ServeRefusal, ServeLogout,
                  StartLogout, Lose, StartLogin, Quiet
    <2>. QED  BY <1>5, <2>1, <2>2, <2>3
  <1>9. ASSUME NEW c \in calls, LoseCall(c) PROVE Goal
    BY <1>0, <1>7, <1>9 DEF LoseCall, serverVars, cookieVars, historyVars
  <1>10. CASE Tick
    BY <1>0, <1>7, <1>10 DEF Tick, cookieVars, historyVars
  <1>11. CASE Upgrade
    <2>1. DOMAIN << >> = {}
      OBVIOUS
    <2>. QED  BY <1>0, <1>7, <1>11, <2>1 DEF Upgrade, cookieVars, historyVars
  <1>12. CASE UNCHANGED vars
    BY <1>0, <1>7, <1>12 DEF vars, serverVars, cookieVars, historyVars
  <1>. QED  BY <1>1, <1>2, <1>3, <1>4, <1>6, <1>8, <1>9, <1>10, <1>11, <1>12 DEF Next, Machine

(* Every step keeps the owners: the login under way, the answer that carries  *)
(* a session and the session cookie belong to somebody the browser chose.     *)
LEMMA OwnersStep ==
    ASSUME TypeOK, FlowsOwned, LoginsOwned, AnswersOwned, OwnSessions, [Next]_vars
    PROVE  FlowsOwned' /\ AnswersOwned' /\ OwnSessions'
  <1> DEFINE Goal == FlowsOwned' /\ AnswersOwned' /\ OwnSessions'
  <1>0. wire \in [Tabs -> Message] /\ tabs \in [Tabs -> TabState]
    BY DEF TypeOK
  <1>1. ASSUME NEW t \in Tabs, NEW m, Send(t, m), m.kind \notin {"begin", "begun", "signedIn"},
               \A u \in Tabs \ {t} : tabs'[u] = tabs[u],
               UNCHANGED <<world, chosen>>,
               \A b \in Browsers : sessionCookie'[b] \in {sessionCookie[b], None}
        PROVE  Goal
    <2>1. wire'[t] = m /\ \A u \in Tabs \ {t} : wire'[u] = wire[u]
      BY <1>0, <1>1, SendFields
    <2>2. HomeOf' = HomeOf
      BY <1>1 DEF HomeOf
    <2>3. FlowsOwned'
      BY <1>1, <2>1, <2>2 DEF FlowsOwned
    <2>4. AnswersOwned'
      BY <1>1, <2>1, <2>2 DEF AnswersOwned
    <2>5. OwnSessions'
      BY <1>1 DEF OwnSessions
    <2>. QED  BY <2>3, <2>4, <2>5
  <1>2. ASSUME NEW t \in Tabs,
               ReceiveNonce(t) \/ Poll(t) \/ ReceiveRefusal(t) \/ ReceiveLogout(t) \/ ServeRefusal(t)
                   \/ ServeLogout(t) \/ StartLogout(t) \/ Lose(t)
        PROVE  Goal
    <2>1. \A u \in Tabs \ {t} : tabs'[u] = tabs[u]
      BY <1>0, <1>2 DEF ReceiveNonce, Poll, ReceiveRefusal, ReceiveLogout, ServeRefusal, ServeLogout,
                        StartLogout, Lose
    <2>2. /\ UNCHANGED <<world, chosen>>
          /\ \A b \in Browsers : sessionCookie'[b] \in {sessionCookie[b], None}
      BY <1>2 DEF ReceiveNonce, Poll, ReceiveRefusal, ReceiveLogout, ServeRefusal, ServeLogout,
                  StartLogout, Lose, cookieVars, historyVars, TypeOK
    <2>3. \E m : Send(t, m) /\ m.kind \notin {"begin", "begun", "signedIn"}
      BY <1>2 DEF ReceiveNonce, Poll, ReceiveRefusal, ReceiveLogout, ServeRefusal, ServeLogout,
                  StartLogout, Lose, Quiet
    <2>. QED  BY <1>1, <2>1, <2>2, <2>3
  <1>3. ASSUME NEW t \in Tabs, ReceiveSession(t) PROVE Goal
    <2>1. /\ wire'[t] = Quiet
          /\ \A u \in Tabs \ {t} : wire'[u] = wire[u] /\ tabs'[u] = tabs[u]
          /\ wire[t].kind = "signedIn"
          /\ UNCHANGED <<world, chosen>>
      BY <1>0, <1>3, SendFields DEF ReceiveSession, historyVars
    <2>2. HomeOf' = HomeOf
      BY <2>1 DEF HomeOf
    <2>3. FlowsOwned' /\ AnswersOwned'
      BY <2>1, <2>2 DEF FlowsOwned, AnswersOwned, Quiet
    <2>4. OwnSessions'
      BY <1>3, <2>1 DEF ReceiveSession, OwnSessions, AnswersOwned, TypeOK
    <2>. QED  BY <2>3, <2>4
  <1>4. ASSUME NEW t \in Tabs, ServeBegin(t) PROVE Goal
    <2>1. /\ wire[t].kind = "begin" /\ wire'[t].kind = "begun"
          /\ \A u \in Tabs \ {t} : wire'[u] = wire[u]
          /\ UNCHANGED <<world, chosen, tabs, sessionCookie>>
      BY <1>0, <1>4, SendFields DEF ServeBegin, cookieVars, historyVars
    <2>. QED  BY <2>1 DEF FlowsOwned, AnswersOwned, OwnSessions, HomeOf
  <1>5. ASSUME NEW t \in Tabs, ServeSession(t) PROVE Goal
    <2> DEFINE n == wire[t].login
    <2>1. /\ wire[t].kind = "redeem" /\ n \in DOMAIN pending
          /\ wire'[t] = [kind |-> "signedIn", session |-> MintSession(pending[n].who)]
          /\ \A u \in Tabs \ {t} : wire'[u] = wire[u]
          /\ UNCHANGED <<world, chosen, tabs, sessionCookie>>
      BY <1>0, <1>5, SendFields DEF ServeSession, Redeemable, cookieVars
    <2>2. wire'[t].session.who = pending[n].who
      BY <2>1 DEF MintSession
    <2>3. HomeOf[t] \in Browsers /\ n \in HeldBy(HomeOf[t])
      BY <2>1, WorldFields, SessionConstants DEF HeldBy, TypeOK, Nonce
    <2>4. <<HomeOf[t], wire'[t].session.who>> \in chosen
      BY <2>1, <2>2, <2>3 DEF LoginsOwned
    <2>5. HomeOf' = HomeOf
      BY <2>1 DEF HomeOf
    <2>. QED  BY <2>1, <2>4, <2>5 DEF FlowsOwned, AnswersOwned, OwnSessions
  <1>6. ASSUME NEW t \in Tabs, NEW p \in Principals, StartLogin(t, p) PROVE Goal
    <2>1. /\ wire'[t].kind = "begin" /\ tabs'[t].who = p
          /\ \A u \in Tabs \ {t} : wire'[u] = wire[u] /\ tabs'[u] = tabs[u]
          /\ chosen' = chosen \cup {<<HomeOf[t], p>>}
          /\ UNCHANGED <<world, sessionCookie>>
      BY <1>0, <1>6, SendFields DEF StartLogin, cookieVars
    <2>2. HomeOf' = HomeOf
      BY <2>1 DEF HomeOf
    <2>. QED  BY <2>1, <2>2 DEF FlowsOwned, AnswersOwned, OwnSessions
  <1>7. ASSUME UNCHANGED <<world, wire, tabs, chosen, sessionCookie>> PROVE Goal
    BY <1>7 DEF FlowsOwned, AnswersOwned, OwnSessions, HomeOf
  <1>8. ASSUME NEW c \in calls, ServeEstablish(c) \/ LoseCall(c) PROVE Goal
    BY <1>7, <1>8 DEF ServeEstablish, LoseCall, cookieVars, historyVars
  <1>9. CASE Tick \/ Upgrade \/ UNCHANGED vars
    BY <1>7, <1>9 DEF Tick, Upgrade, vars, cookieVars, historyVars
  <1>. QED  BY <1>2, <1>3, <1>4, <1>5, <1>6, <1>8, <1>9 DEF Next, Machine

(* No step takes an epoch back, and a session is minted with the present one. *)
LEMMA EpochsStep ==
    ASSUME TypeOK, EpochsReached, [Next]_vars
    PROVE  /\ EpochsReached'
           /\ \A p \in Principals : epochs'[p] \in Nat /\ epochs'[p] >= epochs[p]
  <1>1. CASE UNCHANGED <<minted, epochs>>
    BY <1>1 DEF EpochsReached, TypeOK
  <1>2. ASSUME NEW t \in Tabs, ServeSession(t)
        PROVE  EpochsReached' /\ epochs' = epochs
    <2> DEFINE p == pending[wire[t].login].who
    <2>1. p \in Principals /\ minted' = minted \cup {MintSession(p)} /\ epochs' = epochs
      BY <1>2 DEF ServeSession, Redeemable, TypeOK
    <2>2. MintSession(p).epoch = epochs[MintSession(p).who]
      BY DEF MintSession
    <2>3. epochs[p] \in Nat
      BY <2>1 DEF TypeOK
    <2>. QED  BY <2>1, <2>2, <2>3 DEF EpochsReached, MintSession
  <1>3. ASSUME NEW t \in Tabs, ServeLogout(t)
        PROVE  EpochsReached' /\ \A p \in Principals : epochs'[p] \in Nat /\ epochs'[p] >= epochs[p]
    <2>1. minted' = minted
      BY <1>3 DEF ServeLogout, historyVars
    <2>2. \A p \in Principals : epochs'[p] \in Nat /\ epochs'[p] >= epochs[p]
      BY <1>3 DEF ServeLogout, TypeOK
    <2>3. \A s \in minted : s.who \in Principals /\ s.epoch \in Nat
      BY DEF TypeOK, Session
    <2>. QED  BY <2>1, <2>2, <2>3 DEF EpochsReached, TypeOK
  <1>4. \/ UNCHANGED <<minted, epochs>>
        \/ \E t \in Tabs : ServeSession(t) \/ ServeLogout(t)
    BY DEF Next, Machine, ReceiveNonce, Poll, ReceiveSession, ReceiveRefusal, ReceiveLogout,
           ServeBegin, ServeRefusal, StartLogin, StartLogout, Lose, ServeEstablish, LoseCall,
           Tick, Upgrade, vars, serverVars, historyVars
  <1>. QED  BY <1>1, <1>2, <1>3, <1>4 DEF TypeOK

LEMMA InductiveInit == Init => Inductive
  <1> SUFFICES ASSUME Init PROVE Inductive
    OBVIOUS
  <1>1. DOMAIN pending = {} /\ \A t \in Tabs : wire[t].kind = "quiet"
    BY DEF Init, Quiet
  <1>2. Answered = {} /\ Signed = {}
    BY <1>1 DEF Init, Answered, Signed
  <1>3. \A b \in Browsers : HeldBy(b) = {}
    BY <1>1 DEF Init, HeldBy
  <1>4. Held = {}
    BY <1>3 DEF Held
  <1>5. NoncesDated /\ NoncesInStages
    BY <1>1, <1>2, <1>4 DEF Init, NoncesDated, NoncesInStages
  <1>6. FlowsOwned /\ LoginsOwned /\ AnswersOwned /\ OwnSessions /\ EpochsReached
    BY <1>1, <1>3 DEF Init, FlowsOwned, LoginsOwned, AnswersOwned, OwnSessions, EpochsReached
  <1>. QED  BY TypeInit, <1>5, <1>6 DEF Inductive

LEMMA InductiveStep == Inductive /\ [Next]_vars => Inductive'
  BY TypeStep, NoncesStep, OwnersStep, EpochsStep DEF Inductive

\* Fairness plays no part in safety.
LEMMA InductiveHolds == Init /\ [][Next]_vars => []Inductive
  BY InductiveInit, InductiveStep, PTL

(* establish never takes the table over its cap: it adds only to a table with *)
(* room for one more, after forgetting or not.                                *)
LEMMA EstablishBounded ==
    ASSUME NEW n, NEW p, IsFiniteSet(DOMAIN pending), PendingBounded
    PROVE  /\ IsFiniteSet(DOMAIN Establish(n, p))
           /\ Cardinality(DOMAIN Establish(n, p)) <= PendingCap
  <1> DEFINE full == Cardinality(DOMAIN pending) >= PendingCap
             young == IF full THEN {m \in DOMAIN pending : pending[m].at >= now - PruneAge}
                      ELSE DOMAIN pending
             kept == Restrict(pending, young)
             added == [m \in young \cup {n} |-> IF m = n THEN [who |-> p, at |-> now] ELSE kept[m]]
  <1>1. /\ IsFiniteSet(young)
        /\ Cardinality(young) \in Nat /\ Cardinality(DOMAIN pending) \in Nat
        /\ Cardinality(young) <= Cardinality(DOMAIN pending)
    <2>1. young \subseteq DOMAIN pending
      OBVIOUS
    <2> HIDE DEF young
    <2>. QED  BY <2>1, FS_Subset, FS_CardinalityType
  <1>2. PendingCap \in Nat
    BY SessionConstants
  <1>3. CASE Cardinality(young) >= PendingCap
    <2>1. Establish(n, p) = kept /\ DOMAIN kept = young
      BY <1>3 DEF Establish, Restrict
    <2> HIDE DEF young, kept
    <2>. QED  BY <1>1, <1>2, <2>1 DEF PendingBounded
  <1>4. CASE ~(Cardinality(young) >= PendingCap)
    <2>1. Establish(n, p) = added /\ DOMAIN added = young \cup {n}
      BY <1>4 DEF Establish
    <2> HIDE DEF young, added
    <2>2. /\ IsFiniteSet(young \cup {n})
          /\ Cardinality(young \cup {n}) = Cardinality(young) \/ Cardinality(young \cup {n}) = Cardinality(young) + 1
      BY <1>1, FS_AddElement
    <2>. QED  BY <1>1, <1>2, <1>4, <2>1, <2>2
  <1>. QED  BY <1>3, <1>4

LEMMA PendingBoundedStep ==
    ASSUME IsFiniteSet(DOMAIN pending), PendingBounded, [Next]_vars
    PROVE  IsFiniteSet(DOMAIN pending') /\ PendingBounded'
  <1>1. ASSUME NEW c \in calls, ServeEstablish(c)
        PROVE  IsFiniteSet(DOMAIN pending') /\ PendingBounded'
    BY <1>1, EstablishBounded DEF ServeEstablish, PendingBounded
  <1>2. ASSUME DOMAIN pending' \subseteq DOMAIN pending
        PROVE  IsFiniteSet(DOMAIN pending') /\ PendingBounded'
    <2>1. IsFiniteSet(DOMAIN pending') /\ Cardinality(DOMAIN pending') <= Cardinality(DOMAIN pending)
      BY <1>2, FS_Subset
    <2>2. Cardinality(DOMAIN pending') \in Nat /\ Cardinality(DOMAIN pending) \in Nat /\ PendingCap \in Nat
      BY <2>1, FS_CardinalityType, SessionConstants
    <2>. QED  BY <2>1, <2>2 DEF PendingBounded
  <1>3. CASE UNCHANGED pending
    BY <1>2, <1>3
  <1>4. CASE Upgrade
    BY <1>2, <1>4 DEF Upgrade
  <1>5. ASSUME NEW t \in Tabs, ServeSession(t)
        PROVE  IsFiniteSet(DOMAIN pending') /\ PendingBounded'
    BY <1>2, <1>5 DEF ServeSession, Restrict
  <1>6. \/ UNCHANGED pending
        \/ Upgrade
        \/ \E t \in Tabs : ServeSession(t)
        \/ \E c \in calls : ServeEstablish(c)
    BY DEF Next, Machine, ReceiveNonce, Poll, ReceiveSession, ReceiveRefusal, ReceiveLogout,
           ServeBegin, ServeRefusal, ServeLogout, StartLogin, StartLogout, Lose, LoseCall,
           Tick, vars, serverVars, historyVars
  <1>. QED  BY <1>1, <1>3, <1>4, <1>5, <1>6

(* The variables keep their types.                                            *)
THEOREM TypesHold == Spec => []TypeOK
  <1>1. Inductive => TypeOK
    BY DEF Inductive
  <1>. QED  BY <1>1, InductiveHolds, PTL DEF Spec

(* A nonce is exchanged at most once: what sessionFor exchanged is in no      *)
(* signed call that may still execute, and is never pending again.            *)
THEOREM ExchangedOnceHolds == Spec => []ExchangedOnce
  <1>1. Inductive => ExchangedOnce
    BY DEF Inductive, NoncesInStages, Signed, ExchangedOnce
  <1>. QED  BY <1>1, InductiveHolds, PTL DEF Spec

(* A browser's session cookie is only ever for somebody who signed in there,  *)
(* although the login counter starts again with every upgrade.                *)
THEOREM OwnSessionsHolds == Spec => []OwnSessions
  <1>1. Inductive => OwnSessions
    BY DEF Inductive
  <1>. QED  BY <1>1, InductiveHolds, PTL DEF Spec

(* The pending table keeps its cap, whatever calls of mvEstablish execute.    *)
THEOREM PendingBoundedHolds == Spec => []PendingBounded
  <1> DEFINE Finite == IsFiniteSet(DOMAIN pending)
  <1>1. Init => Finite /\ PendingBounded
    <2> SUFFICES ASSUME Init PROVE Finite /\ PendingBounded
      OBVIOUS
    <2>1. DOMAIN pending = {}
      BY DEF Init
    <2>. QED  BY <2>1, FS_EmptySet, SessionConstants DEF PendingBounded
  <1>2. Finite /\ PendingBounded /\ [Next]_vars => Finite' /\ PendingBounded'
    BY PendingBoundedStep
  <1> HIDE DEF Finite
  <1>. QED  BY <1>1, <1>2, PTL DEF Spec

LEMMA LedgerInitially == Init => Ledger!LedgerInit
  BY DEF Init, Ledger!LedgerInit

(* Every step of the bridge signs in, logs out, lets time pass, or is nothing *)
(* that the ledger shows: an epoch passed by a logout is not reached again,   *)
(* and the time only grows.                                                   *)
LEMMA LedgerStep ==
    Inductive /\ Inductive' /\ [Next]_vars => [Ledger!LedgerNext]_(Ledger!ledgerVars)
  <1> SUFFICES ASSUME Inductive, Inductive', [Next]_vars
               PROVE  Ledger!LedgerNext \/ UNCHANGED Ledger!ledgerVars
    OBVIOUS
  <1> DEFINE live == {s \in minted : VerifySession(s)}
             ended == {s \in minted : ~VerifySession(s)}
  <1>0. /\ now \in Nat /\ epochs \in [Principals -> Nat] /\ minted \subseteq Session
        /\ SessionTtl \in Nat
        /\ \A s \in minted : s.who \in Principals /\ s.epoch \in Nat /\ s.expiry \in Nat
        /\ \A s \in minted : s.epoch <= epochs[s.who]
    BY SessionConstants DEF Inductive, TypeOK, EpochsReached, Session
  <1>1. CASE UNCHANGED <<minted, epochs, now>>
    BY <1>1 DEF Ledger!ledgerVars, VerifySession
  <1>2. ASSUME NEW t \in Tabs, ServeSession(t) PROVE Ledger!SignIn
    <2> DEFINE p == pending[wire[t].login].who
               s == MintSession(p)
    <2>1. /\ p \in Principals
          /\ minted' = minted \cup {s}
          /\ UNCHANGED <<now, epochs>>
      BY <1>2 DEF ServeSession, Redeemable, Inductive, TypeOK
    <2>2. /\ VerifySession(s) /\ VerifySession(s)'
          /\ s.expiry = now + SessionTtl
      BY <1>0, <2>1 DEF VerifySession, MintSession
    <2>3. live' = live \cup {s} /\ ended' = ended
      BY <2>1, <2>2 DEF VerifySession
    <2>4. s \in live' /\ s \notin ended
      BY <2>2, <2>3
    <2>. QED  BY <2>1, <2>2, <2>3, <2>4 DEF Ledger!SignIn
  <1>3. ASSUME NEW t \in Tabs, ServeLogout(t), epochs' # epochs PROVE Ledger!LogOut
    <2> DEFINE p == EffectiveCaller(wire[t].session)
    <2>1. /\ p # None
          /\ epochs' = [epochs EXCEPT ![p] = @ + 1]
          /\ minted' = minted /\ now' = now
      BY <1>3 DEF ServeLogout, historyVars
    <2>2. p \in Principals
      BY <1>3, <2>1, MessageFields DEF ServeLogout, EffectiveCaller, Inductive, TypeOK, Session
    <2> HIDE DEF p
    <2>3. \A s \in minted : VerifySession(s)' <=> VerifySession(s) /\ s.who # p
      BY <1>0, <2>1, <2>2 DEF VerifySession
    <2>4. /\ live' = live \ {s \in live : s.who = p}
          /\ ended' = ended \cup {s \in live : s.who = p}
      BY <2>1, <2>3
    <2>. QED  BY <1>0, <2>1, <2>2, <2>4 DEF Ledger!LogOut
  <1>4. CASE Tick \/ Upgrade
    <2>1. now' = now + 1 /\ UNCHANGED <<minted, epochs>>
      BY <1>4 DEF Tick, Upgrade, historyVars
    <2>2. \A s \in minted : VerifySession(s)' <=> VerifySession(s) /\ ~(s.expiry < now')
      BY <1>0, <2>1 DEF VerifySession
    <2>3. /\ live' = live \ {s \in live : s.expiry < now'}
          /\ ended' = ended \cup {s \in live : s.expiry < now'}
      BY <2>1, <2>2
    <2>4. now' > now
      BY <1>0, <2>1
    <2>5. UNCHANGED epochs
      BY <2>1
    <2>6. Ledger!Elapse
      BY <2>3, <2>4, <2>5, Zenon DEF Ledger!Elapse
    <2>. QED  BY <2>6 DEF Ledger!LedgerNext
  <1>5. \/ UNCHANGED <<minted, epochs, now>>
        \/ \E t \in Tabs : ServeSession(t)
        \/ \E t \in Tabs : ServeLogout(t) /\ epochs' # epochs
        \/ Tick \/ Upgrade
    BY DEF Next, Machine, ReceiveNonce, Poll, ReceiveSession, ReceiveRefusal, ReceiveLogout,
           ServeBegin, ServeRefusal, ServeLogout, StartLogin, StartLogout, Lose, ServeEstablish,
           LoseCall, vars, serverVars, historyVars
  <1>. QED  BY <1>1, <1>2, <1>3, <1>4, <1>5 DEF Ledger!LedgerNext

(* The tokens that verify are a ledger of sessions: a logout ends exactly the *)
(* sessions of its principal, what ended never verifies again, and no lost    *)
(* message, other tab or upgrade ends a session.                              *)
THEOREM LedgerImplemented == Spec => ImplementsLedger
  BY LedgerInitially, InductiveHolds, LedgerStep, PTL
     DEF Spec, ImplementsLedger, Ledger!LedgerSpec
=============================================================================
