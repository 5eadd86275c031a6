-------------------------- MODULE CertPagesProofs --------------------------
(* Proofs about CertPages, for every set of callers, paths, entries and data. *)
EXTENDS CertPages, TLAPS

(* No two entries share a position of the certified tree. *)
OneKeyPerNode == \A j, k \in Keys : NodeOf[j] = NodeOf[k] => j = k

(* No two certifiable pages share an entry. *)
OneEntryPerPage ==
    \A p, q \in Certifiable : EntryOf[p] = EntryOf[q] => p = q

(* RegisterPage keeps the root in step with the registered bodies and leaves  *)
(* the page's own body registered.                                            *)
LEMMA RegisterInstalls ==
    ASSUME Inductive, NEW p \in Certifiable, RegisterPage(p), data' = data
    PROVE  /\ certReady' = TRUE
           /\ DOMAIN pageBound' = DOMAIN pageBound \cup {EntryOf[p]}
           /\ \A j \in DOMAIN pageBound' : pageBound'[j] \in Bodies
           /\ pageBound'[EntryOf[p]] = Body(p)
           /\ \A k \in DOMAIN pageBound \ {EntryOf[p]} : pageBound'[k] = pageBound[k]
           /\ root' = Entries(pageBound')
           /\ root' \subseteq Nodes \X Bodies
<1> DEFINE k == EntryOf[p]
<1>1. /\ k \in Keys
      /\ Body(p) \in Bodies
      /\ NodeOf \in [Keys -> Nodes]
    BY CertPagesConstants DEF Certifiable, Inductive, TypeOK, Body, Bodies
<1>2. ASSUME NEW b, DOMAIN b \subseteq Keys, \A j \in DOMAIN b : b[j] \in Bodies
      PROVE  Entries(b) \subseteq Nodes \X Bodies
    BY <1>1, <1>2 DEF Entries
<1>3. CASE k \in DOMAIN pageBound /\ pageBound[k] = Body(p)
    <2>1. certReady' = TRUE /\ pageBound' = pageBound
        BY <1>3 DEF RegisterPage, EnsureCert
    <2>2. root' = Entries(pageBound')
        BY <1>3, <2>1 DEF RegisterPage, EnsureCert, Inductive, TypeOK, CertificateCurrent
    <2> QED
        BY <1>2, <1>3, <2>1, <2>2 DEF Inductive, TypeOK
<1>4. CASE ~(k \in DOMAIN pageBound /\ pageBound[k] = Body(p))
    <2>1. /\ certReady' = TRUE
          /\ root' = Entries(pageBound')
          /\ pageBound' = [j \in DOMAIN pageBound \cup {k} |->
                              IF j = k THEN Body(p) ELSE pageBound[j]]
        BY <1>4 DEF RegisterPage
    <2>2. DOMAIN pageBound' = DOMAIN pageBound \cup {k}
        BY <2>1
    <2>3. /\ \A j \in DOMAIN pageBound' : pageBound'[j] \in Bodies
          /\ DOMAIN pageBound' \subseteq Keys
        BY <1>1, <2>1, <2>2 DEF Inductive, TypeOK
    <2> QED
        BY <1>2, <2>1, <2>2, <2>3
<1> QED
    BY <1>3, <1>4

(* ensureCert installs the root of the registered bodies, if it was not yet.  *)
LEMMA EnsureInstalls ==
    ASSUME Inductive, EnsureCert
    PROVE  /\ certReady' = TRUE
           /\ pageBound' = pageBound
           /\ root' = Entries(pageBound')
           /\ root' \subseteq Nodes \X Bodies
<1>1. NodeOf \in [Keys -> Nodes]
    BY CertPagesConstants
<1>2. /\ certReady' = TRUE
      /\ pageBound' = pageBound
      /\ root' = Entries(pageBound)
    BY DEF EnsureCert, Inductive, TypeOK, CertificateCurrent
<1>3. Entries(pageBound) \subseteq Nodes \X Bodies
    BY <1>1 DEF Entries, Inductive, TypeOK
<1> QED
    BY <1>2, <1>3

LEMMA InitInductive == Init => Inductive
<1>1. DOMAIN << >> = {}
    OBVIOUS
<1> QED
    BY <1>1, CertPagesConstants
    DEF Init, Inductive, TypeOK, CertificateCurrent, Callers

LEMMA NextInductive == Inductive /\ [Next]_vars => Inductive'
<1> SUFFICES ASSUME Inductive, [Next]_vars PROVE Inductive'
    OBVIOUS
<1> USE DEF store, cert
<1>1. ASSUME NEW c \in Callers, NEW p \in Paths, Query(c, p) PROVE Inductive'
    <2>1. Page(c, p, TRUE) \in [to : Callers, body : Bodies, certified : BOOLEAN]
        BY DEF Page, Body, Bodies, Inductive, TypeOK
    <2> QED
        BY <1>1, <2>1 DEF Query, Inductive, TypeOK, CertificateCurrent, Entries
<1>2. ASSUME NEW c \in Callers, NEW p \in Paths, ServePage(c, p) PROVE Inductive'
    <2>1. Page(c, p, FALSE) \in [to : Callers, body : Bodies, certified : BOOLEAN]
        BY DEF Page, Body, Bodies, Inductive, TypeOK
    <2>2. CASE p \in Certifiable
        <3>1. RegisterPage(p) /\ data' = data
            BY <1>2, <2>2 DEF ServePage
        <3>2. EntryOf[p] \in Keys
            BY <2>2, CertPagesConstants DEF Certifiable
        <3>3. /\ certReady' = TRUE
              /\ DOMAIN pageBound' = DOMAIN pageBound \cup {EntryOf[p]}
              /\ \A j \in DOMAIN pageBound' : pageBound'[j] \in Bodies
              /\ root' = Entries(pageBound')
              /\ root' \subseteq Nodes \X Bodies
            BY <2>2, <3>1, RegisterInstalls
        <3>4. CertificateCurrent'
            BY <3>3 DEF CertificateCurrent, Entries
        <3> QED
            BY <1>2, <2>1, <2>2, <3>2, <3>3, <3>4 DEF ServePage, Inductive, TypeOK
    <2>3. CASE p \notin Certifiable
        BY <1>2, <2>1, <2>3, EnsureInstalls
        DEF ServePage, Inductive, TypeOK, CertificateCurrent
    <2> QED
        BY <2>2, <2>3
<1>3. ASSUME NEW c \in Callers, NEW p \in Paths, ServeRedirect(c, p) PROVE Inductive'
    BY <1>3, EnsureInstalls DEF ServeRedirect, Inductive, TypeOK, CertificateCurrent
<1>4. CASE Store
    BY <1>4, EnsureInstalls DEF Store, Event, Inductive, TypeOK, CertificateCurrent
<1>5. ASSUME NEW c \in Clients, ClaimRole(c) PROVE Inductive'
    BY <1>5, EnsureInstalls DEF ClaimRole, Event, Inductive, TypeOK, CertificateCurrent
<1>6. ASSUME NEW c \in Clients, NEW other \in Clients,
             GrantRole(c, other) \/ RevokeRole(c, other)
      PROVE  Inductive'
    BY <1>6, EnsureInstalls
    DEF GrantRole, RevokeRole, Event, Inductive, TypeOK, CertificateCurrent
<1>7. CASE Upgrade
    <2>1. DOMAIN << >> = {}
        OBVIOUS
    <2> QED
        BY <1>7, <2>1 DEF Upgrade, Inductive, TypeOK, CertificateCurrent
<1>8. CASE UNCHANGED vars
    BY <1>8 DEF vars, Inductive, TypeOK, CertificateCurrent, Entries
<1> QED
    BY <1>1, <1>2, <1>3, <1>4, <1>5, <1>6, <1>7, <1>8 DEF Next

(* While the fast path is open, CertifiedData commits to exactly the entries  *)
(* that witnesses are built from (ensureCert, registerPage, recertify).       *)
THEOREM InductiveHolds == Spec => []Inductive
<1> QED
    BY InitInductive, NextInductive, PTL DEF Spec
-----------------------------------------------------------------------------
(* A gated page reaches only callers who hold the role when it is served:     *)
(* certifiedPage skips gated pages and serveGet asks authorized.              *)
THEOREM GatedServedToMembersAlways == Spec => GatedServedToMembers
<1> DEFINE Step == reply' # reply /\ reply' # NoReply =>
                       Authorized(reply'.body.path, reply'.to)
<1>1. [Next]_vars => [Step]_vars
    <2> SUFFICES ASSUME Next, reply' # reply, reply' # NoReply
                 PROVE  Authorized(reply'.body.path, reply'.to)
        OBVIOUS
    <2>1. PICK c \in Callers, p \in Paths : Query(c, p) \/ ServePage(c, p)
        BY DEF Next, ServeRedirect, Store, ClaimRole, GrantRole, RevokeRole, Event, Upgrade
    <2>2. reply'.to = c /\ reply'.body.path = p /\ Authorized(p, c)
        BY <2>1 DEF Query, ServePage, CertifiedPage, Page, Body, Authorized
    <2> QED
        BY <2>2
<1> QED
    BY <1>1, PTL DEF Spec, GatedServedToMembers

(* If no two entries share a node of the tree, every certified answer passes  *)
(* the boundary's verification.  Without the assumption it need not: /about   *)
(* and /about/ share a node.                                                  *)
THEOREM AnswersVerifyAlways ==
    ASSUME OneKeyPerNode
    PROVE  Spec => AnswersVerify
<1> DEFINE Step == reply' # reply /\ reply' # NoReply /\ reply'.certified =>
                       Verifies(reply'.body.path, reply'.body)
<1>1. Inductive /\ [Next]_vars => [Step]_vars
    <2> SUFFICES ASSUME Inductive, Next,
                        reply' # reply, reply' # NoReply, reply'.certified
                 PROVE  Verifies(reply'.body.path, reply'.body)
        OBVIOUS
    <2>1. PICK c \in Callers, p \in Paths : Query(c, p) \/ ServePage(c, p)
        BY DEF Next, ServeRedirect, Store, ClaimRole, GrantRole, RevokeRole, Event, Upgrade
    <2>2. /\ CertifiedPage(p)
          /\ reply'.body = Body(p)
          /\ reply'.body.path = p
        BY <2>1 DEF Query, ServePage, Page, Body
    <2> DEFINE k == EntryOf[p]
    <2>3. /\ k \in DOMAIN pageBound
          /\ pageBound[k] = Body(p)
          /\ root = Entries(pageBound)
          /\ DOMAIN pageBound \subseteq Keys
        BY <2>2 DEF CertifiedPage, Inductive, CertificateCurrent, TypeOK
    <2>4. ASSUME NEW e
          PROVE  e \in {x \in Entries(pageBound) : x[1] = NodeOf[k]}
                    <=> e = <<NodeOf[k], Body(p)>>
        BY <2>3 DEF Entries, OneKeyPerNode
    <2>5. {x \in root : x[1] = NodeOf[k]} = {<<NodeOf[k], Body(p)>>}
        BY <2>3, <2>4
    <2> QED
        BY <2>2, <2>5 DEF Verifies
<1> QED
    BY <1>1, InductiveHolds, PTL DEF Spec, AnswersVerify
-----------------------------------------------------------------------------
(* What an update served and the data still shows is registered as it is. *)
SettledAreBound ==
    \A p \in settled : /\ certReady
                       /\ EntryOf[p] \in DOMAIN pageBound
                       /\ pageBound[EntryOf[p]] = Body(p)

LEMMA SettledStep ==
    ASSUME OneEntryPerPage, Inductive, SettledAreBound, [Next]_vars
    PROVE  SettledAreBound'
<1> USE DEF store, cert
<1>1. ASSUME NEW c \in Callers, NEW p \in Paths, Query(c, p) PROVE SettledAreBound'
    BY <1>1 DEF Query, SettledAreBound, Body
<1>2. ASSUME NEW c \in Callers, NEW p \in Paths, ServePage(c, p) PROVE SettledAreBound'
    <2>1. data' = data /\ settled' = settled \cup ({p} \cap Certifiable)
        BY <1>2 DEF ServePage
    <2>2. CASE p \in Certifiable
        <3>1. /\ certReady' = TRUE
              /\ DOMAIN pageBound' = DOMAIN pageBound \cup {EntryOf[p]}
              /\ pageBound'[EntryOf[p]] = Body(p)
              /\ \A k \in DOMAIN pageBound \ {EntryOf[p]} : pageBound'[k] = pageBound[k]
            BY <1>2, <2>1, <2>2, RegisterInstalls DEF ServePage
        <3>2. \A q \in settled : q = p \/ EntryOf[q] # EntryOf[p]
            BY <2>2 DEF OneEntryPerPage, Inductive, TypeOK
        <3> QED
            BY <2>1, <2>2, <3>1, <3>2 DEF SettledAreBound, Body
    <2>3. CASE p \notin Certifiable
        BY <1>2, <2>1, <2>3 DEF ServePage, EnsureCert, SettledAreBound, Body
    <2> QED
        BY <2>2, <2>3
<1>3. ASSUME NEW c \in Callers, NEW p \in Paths, ServeRedirect(c, p) PROVE SettledAreBound'
    BY <1>3 DEF ServeRedirect, EnsureCert, SettledAreBound, Body
<1>4. CASE Store \/ Upgrade
    BY <1>4 DEF Store, Upgrade, SettledAreBound
<1>5. ASSUME NEW c \in Clients, ClaimRole(c) PROVE SettledAreBound'
    BY <1>5 DEF ClaimRole, Event, EnsureCert, SettledAreBound, Body
<1>6. ASSUME NEW c \in Clients, NEW other \in Clients,
             GrantRole(c, other) \/ RevokeRole(c, other)
      PROVE  SettledAreBound'
    BY <1>6 DEF GrantRole, RevokeRole, Event, EnsureCert, SettledAreBound, Body
<1>7. CASE UNCHANGED vars
    BY <1>7 DEF vars, SettledAreBound, Body
<1> QED
    BY <1>1, <1>2, <1>3, <1>4, <1>5, <1>6, <1>7 DEF Next

(* If no two certifiable pages share an entry, a public page that an update   *)
(* served is not sent to the update path again until the data changes.        *)
(* Without the assumption it may be: a parameterized route has one entry.     *)
THEOREM NextQueryIsCertifiedAlways ==
    ASSUME OneEntryPerPage
    PROVE  Spec => NextQueryIsCertified
<1> DEFINE Step == \A c \in Callers :
              upgraded[c] = NoPath /\ upgraded'[c] # NoPath
                  => upgraded'[c] \notin settled \ Gated
<1>1. Init => SettledAreBound
    BY DEF Init, SettledAreBound
<1>2. Inductive /\ SettledAreBound /\ [Next]_vars => SettledAreBound'
    BY SettledStep
<1>3. Inductive /\ SettledAreBound /\ [Next]_vars => [Step]_vars
    <2> SUFFICES ASSUME Inductive, SettledAreBound, Next,
                        NEW c \in Callers, upgraded[c] = NoPath, upgraded'[c] # NoPath
                 PROVE  upgraded'[c] \notin settled \ Gated
        OBVIOUS
    <2>1. PICK d \in Callers, p \in Paths :
              \/ Query(d, p)
              \/ ServePage(d, p)
              \/ ServeRedirect(d, p)
        BY DEF Next, Store, ClaimRole, GrantRole, RevokeRole, Event, Upgrade
    <2>2. upgraded \in [Callers -> Paths \cup {NoPath}]
        BY DEF Inductive, TypeOK
    <2>3. Query(d, p) /\ ~CertifiedPage(p) /\ upgraded'[c] = p
        BY <2>1, <2>2 DEF Query, ServePage, ServeRedirect
    <2> QED
        BY <2>3 DEF CertifiedPage, SettledAreBound, Inductive, TypeOK
<1> QED
    BY <1>1, <1>2, <1>3, InductiveHolds, PTL DEF Spec, NextQueryIsCertified
=============================================================================
