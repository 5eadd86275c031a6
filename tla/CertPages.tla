----------------------------- MODULE CertPages -----------------------------
(***************************************************************************)
(* Pages served as certified queries: httpRequest, certifiedPage,          *)
(* registerPage, recertify and serveGet of runtime/src/App.mo, the tree of *)
(* runtime/src/CertV2.mo, and the role store of runtime/src/Roles.mo that  *)
(* gated pages ask.                                                        *)
(*                                                                         *)
(* A request comes as a query.  It is answered with a certificate, or sent *)
(* again as an update, which is served later: other calls run in between.  *)
(* A page's body is a function of its path and the canister's data (not of *)
(* the caller: @cacheable pages are public).  A response hash is the body. *)
(* Static assets, whose entries never change, are left out.                *)
(***************************************************************************)
EXTENDS Integers, FiniteSets, Functions

CONSTANTS Clients,    \* signed-in callers
          Anonymous,  \* the gateway's own principal
          Paths,      \* URL paths that a route matches
          Cacheable,  \* those whose page is @cacheable
          Gated,      \* those whose page is @authorize role=...
          Keys,       \* texts of certified paths and wildcard prefixes
          EntryOf,    \* certEntryFor: path -> key, or NoKey
          NoKey,
          Nodes,      \* positions in the certified tree
          NodeOf,     \* key -> the position of its segments and marker
          Data,       \* what handlers store and pages show
          NoPath,
          NoReply

ASSUME CertPagesConstants ==
    /\ Anonymous \notin Clients
    /\ Cacheable \subseteq Paths
    /\ Gated \subseteq Paths
    /\ NoKey \notin Keys
    /\ NoPath \notin Paths
    /\ EntryOf \in [Paths -> Keys \cup {NoKey}]
    /\ NodeOf \in [Keys -> Nodes]

Callers == Clients \cup {Anonymous}

VARIABLES data,       \* the state of the services
          members,    \* roleStore: who holds the role of the gated pages
          pageBound,  \* App.pageBound: key -> the body certified for it
          certReady,  \* App.certReady
          root,       \* what CertifiedData commits to: {<<node, body>>}
          upgraded,   \* per caller: the path it asks for again as an update
          reply,      \* (history) the page answered in the last step
          settled     \* (history) pages served since the data last changed

store == <<data, members>>
cert == <<pageBound, certReady, root>>
vars == <<store, cert, upgraded, reply, settled>>

Body(p) == [path |-> p, data |-> data]
Bodies == [path : Paths, data : Data]
Certifiable == {p \in Cacheable : EntryOf[p] # NoKey}
Authorized(p, c) == p \in Gated => c \in members
Page(c, p, how) == [to |-> c, body |-> Body(p), certified |-> how]

\* allBoundEntries, as rootHash commits to them.
Entries(bound) == {<<NodeOf[k], bound[k]>> : k \in DOMAIN bound}
-----------------------------------------------------------------------------
Init ==
    /\ data \in Data
    /\ members = {}
    /\ pageBound = <<>>
    /\ certReady = FALSE
    /\ root = {}
    /\ upgraded = [c \in Callers |-> NoPath]
    /\ reply = NoReply
    /\ settled = {}

\* (mutant: a gated page takes the fast path)
CertifiedPageUngated(p) ==
    /\ certReady
    /\ p \in Certifiable
    /\ EntryOf[p] \in DOMAIN pageBound
    /\ pageBound[EntryOf[p]] = Body(p)

\* certifiedPage: the fast path is open to a certifiable public page whose body is
\* the one registered.
CertifiedPage(p) ==
    /\ certReady
    /\ p \notin Gated
    /\ p \in Certifiable
    /\ EntryOf[p] \in DOMAIN pageBound
    /\ pageBound[EntryOf[p]] = Body(p)

\* httpRequest of a path, in the query context: nothing is changed.
Query(c, p) ==
    /\ upgraded[c] = NoPath
    /\ IF CertifiedPage(p)
       THEN reply' = Page(c, p, TRUE) /\ UNCHANGED upgraded
       ELSE reply' = NoReply /\ upgraded' = [upgraded EXCEPT ![c] = p]
    /\ UNCHANGED <<store, cert, settled>>

\* ensureCert, at the start of every update.
EnsureCert ==
    /\ certReady' = TRUE
    /\ root' = IF certReady THEN root ELSE Entries(pageBound)
    /\ UNCHANGED pageBound

\* (mutant: the root is not installed again)
RegisterPageOnly(p) ==
    LET k == EntryOf[p]
    IN  /\ pageBound' = [j \in DOMAIN pageBound \cup {k} |->
                             IF j = k THEN Body(p) ELSE pageBound[j]]
        /\ certReady' = TRUE
        /\ root' = IF certReady THEN root ELSE Entries(pageBound)

\* (mutant: a page that is registered is not registered again)
RegisterPageOnce(p) ==
    LET k == EntryOf[p]
    IN  IF k \in DOMAIN pageBound
        THEN EnsureCert
        ELSE /\ pageBound' = [j \in DOMAIN pageBound \cup {k} |->
                                  IF j = k THEN Body(p) ELSE pageBound[j]]
             /\ certReady' = TRUE
             /\ root' = Entries(pageBound')

\* ensureCert, then registerPage: the root is installed again if the body changed.
RegisterPage(p) ==
    LET k == EntryOf[p]
    IN  IF k \in DOMAIN pageBound /\ pageBound[k] = Body(p)
        THEN EnsureCert
        ELSE /\ pageBound' = [j \in DOMAIN pageBound \cup {k} |->
                                  IF j = k THEN Body(p) ELSE pageBound[j]]
             /\ certReady' = TRUE
             /\ root' = Entries(pageBound')

\* serveGet of a page the caller may see.
ServePage(c, p) ==
    /\ upgraded[c] = p
    /\ Authorized(p, c)
    /\ IF p \in Certifiable THEN RegisterPage(p) ELSE EnsureCert
    /\ reply' = Page(c, p, FALSE)
    /\ settled' = settled \cup ({p} \cap Certifiable)
    /\ upgraded' = [upgraded EXCEPT ![c] = NoPath]
    /\ UNCHANGED store

\* serveGet of a page the caller may not see: redirectDoc.
ServeRedirect(c, p) ==
    /\ upgraded[c] = p
    /\ ~Authorized(p, c)
    /\ EnsureCert
    /\ reply' = NoReply
    /\ upgraded' = [upgraded EXCEPT ![c] = NoPath]
    /\ UNCHANGED <<store, settled>>

\* serveEvent: an update that runs a handler, whose own response is a batch.
Event == EnsureCert /\ reply' = NoReply /\ UNCHANGED upgraded

\* A handler changes what pages show.
Store ==
    /\ Event
    /\ data' \in Data \ {data}
    /\ settled' = {}
    /\ UNCHANGED members

\* ctx.claimRole: the first to claim a role nobody holds.
ClaimRole(c) ==
    /\ Event
    /\ members' = IF members = {} THEN {c} ELSE members
    /\ UNCHANGED <<data, settled>>

\* ctx.grantRole in a handler of a gated page.
GrantRole(c, other) ==
    /\ c \in members
    /\ Event
    /\ members' = members \cup {other}
    /\ UNCHANGED <<data, settled>>

\* ctx.revokeRole in a handler of a gated page.
RevokeRole(c, other) ==
    /\ c \in members
    /\ Event
    /\ members' = members \ {other}
    /\ UNCHANGED <<data, settled>>

\* An upgrade: services and roles are restored, pageBound and certReady are not; the
\* system may or may not keep the certified data.
Upgrade ==
    /\ pageBound' = <<>>
    /\ certReady' = FALSE
    /\ root' \in {root, {}}
    /\ reply' = NoReply
    /\ settled' = {}
    /\ UNCHANGED <<store, upgraded>>

Next ==
    \/ \E c \in Callers, p \in Paths : Query(c, p) \/ ServePage(c, p) \/ ServeRedirect(c, p)
    \/ Store
    \/ \E c \in Clients : ClaimRole(c)
    \/ \E c, other \in Clients : GrantRole(c, other) \/ RevokeRole(c, other)
    \/ Upgrade

Spec == Init /\ [][Next]_vars
-----------------------------------------------------------------------------
TypeOK ==
    /\ data \in Data
    /\ members \subseteq Clients
    /\ DOMAIN pageBound \subseteq Keys
    /\ \A k \in DOMAIN pageBound : pageBound[k] \in Bodies
    /\ certReady \in BOOLEAN
    /\ root \subseteq Nodes \X Bodies
    /\ upgraded \in [Callers -> Paths \cup {NoPath}]
    /\ reply \in [to : Callers, body : Bodies, certified : BOOLEAN] \cup {NoReply}
    /\ settled \subseteq Certifiable

(* While the fast path is open, CertifiedData commits to exactly the entries  *)
(* that witnesses are built from.                                             *)
CertificateCurrent == certReady => root = Entries(pageBound)

\* The inductive invariant.
Inductive == TypeOK /\ CertificateCurrent

(* "They cannot, in practice, since a path maps to one response": no two       *)
(* responses are certified at one position of the tree, where a lookup by     *)
(* labels reaches only one of them.                                           *)
OneResponsePerNode == \A e, f \in root : e[1] = f[1] => e = f

\* The certified tree holds b, and nothing else, at the page's position.
Verifies(p, b) == {e \in root : e[1] = NodeOf[EntryOf[p]]} = {<<NodeOf[EntryOf[p]], b>>}

(* Every certified answer passes the boundary's verification, whatever was    *)
(* stored, registered or upgraded between the update that certified its body  *)
(* and the query that serves it.                                              *)
AnswersVerify ==
    [][reply' # reply /\ reply' # NoReply /\ reply'.certified =>
          Verifies(reply'.body.path, reply'.body)]_vars

(* A gated page reaches only callers who hold the role when it is served,     *)
(* whoever was served it before and whatever was registered for it then.      *)
GatedServedToMembers ==
    [][reply' # reply /\ reply' # NoReply =>
          Authorized(reply'.body.path, reply'.to)]_vars

(* "The NEXT query for this page then serves it as a fast, body-bound         *)
(* certified query": a public page that an update served is not sent to the   *)
(* update path again until the data changes.                                  *)
NextQueryIsCertified ==
    [][\A c \in Callers :
          upgraded[c] = NoPath /\ upgraded'[c] # NoPath => upgraded'[c] \notin settled \ Gated]_vars
=============================================================================
