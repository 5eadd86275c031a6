# MotoView in TLA+

A formal model of the parts of MotoView that carry its correctness: what a page
may be submitted with, who a caller is, what a browser shows, what a certificate
vouches for, and what the compiler, its language server and the designer make of a
page's text. Modules are written from the source (`src/...`), one per
component; `PROJECT.json` maps every definition to the lines it stands for.

## 1. The system

MotoView compiles `.mview` pages to one Motoko actor. The actor (generated by
`compiler/src/project.rs`) wraps `App` (`runtime/src/App.mo`) and the app's services;
`App` renders pages on the server and serves a small JSON protocol. In the browser a
WASM brain (`client/src`) polls and applies *render batches*, and JavaScript hands
(`client/glue`) touch the DOM, the network and the cookies.

```
 browser                                            canister (one actor)
 ----------------------------------------           -----------------------------------------
 motoview.js  <- ops -  lib.rs / diff.rs            http_request          query: certifiedPage
   DOM, fetch, timers     polls, batches   ------>  http_request_update   serveGet, serveEvent
 mv-auth.js   -- signed call ------------------->   mvEstablish           App.establish
   cookies mv_login, mv_session                     preupgrade / init     stable vars <-> App
```

At the developer's side the compiler is a command that several processes run at once over
the same files:

```
 editor  -- stdio -->  motoview lsp        Parse, lint           (LanguageServer, LspAnswers)
 terminals -------->   motoview build      sources -> .mvbuild/main.mo, main.mo.map
                       motoview check      the same, then moc     (ProjectBuild)
 Studio  ---------->   check, preview      one at a time; writes the page itself (Studio)
 browser <-- SSE --    preview --serve     watcher thread, one thread per stream (Preview)
```

Nothing locks the sources or `.mvbuild`.

An update message runs without interleaving up to its first `await`; only the secret's
installation awaits. Concurrency therefore comes from messages: many callers, answers
that overtake each other or get lost, several tabs over one cookie jar, and upgrades
between any two messages.

| component | state | operations | what is hard | what makes it correct |
|---|---|---|---|---|
| secure forms, nonce store (`Security.mo`, `App.mo`) | `counter`, `consumed`, outstanding tokens | mint, verify, consume and prune, dump, load | pruning, expiry, upgrades that reset the counter | a token is accepted at most once, by its principal and route, in time; nothing else is refused as a replay |
| spend authorization (`WalletAuth.mo`) | per-principal log | mint, authorize, record | two nonces in one request, rolling window | a window's spends stay in the limit; a refusal costs nothing |
| secret installation (`project.rs`) | `mvSecret`, stable copy | test, await, install | calls that overlap in the await | credentials stay valid |
| session bridge (`App.mo`, `mv-auth.js`) | `pending`, `epochs`, cookies, `loginCounter` | begin, establish, exchange, verify, logout | late, lost and reordered messages, shared cookies, upgrades | a browser gets only its own logins; logout ends all sessions of one principal |
| render protocol (`lib.rs`, `motoview.js`, `App.mo`) | `last_batch_id`, `last_html`, timer, outstanding requests | poll, event, apply, visibility | answers out of order, failures | the loop lives; the page converges |
| keyed patch (`diff.rs`, `motoview.js`) | `last_html`, DOM nodes | diff, replace, insert, move, remove, exit animation | operations act on what earlier ones left | the DOM shows the batch, nodes keep identity, few moves |
| certified pages (`App.mo`, `CertV2.mo`) | `pageBound`, `certReady`, `CertifiedData` | query, register, recertify | stale bodies, gates, path spellings | a certified answer is the one certified; gates hold |
| role store (`Roles.mo`) | principal -> roles | claim, grant, revoke | revocation racing with pages | gates ask for the role now |
| page objects (generated) | page variables, error, effect and redirect buffers | dispatch, onLoad, render | shared by all callers | one caller's input does not reach another |
| routing, URLs (`Router.mo`, `Url.mo`) | - | match, find, decode | spellings | patterns match what they say |
| tree and verifier (`CertV2.mo`, `cert_verify.rs`) | - | build, prune, verify | partial trees | a witness has the root of the full tree |
| encrypted store, audit log | entries, records | put, delete, record | upgrade | append-only; versions |
| bzzz services (`apps/bzzz`) | servers, roles, keys, handles, rooms, topics, posts | about sixty handlers | sequences of legal calls, caps, indexes rebuilt by upgrades | indexes agree with what they index; owners keep their role |
| parser, lint, code generation (`compiler/src/parser.rs`, `lint.rs`, `codegen.rs`) | - | parse, lint, collect handlers, binds and schemas, render, map lines | some ten walks of one tree, written apart | the walks agree: what is rendered is dispatched, read back and signed |
| build, check, preview (`project.rs`, `main.rs`) | sources, actor, map, driver, forest, version | read, gate, write, type check, watch, push | files change between any two steps; two locks; a lost stream | what is gated is what is written; a browser catches up |
| language server (`lsp.rs`) | documents | open, change, close, code action, completion | the editor is ahead of the server | diagnostics settle on the text shown; a fix fixes |
| Studio (`apps/studio/native`) | open file, preview, spans, session, selection, inspector | open, save, check, preview, drop, edit, click, revert | spans of a text that changes; failures after a write | edits hit what is shown; the session is the page shown |
| formatter, native clients, rendering, hashes, examples | | | | see section 7 |

`PROJECT.json` lists the components and, under `hazards`, each hard behaviour at the line
where it bites, with the property that would catch it.

## 2. Modules

| module | stands for | state |
|---|---|---|
| `SingleUseTickets` | abstract: tickets redeemed once, by their owner, for their purpose, in time | clock, issued, redemptions |
| `TokenGate` | nonces, form and spend tokens, velocity log, upgrade | `now counter consumed velocity tokens boot redeemed` |
| `SecretInstall` | the lazy secret | `secret stable drawn status signer settled` |
| `SessionLedger` | abstract: sessions that are given out and end by logout or time | clock, live, ended, logouts |
| `Sessions` | login flow, cookies, epochs, upgrade | canister tables, two cookies per browser, a script per tab, messages |
| `Bridge` | one page and the canister | `state dom stamp timer wire leaving touched` |
| `KeyedPatch` | diff, operations and DOM of one keyed list | `shown dom` |
| `CertPages` | certified queries, updates, roles | `data members pageBound certReady root upgraded reply settled` |
| `MviewParser` | `parser.rs`: a text of tokens to a tree | - |
| `MviewCodegen` | `lint.rs`, `codegen.rs`, the line map of `project.rs`: walks, lint, generated lines, preview ids | - |
| `LanguageServer` | the loop of `lsp.rs` and an editor, joined by two pipes | `desk buffers shown asked inbox outbox server` |
| `LspAnswers` | what `lsp.rs` answers: diagnostics, code actions, completion | - |
| `DesignerEdits` | the text edits of Studio's designer (`backend.rs`): toolbox, splice, scaffolded handler, attribute | - |
| `MviewPages` | properties of every page a server comes to hold; composes the four above | those of `LanguageServer` |
| `MviewProject` | the files several processes share | `sources writes byHand` |
| `ProjectBuild` | `motoview build`, `motoview check` | `actor actorMap build` |
| `Preview` | `motoview preview` and `preview --serve` with its browser | `driver spans render server stream browser` |
| `Studio` | Studio's designer and code view; composes `ProjectBuild` and `Preview` | `desk studio` and theirs |
| `TokenGateProofs`, `SecretInstallProofs`, `SessionsProofs`, `BridgeProofs`, `KeyedPatchProofs`, `CertPagesProofs`, `LanguageServerProofs`, `StudioProofs` | theorems | |
| `MC*` | constants of the runs | |

Definitions marked `(mutant: ...)` are plausible bugs of the definition that follows
them; no specification uses them. Each is paired with the property that detects it.

**TokenGate.** One request is one step: `SubmitForm` is the whole of `serveEvent` for a
secure form (`verify`, replay test, `consumeNonce`, the handler, the response with its
fresh tokens) and `ConfirmSpend` the same with `authorizeSpend` in the handler. A
nonce is the pair time, counter of the code's text. `redeemed` is a history of
acceptances that the code does not keep. Only genuine tokens are presented: anything
else fails the MAC and changes nothing.

**SecretInstall.** A call that finds the secret missing waits, and goes on when the random
bytes arrive (`Draw`) or is rejected. The *k*-th random blob is *k*. `settled` collects
calls answered while no other waited.

**Sessions.** `StartLogin ... ReceiveRefusal` are the steps of `mv-auth.js` between
awaits, `Serve*` the endpoints. A tab has one HTTP message in flight and its signed calls
travel on their own, as late as they like. A request carries the cookies of its sending,
a response sets them on arrival. An upgrade keeps `epochs`, loses `pending`, and restarts
`loginCounter`.

**Bridge.** `wire[s]` is what slot *s* carries: a poll with its stamp, an event, an answer.
Slots are served, answered and failed in any order. A `batchId` is the markup itself
(`maskTokens` removes what differs between renders of one state). In a state of `Closed` the
page is not open to its reader, and a poll is answered with a redirect too. A redirect starts a
navigation (`leaving`), during which the old document goes on; `Load` is the new document, after a
navigation or a reload. `touched` records that the document sent an event or was
hidden.

**MviewParser, MviewCodegen.** A source is a sequence of tokens, one for each construct the
parser tells apart: an open tag with its attributes, an end tag, `@if`, a brace, a function
of the code block, a run of text. A position is a token's number. `Then` is Rust's `?`, and
the operators are recursive as the functions are: `ParseNodes`, `Block`, `Branches`,
`Cases`, `Slots`. A generated line is kept as what it does to the document (`markup`,
`computed`, `event`, `field`, `token`, `silent`) with the place it was written for. Text is told apart only where a search of the raw text can trip over it: `Mention` is text
that spells `@code`, `Comment` and a quoted token are a comment and a string with a brace in
them. The built-in components are there family by family (`GenButton ... GenChart`), for what
differs between them is what they do with their children, events, fields and titles.

**LanguageServer.** The editor types, asks, closes and quits; each message goes into a bounded
pipe and the server takes one at a time: `OnText`, `OnDidClose`, `OnCodeAction`, ... are the
handlers of `LspServer::handle`. The editor is external: it replaces its diagnostics by what
is published, and drops an answer to a question about a text that has changed since.
What the server makes of a text is given by constant operators (`Diagnose`, `FixesAt`, `Fixed`,
`CompletionsAt`), which `MCMviewPages.cfg` takes from `LspAnswers`: the protocol is proved for
any analysis and checked with the real one.

**DesignerEdits.** Eleven tiles insert seven different snippets (`Toolbox`), all of native elements;
the secure form alone brings a handler. `SpliceComponent` is `splice_component` with
`scaffold_handler`, which goes by the spelling of the text and not by what it parses to:
`Scaffolded` searches the first token that spells `@code`, then counts every brace, and writes before
the one that closes the first. In a page without a block of code nothing is written. Spellings of
`@code` and braces inside attributes and expressions are left out.

**ProjectBuild, Preview.** A build reads its files one by one, gates, writes the actor, then
the map; `check` goes on with moc on the actor that is on disk by then. A rendering
reads its files one by one too, gates, writes the one driver file, writes the list of elements if it was asked for,
and interprets what is there by then. A build's second reading of the components
(`project.rs:724`) is left out: only the line map depends on it. `StoreThenBump` is the
watcher's two locks, `ReadVersion` and `ReadAndPush` the stream's thread, which holds the
version's lock between the two. What the compiler makes of a text is given by constant
operators (`Parses`, `LintErrors`, `TypeErrors`, `Elements`), which `MCStudio` takes from
`MviewParser` and `MviewCodegen`.

**Studio.** A frame draws the inspector before the canvas takes a click, so
`RedrawInspector` comes between a selection and the next one. Studio waits for the command
it started; terminals, the watcher and other editors do not. `Edit` writes the file
before it is checked; `EditDone` puts it back, or keeps it and renders anew. `byHand` is a
history variable: whether a person (not the designer) wrote a file.

**KeyedPatch.** `Apply` plans, then performs the operations one after the other (`PerformAll`);
`ExitEnds` removes a node whose animation has ended. A full swap is planned when the
chrome changed or nothing survives; a list none of whose items survives therefore plays
no exits. `ShowsLastBatch` compares the nodes that do not leave with the items: the same keys and
bodies, each once, in the same order.

**CertPages.** `Query` is `http_request`: the fast path or an upgrade to an update, which is
served later by `ServePage` or `ServeRedirect`. The tree is a set of pairs of position
and body. Bodies are functions of path and data: `@cacheable` pages are the same for all
callers.

## 3. Runs

| run | configuration | distinct states | shows |
|---|---|---|---|
| `token_gate` | 2 callers, 2 routes, life 1, cap 1, window 2, limit 2, 3 ticks, 4 tokens | 710 000 | single use, distinct nonces, no false replay, bounded store, spend limit, refinement of `SingleUseTickets` |
| `secret_install` | 4 calls | 800 | credentials signed while no other first call waited stay valid |
| `secret_once` | 2 calls | | **violated**: overlapping first calls replace the installed secret |
| `sessions` | three worlds: two tabs of one browser with two principals, two browsers with the counter's restart, tabs that poll twice | 762 000 | single exchange, cap, own logins, refinement of `SessionLedger`, every flow ends |
| `bridge_follow` | 2 polls and 1 event outstanding, 3 states of which one is closed to the reader, 2 changes, hiding | 87 000 | the loop lives; a watched page stays in step and converges |
| `bridge_stale` | the same, only forward changes, no hiding | | **violated**: the page may stay stale for ever |
| `patch_lists` | all lists of 4 keys, 2 bodies, 2 chromes, 2 animated keys | 4 050 | order, identity, minimal moves |
| `patch_returns` | 2 keys, an item returns during its exit | | **violated**: a removed node stays |
| `cert_pages` | 2 clients and the gateway, 4 paths, 1 gated, 2 data values | 189 000 | certified answers verify, gates hold, fast path warms up |
| `cert_alias` | 2 spellings of a path | | **violated**: two responses at one position |
| `page_source` | eleven desks: up to 5 words of each desk's vocabulary typed into its frame, in a lagging language server | 454 000 | diagnostics settle, a fix clears one error, and every text that parses wires its inputs, guards its forms, anchors its lines truly and takes every snippet of the toolbox, with its handler, where it was dropped |
| `studio` | four desks: designer (secure forms), code view (inputs), preview server with another editor, two terminals with another editor; two writes each | 597 000 | no insecure actor, designer edits land, sessions replay, browsers catch up |

### Bounds

`MaxTime`, `MaxTokens`, `MaxLogins`, `MaxEpoch` and `MaxMoves` occur in the guards of the
actions that count; everything else is finite by the constants.

- `token_gate`: a store cap of one makes every second consumption prune. Life 1 in three
  ticks lets a nonce be consumed, expire and be pruned, with an upgrade at any point;
  life and window have different lengths so that they expire apart. Four tokens are two
  complete confirmations.
- `secret_install`: two calls suffice to overlap; four give overlaps that end and start
  again around an upgrade.
- `sessions`: with a cap of one the second login meets a full table, with a prune
  age below and at the redeem time, in both outcomes. A world chosen at the start divides
  the cost: the shared cookie jar, two jars with the counter's restart, and flows that poll
  more than once. A login polls one or two times instead of fifteen; each poll is a full
  exchange, so a further one repeats it.
- `bridge_*`: the anomaly needs two polls and one event. Two changes among
  three states include a change and its reversal (`AnyMove`).
- `patch_lists`: four items have all the shapes of an increasing subsequence against
  two inversions; one key with two bodies distinguishes change from move.
- `cert_pages`: one page per case: exact and public, a second for independent entries,
  one without an entry (`/`), one gated.
- `page_source`: a desk's frame provides what the words are about (a code block with two
  functions, a `@switch`, the slot of a called component), so that four or five words
  reach every pair of constructs a property relates: a secure form in a slot in a
  branch, a bound input in a case, two directives in two calls. `Coded` is about the contents
  of a block of code, with braces in strings and comments; `Mentioned` puts text that spells
  the directive, or a directive that begins like it, before the block. `Families` goes through
  the built-in components one family at a time, `Files` through the directives of a file,
  and `Protocol` through every message with two in each pipe; one message in the pipe is
  enough for the other desks, whose subject is the text. One document is open, for the
  server keeps documents apart.
- `studio`: two writes are an edit and one that overtakes it, or a drop and its follow-up
  edit. A secure form renumbers the elements behind it by two and moves them by a handler that is
written before them; an input takes no children, so the element that is selected
after its drop is a sibling. Five drafts stand for a page, the page with its elements shifted, one that
  moc refuses, one that the lint refuses and one that does not parse. Two clicks give a
  session with an event before the one that traps. One lost stream is enough: a browser
  that reconnects begins again. The four desks divide the cost, as the worlds of
  `sessions` do; `SessionReplays` is stated for the desks without a preview server, since
  all renderings of a project write one driver file.

Deadlock is checked in every run but `page_source`, where the server exits and the typing is
bounded, and `studio`, where people may stop and the writes are bounded.

### Fairness

- `Bridge!FairSpec`: a timer that is set fires (weak fairness of `Fire` over the poll
  slots), a request ends with an answer or an error (weak fairness per slot; browsers
  end fetches), and the network is not down for ever (strong fairness of serving
  and receiving a slot that again and again carries a poll), and a navigation that was started
ends with a document. Nothing is assumed of events,
  users or the order of slots. `bridge_stale` is violated under this same
  specification.
- `Sessions!FairSpec`: each tab's script takes its steps, and its message is served or
  lost. Users and signed calls owe nothing.
- `Studio!Fairness`: a command that was started, a build, a rendering and each thread of the
  preview server goes on (weak fairness), and the browser shows what it received. The
  watcher gets strong fairness: it needs the version's lock, which a stream's thread
  takes every 400 ms and gives back before it sleeps (`main.rs:613-635`). Nobody has to
  save, click, type or start anything.

## 4. What the violated runs found

1. **`secret_once`** (`compiler/src/project.rs:1609`): two first update calls both find the
   secret missing; the second continuation installs its own blob over the first's, and
   what the first signed (a form token, a nonce, a session) stops verifying. The comment
   on line 1629 calls the installation one-time. Testing `needsSecret` again after the
   await would keep it so. `SettledCredentialsHold` says what does hold.
2. **`bridge_stale`** (`client/src/lib.rs:171`): `apply` takes the batch identifier of an
   answer without asking whether a newer one was applied. With an event beside
   the polls, an older answer and then a late *unchanged* leave the old
   markup under the new identifier, and every later poll is *unchanged*. The page
   recovers when the state changes again. A page that is only watched is safe
   (`StampIsShown`, proved).
3. **`patch_returns`** (`client/glue/motoview.js:203`): a node in its exit animation keeps its
   key, and `findKeyed` hits it in place of the item that returned.
4. **`cert_alias`** (`runtime/src/App.mo:229`): `/about` and `/about/` reach one page, are two
   entries, and share one position of the tree.

Divergences seen while modelling that have no run of their own:

- The map from generated lines to directives is dropped only when the counts differ
  (`project.rs:394`). Two calls of application components with one directive each inside
  have two generated lines and two spans, so both calls are anchored to the directives of
  their arguments. `AnchorsTrue` is stated for pages without a directive inside such a call.
- A bound field inside a slot of a called component is rendered but not read back
  (`walk_binds`, `codegen.rs:3353`, enters children only), and a field under `@switch` or
  in a slot is not signed (`collect_input_names`); `InputsWired` names both preconditions.
- A `@slot` forwarded inside another component's slot is not declared (`codegen.rs:33`), so
  what a parent puts there is left out.
- A drop that makes a text unparsable is kept: the check reports a parse error in a form
  that `report_from_streams` does not count as one (`backend.rs:911`, modelled by
  `ReportsError`). `InsertIsLocal` shows that no snippet leads there when it is dropped at a place of
  the text's own preview, apart from a form dropped into a page whose code is not plain
  (`PlainCode`: the only spelling of `@code` is the block's, no brace is in a string or a comment, every
  declaration ends with its semicolon, and a function of the handler's name is one of
  them). A drop into a text that was changed by hand may lead there as well.
- The handler of a dropped form is written before the brace that closes the first `{` behind the first
  text `@code` (`backend.rs:879`), and that text may be a mention, although line 872 says "just before
  the `@code` block's closing brace". In `apps/studio/src/Pages/Design.mview` the description mentions
  it (line 4) and the first brace is that of a branch (line 46): the handler becomes text of the
  branch, the page still compiles, so the drop is not put back, and the form's submit has no case in the
  dispatch. `Scaffolded` does the same.
- A form dropped into a page without a block of code gets no handler, and its submit no case in the
  dispatch (`backend.rs:873`), although line 803 says that what needs a handler has it scaffolded.
- The first answer of a preview's browser may arrive after a newer forest was pushed, and is
  shown over it (`main.rs:775-788`). `PreviewCatchesUp` excepts that browser.
- Two builds may leave the actor of one and the map of the other (`project.rs:857`); a later
  build heals it.

## 5. What is proved

`tlapm` checks all proofs; each holds for every value of the constants that meets the
module's `ASSUME`. Fairness is used by none of them.

| theorem | property | rests on |
|---|---|---|
| `TokenGateProofs!SingleUseHolds`, `NoncesUniqueHolds`, `NoFalseReplayHolds` | of the same names | `Inductive` |
| `TokenGateProofs!TicketsImplemented` | `ImplementsTickets` | `Inductive`, step by step |
| `TokenGateProofs!StoreBoundedHolds` | `StoreBounded` | `StoreTimely` |
| `TokenGateProofs!SpendWindowBoundedHolds`, `VelocityAgreesHolds` | of the same names | `SpendsAccounted`, lemmas on finite sums |
| `SecretInstallProofs!SettledCredentialsHoldAlways` | `SettledCredentialsHold` | `Inductive` |
| `SessionsProofs!ExchangedOnceHolds`, `OwnSessionsHolds` | of the same names | `Inductive`: stages, dates and owners of nonces |
| `SessionsProofs!PendingBoundedHolds` | `PendingBounded` | with the table finite, inductive |
| `SessionsProofs!LedgerImplemented` | `ImplementsLedger` | `Inductive`, step by step |
| `BridgeProofs!LoopAliveHolds` | `LoopAlive` | `TypeOK` |
| `BridgeProofs!WatchedStampIsShown`, `OneAtATimeHolds` | `StampIsShown`, `OneAtATime` | inductive together |
| `KeyedPatchProofs!ShowsLastBatchHolds`, `UnchangedNodesSurviveHolds` | of the same names | `Shows`, `~QuickReturns` |
| `KeyedPatchProofs!RemovedNodesGoHolds` | `RemovedNodesGo`, which `patch_returns` violates | `Shows`, `~QuickReturns` |
| `KeyedPatchProofs!FewestMovesHolds` | `FewestMoves` | `StayersMost`, `MovesCounted` |
| `CertPagesProofs!GatedServedToMembersAlways` | `GatedServedToMembers` | the actions alone |
| `CertPagesProofs!AnswersVerifyAlways` | `AnswersVerify` | `Inductive`, `OneKeyPerNode` |
| `CertPagesProofs!NextQueryIsCertifiedAlways` | `NextQueryIsCertified` | `Inductive`, `OneEntryPerPage` |
| `LanguageServerProofs!DiagnosticsSettleHolds` | `DiagnosticsSettle` | `Settling` |
| `StudioProofs!NoInsecureActorAlways` | `NoInsecureActor` | `Inductive`, `OnlyBuilding` |
| `StudioProofs!DesignerEditsLandAlways`, `SessionReplaysAlways` | `DesignerEditsLand`, `SessionReplays` | `Truthful` |

*TokenGate.* Single use is not inductive: that a nonce was consumed says nothing after a
prune. `SoundStore` adds that a redeemed nonce is either in the store, with an expiry
no earlier than its token's, or belongs to a token past its deadline; pruning, loading and
ticking keep this because a store entry expires `TokenLife` after the *consumption* and
the token `TokenLife` after its *minting*. Distinct nonces need `TokensDated`: a nonce of
an earlier incarnation has an earlier time, one of this incarnation a counter not above
`counter`. The proof uses that an upgrade takes place in a later block than the
messages before it.

The spend limit is a statement about sums over the history, while the code sums a log that
forgets. `SpendsAccounted` says that from any moment of the present window on, the log sums to
what the history spent since; it holds of every suffix of the window, for pruning cuts the log
at one of them. The sums are recursive functions over finite sets; what a further entry or a
smaller set does to a sum is proved in `TokenGateProofs` first, each time from a least
counterexample, since the library's induction theorems cannot be instantiated. A spend
lies only in windows that begin no earlier than the present one, and what those held before is part
of what the log summed when the spend was allowed.

*SecretInstall.* Once a call has been answered alone, the secret is present and nobody waits
for another; with the stable copy equal this is kept by upgrades.

*Sessions.* A nonce is handed out, carried in a signed call, pending and exchanged, in that
order and only once (`NoncesInStages`), and is never minted again, because it is dated by its
block and by the counter within the block (`NoncesDated`); so it is exchanged once. `LoginsOwned` and
its companions follow the principal of a login from the browser where it was chosen
through every message to the session. The refinement maps each step to one of the ledger
or to a stutter: an exchange opens a session, a logout raises the epoch and ends the sessions of
earlier ones, time ends the rest.

*Bridge.* `StampIsShown` fails in general (section 4). It is inductive together with
`OneAtATime`: while only watched, a document has either its timer or exactly one message,
and a poll or *unchanged* message bears the stamp shown.

*KeyedPatch.* What one hand does to keys, nodes and order is stated by keys (`Before`) and proved from
the definitions of the sequence operators. A batch is followed item by item. While removals are
performed, the kept items keep their order. `StableSet` is shown to choose kept items whose old
places increase, by least counterexample over its two recursive functions: those items are in
the new order from the start. Each item that is placed goes right behind its predecessor, so that the
placed items together with all that stay are always in the new order (`OrderedWith`); after the
last one this is the whole list. Nodes that leave lie anywhere between. These three theorems
(`RemovedNodesGoHolds` included) assume `~QuickReturns`, which `patch_returns` shows to be needed.

`FewestMovesHolds` needs no such proviso, for it is about the operations sent and not the
document. It says two things of `StableSet`: that it is large, and that the rest is moved once. The
code's table gives each item the length of its *run*. A set whose old places increase and
that ends at an item has no more members than that item's run (`NoLongerThanRun`), and the chain
followed back from an item with the longest run has exactly that many (`ChainLength`); so no
increasing set is larger (`StableLongest`). Sets of items that both batches list in one order are
such increasing sets (`StayersMost`). Every other kept item is the subject of exactly one move,
since no operation moves an item twice or moves one that stays (`MovesCounted`).

*CertPages.* While `certReady`, the root is exactly the registered entries. That a certified
body is the *only* response at its position needs `OneKeyPerNode`, which `cert_alias`
shows the code does not ensure. The speed property needs `OneEntryPerPage`: pages of a
route with a parameter share a wildcard entry (`App.mo:165`) and replace each other,
although the comment at 639 promises the *next* query.

*LanguageServer.* Diagnostics are right only when both pipes are empty. What settles them for a document
is the last unread message that opens, changes or closes it; if there is none, the last diagnostics
on their way to the editor; if there are none either, what is shown. `Settling` says that whichever it is,
it belongs to the text the user sees. Only the order of the pipes is used: any number
of documents, any pipe lengths, any diagnosis of a text.

*Studio.* Of all processes only builds write the actor (`OnlyBuilding`, over every action). A build
that is to write it holds a sequence of texts as long as the project, each of which parses
(checked when it was read) and has no lint error (checked on what was read, not on the
files): these two facts are the inductive invariant, for any number of builders, files and
texts, and any meaning of `Parses` and `LintErrors`. For the designer, `Truthful` says of each
step of a job what the canvas, the session, the inspector and the rendering under way speak of: the
page's text, or while an edit is being checked the text that may be put back (`Base`). It
assumes that an empty page has no elements (`StudioAssumption`).

**Only model-checked**: all liveness (`KeepsPolling`, `WatchedConverges`, `FlowsEnd`,
`PreviewCatchesUp`), which is beyond the proof system together with `ENABLED`; and what the compiler makes of a text (`InputsWired`,
`SubmitsCarryToken`, `AnchorsTrue`, `InsertIsLocal`, `QuickFixClears`), for `MviewParser`, `MviewCodegen`
and `LspAnswers` are recursive operators, out of the provers' reach.

## 6. Plan

Done, in this order: the token gate, the secret, sessions, the bridge, keyed patches,
certified pages, the parser and code generation, the language server, builds and
previews, Studio; with the proofs of section 5.

To be modelled next:

1. `Servers` (bzzz): owners, admins, moderators, members, mutes and locks; the owner keeps
   the role whatever admins do (`grant` lacks the checks of `revoke`, `Servers.mo:214`), roles
   imply membership, deletion leaves nothing behind. With `Admin`: a super
   admin always exists. First-order invariants, to be proved.
2. `Keys` and `Identity`: a prekey is handed out once; the handle index is a bijection
   across renames and upgrades. To be proved.
3. `Rooms` (`Chat`, `Messenger`) and `Forum`, `Feed`: index and counters against what they
   count, caps, and equality of incremental and rebuilt state after an upgrade; an
   abstract store of posts that they implement.
4. `PageObjects`: the buffers of a generated page, shared by its callers; a composition of
   `Bridge` and `TokenGate` for forms whose tokens outlive their expiry while polls say
   *unchanged*.
5. `CertTree`: witness trees against full trees over bounded paths, and `Router` with `Url` as
   operators against a reference definition (recursive functions, checked only).
6. `EncStore` and `Audit`: append-only and versions across upgrades.

The runs of one module are to be combined where one instance can answer several questions.

## 7. What is not modelled

- Cryptography: MACs are unforgeable, hashes injective, the certificate of the subnet valid;
  `Sha256`, `Hash`, `Base64`, `Hex`, `ChainKey`, `VetKeys` and `client-crypto` are
  pure functions or wrappers.
- Text: markup, JSON, CBOR, the portable UI tree, charts. A page is a value.
- In the bridge: the document's query string, which polls do not send (`lib.rs:141`, although
  `docs/state.md:108` tells pages to read it), so a page that reads it falls back at the first
  changed poll; the table of 64 outstanding requests; effects and validation errors.
- In the gate: `mintIntentToken`, whose tokens `serveEvent` always refuses because it verifies
  with an empty intent.
- In the patch: repeated and nested keys, and several lists in one target.
- In sessions: the identity provider's window and delegations, and expiry of browsers' cookies
  apart from the token's own.
- In certified pages: static assets (constant entries) and wildcard entries.
- In the compiler: type inference, route parameters, theme colours, validation rules, `@head`
  and effects as data, service imports, scaffolding, and the columns of moc's messages. A
  word of a text is a token, so the tokens' own spelling (strings, comments, numbers) is not, except
  for what `scaffold_handler` searches.
- In the language server: the framing of messages (a frame that is not JSON is a message of
  its own) and the contents of completion lists.
- In Studio: drawing, themes, the board summary, the lint and format buttons, which change
  nothing but a report, several files open in turn, and the Studio that runs in a browser.
- The formatter, native shells, service worker, site and examples: sequential text
  processing, user interfaces, or scaffolds without the polling
  loop. What the compiler generates around `App` is modelled where it matters.
