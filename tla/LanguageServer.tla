--------------------------- MODULE LanguageServer ---------------------------
(***************************************************************************)
(* motoview lsp (src/compiler/src/lsp.rs): the editor and the server are   *)
(* two processes joined by two pipes.  The server keeps the last full text *)
(* of each open document, publishes its diagnostics on every change, and   *)
(* answers requests from the text it has by then, which may be older than  *)
(* what the user sees.  The editor is modelled from the protocol: it sends *)
(* each change, shows what is published, and drops an answer to a question *)
(* it asked about a text that has changed since.                           *)
(*                                                                         *)
(* A position in a text is the number of the token it is before.  What the *)
(* server computes from a text is given by constants: LspAnswers has the   *)
(* code's.                                                                 *)
(***************************************************************************)
EXTENDS Naturals, Sequences, SequencesExt

CONSTANTS
  Uris,
  Desks,  \* what a user may write: [before, after, words, most, pipe, also]
  Diagnose(_),        \* the diagnostics of a text
  FixesAt(_, _),      \* the places of a text where a fix is offered to a cursor
  Fixed(_, _),        \* a text with the fix for a place put in
  CompletionsAt(_, _) \* what is offered to a cursor in a text

VARIABLES
  desk,      \* the desk in use: words are typed between before and after
  buffers,   \* editor: open document -> its text
  shown,     \* editor: uri -> the diagnostics it displays
  asked,     \* editor: the request it waits on, with the text it asked about
  inbox,     \* editor to server
  outbox,    \* server to editor
  server     \* the LspServer and its loop

lspVars == <<desk, buffers, shown, asked, inbox, outbox, server>>

NoAsk == [method |-> "none", uri |-> "", text |-> <<>>]
Message(method, uri, text, at) == [method |-> method, uri |-> uri, text |-> text, at |-> at]
Reply(kind, uri, items) == [kind |-> kind, uri |-> uri, items |-> items]
Put(f, u, text) == [v \in DOMAIN f \cup {u} |-> IF v = u THEN text ELSE f[v]]

-----------------------------------------------------------------------------
Init ==
  /\ desk \in Desks
  /\ buffers = [u \in {} |-> <<>>]
  /\ shown = [u \in Uris |-> {}]
  /\ asked = NoAsk
  /\ inbox = <<Message("initialize", "", <<>>, 0)>>
  /\ outbox = <<>>
  /\ server = [docs |-> [u \in {} |-> <<>>], initialized |-> FALSE, shuttingDown |-> FALSE, running |-> TRUE]

-----------------------------------------------------------------------------
(* The editor.                                                             *)

Open(u) == u \in DOMAIN buffers
Send(message) == Len(inbox) < desk.pipe /\ inbox' = Append(inbox, message)
Closing == \E k \in DOMAIN inbox : inbox[k].method \in {"shutdown", "exit"}
MayAct == server.running /\ server.initialized /\ ~server.shuttingDown /\ ~Closing

Write(u, text) ==
  /\ buffers' = Put(buffers, u, text)
  /\ Send(Message("textDocument/didChange", u, text, 0))

OpenDocument(u) ==
  /\ MayAct /\ ~Open(u)
  /\ buffers' = Put(buffers, u, desk.before \o desk.after)
  /\ Send(Message("textDocument/didOpen", u, desk.before \o desk.after, 0))
  /\ UNCHANGED <<desk, shown, asked, outbox, server>>

Type(u) ==
  /\ MayAct /\ Open(u)
  /\ Len(buffers[u]) < Len(desk.before \o desk.after) + desk.most
  /\ \E w \in desk.words : Write(u, InsertAt(buffers[u], Len(buffers[u]) - Len(desk.after) + 1, w))
  /\ UNCHANGED <<desk, shown, asked, outbox, server>>

Erase(u) ==
  /\ MayAct /\ Open(u) /\ "erase" \in desk.also
  /\ Len(buffers[u]) > Len(desk.before \o desk.after)
  /\ Write(u, RemoveAt(buffers[u], Len(buffers[u]) - Len(desk.after)))
  /\ UNCHANGED <<desk, shown, asked, outbox, server>>

CloseDocument(u) ==
  /\ MayAct /\ Open(u) /\ "close" \in desk.also
  /\ buffers' = [v \in DOMAIN buffers \ {u} |-> buffers[v]]
  /\ Send(Message("textDocument/didClose", u, <<>>, 0))
  /\ UNCHANGED <<desk, shown, asked, outbox, server>>

Ask(u, method) ==
  /\ MayAct /\ Open(u) /\ asked = NoAsk /\ method \in desk.also
  /\ asked' = [method |-> method, uri |-> u, text |-> buffers[u]]
  /\ \E cursor \in 1..(Len(buffers[u]) + 1) : Send(Message(method, u, <<>>, cursor))
  /\ UNCHANGED <<desk, buffers, shown, outbox, server>>

\* A request the server does not know, a notification it does not know, a frame
\* that is not JSON.
Noise ==
  /\ MayAct
  /\ \E m \in desk.also \cap {"unknownRequest", "unknownNotification", "malformed"} :
       Send(Message(m, "", <<>>, 0))
  /\ UNCHANGED <<desk, buffers, shown, asked, outbox, server>>

Quit ==
  /\ MayAct /\ "quit" \in desk.also /\ inbox = <<>>
  /\ inbox' = <<Message("shutdown", "", <<>>, 0), Message("exit", "", <<>>, 0)>>
  /\ UNCHANGED <<desk, buffers, shown, asked, outbox, server>>

\* What the editor reads: diagnostics replace the ones of their document; an
\* answer ends the wait, and a fix is applied if the user did not type meanwhile.
ShowDiagnostics ==
  /\ outbox # <<>> /\ Head(outbox).kind = "diagnostics"
  /\ shown' = [shown EXCEPT ![Head(outbox).uri] = Head(outbox).items]
  /\ outbox' = Tail(outbox)
  /\ UNCHANGED <<desk, buffers, asked, inbox, server>>

TakeAnswer ==
  /\ outbox # <<>> /\ Head(outbox).kind # "diagnostics"
  /\ asked' = IF Head(outbox).kind = asked.method THEN NoAsk ELSE asked
  /\ outbox' = Tail(outbox)
  /\ UNCHANGED <<desk, buffers, shown, inbox, server>>

ApplyFix ==
  /\ MayAct /\ outbox # <<>> /\ Head(outbox).kind = "codeAction"
  /\ Open(asked.uri) /\ buffers[asked.uri] = asked.text
  /\ \E at \in Head(outbox).items : Write(asked.uri, Fixed(buffers[asked.uri], at))
  /\ asked' = NoAsk
  /\ outbox' = Tail(outbox)
  /\ UNCHANGED <<desk, shown, server>>

-----------------------------------------------------------------------------
(* The server's loop: one message in, its handler, its messages out.       *)

Docs(u) == IF u \in DOMAIN server.docs THEN server.docs[u] ELSE <<>>
Receive(methods) ==
  /\ server.running /\ inbox # <<>> /\ Head(inbox).method \in methods
  /\ Len(outbox) < desk.pipe
  /\ inbox' = Tail(inbox)
  /\ UNCHANGED <<desk, buffers, shown, asked>>

OnInitialize ==
  /\ Receive({"initialize"})
  /\ server' = [server EXCEPT !.initialized = TRUE]
  /\ outbox' = Append(outbox, Reply("capabilities", "", {}))

OnTextKeepsFirst ==  \* mutant: a document that is open keeps its text
  /\ Receive({"textDocument/didOpen", "textDocument/didChange"})
  /\ server' = [server EXCEPT !.docs = IF Head(inbox).uri \in DOMAIN @ THEN @ ELSE Put(@, Head(inbox).uri, Head(inbox).text)]
  /\ outbox' = Append(outbox, Reply("diagnostics", Head(inbox).uri, Diagnose(Head(inbox).text)))

\* didOpen and didChange carry the whole text; neither looks at the other.
OnText ==
  /\ Receive({"textDocument/didOpen", "textDocument/didChange"})
  /\ LET m == Head(inbox)
     IN  /\ server' = [server EXCEPT !.docs = Put(@, m.uri, m.text)]
         /\ outbox' = Append(outbox, Reply("diagnostics", m.uri, Diagnose(m.text)))

OnDidCloseQuietly ==  \* mutant: nothing is published for a closed document
  /\ Receive({"textDocument/didClose"})
  /\ server' = [server EXCEPT !.docs = [v \in DOMAIN @ \ {Head(inbox).uri} |-> @[v]]]
  /\ UNCHANGED outbox
OnDidClose ==
  /\ Receive({"textDocument/didClose"})
  /\ LET u == Head(inbox).uri
     IN  /\ server' = [server EXCEPT !.docs = [v \in DOMAIN @ \ {u} |-> @[v]]]
         /\ outbox' = Append(outbox, Reply("diagnostics", u, {}))

OnCompletion ==
  /\ Receive({"completion"})
  /\ outbox' = Append(outbox, Reply("completion", "", CompletionsAt(Docs(Head(inbox).uri), Head(inbox).at)))
  /\ UNCHANGED server

OnCodeAction ==
  /\ Receive({"codeAction"})
  /\ outbox' = Append(outbox, Reply("codeAction", "", FixesAt(Docs(Head(inbox).uri), Head(inbox).at)))
  /\ UNCHANGED server

OnShutdown ==
  /\ Receive({"shutdown"})
  /\ server' = [server EXCEPT !.shuttingDown = TRUE]
  /\ outbox' = Append(outbox, Reply("null", "", {}))

OnExit ==
  /\ Receive({"exit"})
  /\ server' = [server EXCEPT !.running = FALSE]
  /\ UNCHANGED outbox

\* Only a request is told that its method is unknown.
OnOther ==
  /\ Receive({"unknownRequest", "unknownNotification", "malformed"})
  /\ outbox' = IF Head(inbox).method = "unknownRequest" THEN Append(outbox, Reply("methodNotFound", "", {})) ELSE outbox
  /\ UNCHANGED server

Editor ==
  \/ \E u \in Uris : OpenDocument(u) \/ Type(u) \/ Erase(u) \/ CloseDocument(u)
  \/ \E u \in Uris, m \in {"completion", "codeAction"} : Ask(u, m)
  \/ Noise \/ Quit \/ ShowDiagnostics \/ TakeAnswer \/ ApplyFix

Server ==
  OnInitialize \/ OnText \/ OnDidClose \/ OnCompletion \/ OnCodeAction \/ OnShutdown \/ OnExit \/ OnOther

Next == Editor \/ Server
Spec == Init /\ [][Next]_lspVars

-----------------------------------------------------------------------------
Quiet == inbox = <<>> /\ outbox = <<>>

\* When nothing is under way, the editor shows the diagnostics of the text the
\* user sees, and none of a document that was closed: what is published in any
\* interleaving of edits and answers ends at the last text (publish).
DiagnosticsSettle ==
  Quiet => \A u \in Uris : shown[u] = IF Open(u) THEN Diagnose(buffers[u]) ELSE {}

\* Applying a fix removes one insecure-form error and changes no other finding,
\* although the server worked it out from the text it had (code_actions_for).
QuickFixClears ==
  [][\A u \in Uris :
       (ApplyFix /\ asked.uri = u) =>
         \E f \in Diagnose(buffers[u]) :
           /\ f.rule = "secure-form"
           /\ Diagnose(buffers'[u]) = Diagnose(buffers[u]) \ {f}]_lspVars
=============================================================================
