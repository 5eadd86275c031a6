------------------------ MODULE LanguageServerProofs ------------------------
(***************************************************************************)
(* What the language server publishes settles on the text the user sees,   *)
(* for any documents, desks, pipe lengths and analysis of a text.  A       *)
(* message speaks of a document when it opens, changes or closes it.  What *)
(* is to be shown for a document in the end is settled by the last message *)
(* that speaks of it; when the server has read them all, by the last       *)
(* diagnostics published for it; when the editor has read those too, it is *)
(* what the editor shows.  Both pipes keep their order, and that is all    *)
(* the argument needs.                                                     *)
(***************************************************************************)
EXTENDS LanguageServer, TLAPS

Speaks(m, u) ==
  m.uri = u /\ m.method \in {"textDocument/didOpen", "textDocument/didChange", "textDocument/didClose"}
Announced(m) == IF m.method = "textDocument/didClose" THEN {} ELSE Diagnose(m.text)
Shows(r, u) == r.uri = u /\ r.kind = "diagnostics"

Spoken(box, u) == \E k \in DOMAIN box : Speaks(box[k], u)
LastSpoken(box, u, found) ==
  \E k \in DOMAIN box :
    /\ Speaks(box[k], u) /\ Announced(box[k]) = found
    /\ \A j \in DOMAIN box : Speaks(box[j], u) => j <= k

Published(box, u) == \E k \in DOMAIN box : Shows(box[k], u)
LastPublished(box, u, found) ==
  \E k \in DOMAIN box :
    /\ Shows(box[k], u) /\ box[k].items = found
    /\ \A j \in DOMAIN box : Shows(box[j], u) => j <= k

\* The diagnostics of the text the user sees.
Right(u) == IF Open(u) THEN Diagnose(buffers[u]) ELSE {}

Settled(u) ==
  /\ Spoken(inbox, u) => LastSpoken(inbox, u, Right(u))
  /\ (~Spoken(inbox, u) /\ Published(outbox, u)) => LastPublished(outbox, u, Right(u))
  /\ (~Spoken(inbox, u) /\ ~Published(outbox, u)) => shown[u] = Right(u)

IsBox(box) == \E S : box \in Seq(S)
Settling ==
  /\ IsBox(inbox) /\ IsBox(outbox)
  /\ shown = [u \in Uris |-> shown[u]]
  /\ \A u \in Uris : Settled(u)

-----------------------------------------------------------------------------
(* A pipe: written at its end, read at its head.                           *)

\* What is written comes after what was there.
LEMMA WrittenLast ==
  ASSUME NEW box, IsBox(box), NEW m
  PROVE  /\ IsBox(Append(box, m))
         /\ Len(box) \in Nat /\ DOMAIN box = 1..Len(box)
         /\ DOMAIN Append(box, m) = 1..(Len(box) + 1)
         /\ \A k \in 1..Len(box) : Append(box, m)[k] = box[k]
         /\ Append(box, m)[Len(box) + 1] = m
<1>1. PICK S : box \in Seq(S)
  BY DEF IsBox
<1>2. box \in Seq(S \cup {m})
  BY <1>1
<1>3. Append(box, m) \in Seq(S \cup {m})
  BY <1>2
<1> QED
  BY <1>1, <1>2, <1>3 DEF IsBox

\* What is read was first, and the rest moves up by one.
LEMMA ReadFirst ==
  ASSUME NEW box, IsBox(box), box # <<>>
  PROVE  /\ IsBox(Tail(box))
         /\ Len(box) \in Nat /\ Len(box) >= 1 /\ DOMAIN box = 1..Len(box)
         /\ DOMAIN Tail(box) = 1..(Len(box) - 1)
         /\ \A k \in 1..(Len(box) - 1) : Tail(box)[k] = box[k + 1]
         /\ Head(box) = box[1]
<1>1. PICK S : box \in Seq(S)
  BY DEF IsBox
<1>2. Tail(box) \in Seq(S)
  BY <1>1
<1> QED
  BY <1>1, <1>2 DEF IsBox

\* A message about a document, once written, is the last about it.
LEMMA SpokenLast ==
  ASSUME NEW box, IsBox(box), NEW m, NEW u, Speaks(m, u)
  PROVE  Spoken(Append(box, m), u) /\ LastSpoken(Append(box, m), u, Announced(m))
BY WrittenLast DEF Spoken, LastSpoken

\* Writing another message leaves the last one about a document the last.
LEMMA SpokenBefore ==
  ASSUME NEW box, IsBox(box), NEW m, NEW u, ~Speaks(m, u), NEW found
  PROVE  /\ Spoken(Append(box, m), u) <=> Spoken(box, u)
         /\ LastSpoken(box, u, found) => LastSpoken(Append(box, m), u, found)
<1> DEFINE n == Len(box)
           after == Append(box, m)
<1>1. /\ n \in Nat /\ DOMAIN box = 1..n /\ DOMAIN after = 1..(n + 1)
      /\ \A k \in 1..n : after[k] = box[k]
      /\ after[n + 1] = m
  BY WrittenLast
<1> HIDE DEF n, after
<1>2. \A k \in 1..(n + 1) : Speaks(after[k], u) => k \in 1..n /\ Speaks(box[k], u)
  BY <1>1
<1>3. Spoken(after, u) <=> Spoken(box, u)
  BY <1>1, <1>2 DEF Spoken
<1>4. LastSpoken(box, u, found) => LastSpoken(after, u, found)
  BY <1>1, <1>2 DEF LastSpoken
<1> QED
  BY <1>3, <1>4 DEF after

\* Reading a message that is not about a document.
LEMMA HearAnother ==
  ASSUME NEW box, IsBox(box), box # <<>>, NEW u, ~Speaks(Head(box), u), NEW found
  PROVE  /\ Spoken(Tail(box), u) <=> Spoken(box, u)
         /\ LastSpoken(box, u, found) => LastSpoken(Tail(box), u, found)
<1> DEFINE n == Len(box)
           rest == Tail(box)
<1>1. /\ n \in Nat /\ n >= 1 /\ DOMAIN box = 1..n /\ DOMAIN rest = 1..(n - 1)
      /\ \A k \in 1..(n - 1) : rest[k] = box[k + 1]
      /\ ~Speaks(box[1], u)
  BY ReadFirst
<1> HIDE DEF n, rest
<1>2. \A k \in 1..n : Speaks(box[k], u) => k - 1 \in 1..(n - 1) /\ rest[k - 1] = box[k]
  BY <1>1
<1>3. \A k \in 1..(n - 1) : k + 1 \in 1..n /\ rest[k] = box[k + 1]
  BY <1>1
<1>4. Spoken(rest, u) <=> Spoken(box, u)
  BY <1>1, <1>2, <1>3 DEF Spoken
<1>5. ASSUME LastSpoken(box, u, found)
      PROVE  LastSpoken(rest, u, found)
  <2>1. PICK k \in 1..n : /\ Speaks(box[k], u) /\ Announced(box[k]) = found
                          /\ \A j \in 1..n : Speaks(box[j], u) => j <= k
    BY <1>1, <1>5 DEF LastSpoken
  <2>2. \A j \in 1..(n - 1) : Speaks(rest[j], u) => j <= k - 1
    BY <1>1, <1>3, <2>1
  <2> QED
    BY <1>1, <1>2, <2>1, <2>2 DEF LastSpoken
<1> QED
  BY <1>4, <1>5 DEF rest

\* Reading a message about a document: it was the last about it, or the last is
\* still to be read.
LEMMA HearIt ==
  ASSUME NEW box, IsBox(box), box # <<>>, NEW u, NEW found, LastSpoken(box, u, found)
  PROVE  /\ Spoken(Tail(box), u) => LastSpoken(Tail(box), u, found)
         /\ ~Spoken(Tail(box), u) => Announced(Head(box)) = found
<1> DEFINE n == Len(box)
           rest == Tail(box)
<1>1. /\ n \in Nat /\ n >= 1 /\ DOMAIN box = 1..n /\ DOMAIN rest = 1..(n - 1)
      /\ \A k \in 1..(n - 1) : rest[k] = box[k + 1]
      /\ Head(box) = box[1]
  BY ReadFirst
<1> HIDE DEF n, rest
<1>2. PICK k \in 1..n : /\ Speaks(box[k], u) /\ Announced(box[k]) = found
                        /\ \A j \in 1..n : Speaks(box[j], u) => j <= k
  BY <1>1 DEF LastSpoken
<1>3. \A j \in 1..(n - 1) : j + 1 \in 1..n /\ rest[j] = box[j + 1]
  BY <1>1
<1>4. CASE k = 1
  <2>1. ~Spoken(rest, u)
    BY <1>1, <1>2, <1>3, <1>4 DEF Spoken
  <2> QED
    BY <1>1, <1>2, <1>4, <2>1 DEF rest
<1>5. CASE k # 1
  <2>1. k - 1 \in 1..(n - 1) /\ rest[k - 1] = box[k]
    BY <1>1, <1>5
  <2>2. \A j \in 1..(n - 1) : Speaks(rest[j], u) => j <= k - 1
    BY <1>1, <1>2, <1>3
  <2>3. Spoken(rest, u) /\ LastSpoken(rest, u, found)
    BY <1>1, <1>2, <2>1, <2>2 DEF Spoken, LastSpoken
  <2> QED
    BY <2>3 DEF rest
<1> QED
  BY <1>4, <1>5

\* Diagnostics for a document, once written, are the last for it.
LEMMA PublishedLast ==
  ASSUME NEW box, IsBox(box), NEW m, NEW u, Shows(m, u)
  PROVE  Published(Append(box, m), u) /\ LastPublished(Append(box, m), u, m.items)
BY WrittenLast DEF Published, LastPublished

\* Writing another answer leaves the last diagnostics for a document the last.
LEMMA PublishedBefore ==
  ASSUME NEW box, IsBox(box), NEW m, NEW u, ~Shows(m, u), NEW found
  PROVE  /\ Published(Append(box, m), u) <=> Published(box, u)
         /\ LastPublished(box, u, found) => LastPublished(Append(box, m), u, found)
<1> DEFINE n == Len(box)
           after == Append(box, m)
<1>1. /\ n \in Nat /\ DOMAIN box = 1..n /\ DOMAIN after = 1..(n + 1)
      /\ \A k \in 1..n : after[k] = box[k]
      /\ after[n + 1] = m
  BY WrittenLast
<1> HIDE DEF n, after
<1>2. \A k \in 1..(n + 1) : Shows(after[k], u) => k \in 1..n /\ Shows(box[k], u)
  BY <1>1
<1>3. Published(after, u) <=> Published(box, u)
  BY <1>1, <1>2 DEF Published
<1>4. LastPublished(box, u, found) => LastPublished(after, u, found)
  BY <1>1, <1>2 DEF LastPublished
<1> QED
  BY <1>3, <1>4 DEF after

\* Reading an answer that is not for a document.
LEMMA ReadAnother ==
  ASSUME NEW box, IsBox(box), box # <<>>, NEW u, ~Shows(Head(box), u), NEW found
  PROVE  /\ Published(Tail(box), u) <=> Published(box, u)
         /\ LastPublished(box, u, found) => LastPublished(Tail(box), u, found)
<1> DEFINE n == Len(box)
           rest == Tail(box)
<1>1. /\ n \in Nat /\ n >= 1 /\ DOMAIN box = 1..n /\ DOMAIN rest = 1..(n - 1)
      /\ \A k \in 1..(n - 1) : rest[k] = box[k + 1]
      /\ ~Shows(box[1], u)
  BY ReadFirst
<1> HIDE DEF n, rest
<1>2. \A k \in 1..n : Shows(box[k], u) => k - 1 \in 1..(n - 1) /\ rest[k - 1] = box[k]
  BY <1>1
<1>3. \A k \in 1..(n - 1) : k + 1 \in 1..n /\ rest[k] = box[k + 1]
  BY <1>1
<1>4. Published(rest, u) <=> Published(box, u)
  BY <1>1, <1>2, <1>3 DEF Published
<1>5. ASSUME LastPublished(box, u, found)
      PROVE  LastPublished(rest, u, found)
  <2>1. PICK k \in 1..n : /\ Shows(box[k], u) /\ box[k].items = found
                          /\ \A j \in 1..n : Shows(box[j], u) => j <= k
    BY <1>1, <1>5 DEF LastPublished
  <2>2. \A j \in 1..(n - 1) : Shows(rest[j], u) => j <= k - 1
    BY <1>1, <1>3, <2>1
  <2> QED
    BY <1>1, <1>2, <2>1, <2>2 DEF LastPublished
<1> QED
  BY <1>4, <1>5 DEF rest

\* Reading diagnostics for a document: they were the last for it, or the last are
\* still to be read.
LEMMA ReadIt ==
  ASSUME NEW box, IsBox(box), box # <<>>, NEW u, NEW found, LastPublished(box, u, found)
  PROVE  /\ Published(Tail(box), u) => LastPublished(Tail(box), u, found)
         /\ ~Published(Tail(box), u) => Head(box).items = found
<1> DEFINE n == Len(box)
           rest == Tail(box)
<1>1. /\ n \in Nat /\ n >= 1 /\ DOMAIN box = 1..n /\ DOMAIN rest = 1..(n - 1)
      /\ \A k \in 1..(n - 1) : rest[k] = box[k + 1]
      /\ Head(box) = box[1]
  BY ReadFirst
<1> HIDE DEF n, rest
<1>2. PICK k \in 1..n : /\ Shows(box[k], u) /\ box[k].items = found
                        /\ \A j \in 1..n : Shows(box[j], u) => j <= k
  BY <1>1 DEF LastPublished
<1>3. \A j \in 1..(n - 1) : j + 1 \in 1..n /\ rest[j] = box[j + 1]
  BY <1>1
<1>4. CASE k = 1
  <2>1. ~Published(rest, u)
    BY <1>1, <1>2, <1>3, <1>4 DEF Published
  <2> QED
    BY <1>1, <1>2, <1>4, <2>1 DEF rest
<1>5. CASE k # 1
  <2>1. k - 1 \in 1..(n - 1) /\ rest[k - 1] = box[k]
    BY <1>1, <1>5
  <2>2. \A j \in 1..(n - 1) : Shows(rest[j], u) => j <= k - 1
    BY <1>1, <1>2, <1>3
  <2>3. Published(rest, u) /\ LastPublished(rest, u, found)
    BY <1>1, <1>2, <2>1, <2>2 DEF Published, LastPublished
  <2> QED
    BY <2>3 DEF rest
<1> QED
  BY <1>4, <1>5

-----------------------------------------------------------------------------
(* What a step does to one document.                                       *)

\* A step that leaves a document's right diagnostics, and in each pipe what is
\* told of it last, leaves it settled.
LEMMA KeptSettled ==
  ASSUME NEW u \in Uris, Settled(u), Right(u)' = Right(u), shown'[u] = shown[u],
         Spoken(inbox', u) <=> Spoken(inbox, u),
         LastSpoken(inbox, u, Right(u)) => LastSpoken(inbox', u, Right(u)),
         Published(outbox', u) <=> Published(outbox, u),
         LastPublished(outbox, u, Right(u)) => LastPublished(outbox', u, Right(u))
  PROVE  Settled(u)'
BY DEF Settled

\* A step that writes a message which tells of a document what is right for it
\* settles it, whatever else it does.
LEMMA ToldSettled ==
  ASSUME NEW u \in Uris, NEW m, IsBox(inbox), inbox' = Append(inbox, m),
         Speaks(m, u), Announced(m) = Right(u)'
  PROVE  Settled(u)'
BY SpokenLast DEF Settled

\* The editor writes a message which speaks of no document but those it settles,
\* and the documents it does not speak of are as they were.
LEMMA EditorWrites ==
  ASSUME Settling, NEW m, inbox' = Append(inbox, m), shown' = shown,
         IsBox(outbox'),
         \A u \in Uris : Published(outbox', u) <=> Published(outbox, u),
         \A u \in Uris : LastPublished(outbox, u, Right(u)) => LastPublished(outbox', u, Right(u)),
         \A u \in Uris : Speaks(m, u) => Announced(m) = Right(u)',
         \A u \in Uris : ~Speaks(m, u) => Right(u)' = Right(u)
  PROVE  Settling'
<1>1. IsBox(inbox')
  BY WrittenLast DEF Settling
<1>2. ASSUME NEW u \in Uris
      PROVE  Settled(u)'
  <2>1. CASE Speaks(m, u)
    BY <2>1, ToldSettled DEF Settling
  <2>2. CASE ~Speaks(m, u)
    <3>1. /\ Spoken(inbox', u) <=> Spoken(inbox, u)
          /\ LastSpoken(inbox, u, Right(u)) => LastSpoken(inbox', u, Right(u))
      BY <2>2, SpokenBefore DEF Settling
    <3> QED
      BY <2>2, <3>1, KeptSettled DEF Settling
  <2> QED
    BY <2>1, <2>2
<1> QED
  BY <1>1, <1>2 DEF Settling

\* What a document's messages announce when its text is put in the editor.
LEMMA PutRight ==
  ASSUME NEW u \in Uris, NEW text, buffers' = Put(buffers, u, text)
  PROVE  /\ Right(u)' = Diagnose(text)
         /\ \A v \in Uris : v # u => Right(v)' = Right(v)
BY DEF Right, Open, Put

LEMMA PutSettles ==
  ASSUME Settling, NEW u \in Uris, NEW text, buffers' = Put(buffers, u, text),
         NEW method \in {"textDocument/didOpen", "textDocument/didChange"},
         inbox' = Append(inbox, Message(method, u, text, 0)), shown' = shown,
         IsBox(outbox'),
         \A v \in Uris : Published(outbox', v) <=> Published(outbox, v),
         \A v \in Uris : LastPublished(outbox, v, Right(v)) => LastPublished(outbox', v, Right(v))
  PROVE  Settling'
<1> DEFINE m == Message(method, u, text, 0)
<1>1. \A v \in Uris : Speaks(m, v) <=> v = u
  BY DEF Speaks, Message
<1>2. Announced(m) = Diagnose(text)
  BY DEF Announced, Message
<1>3. \A v \in Uris : Speaks(m, v) => Announced(m) = Right(v)'
  BY <1>1, <1>2, PutRight
<1>4. \A v \in Uris : ~Speaks(m, v) => Right(v)' = Right(v)
  BY <1>1, PutRight
<1> QED
  BY <1>3, <1>4, EditorWrites

\* The editor reads an answer that is not diagnostics.
LEMMA AnswerRead ==
  ASSUME Settling, outbox # <<>>, Head(outbox).kind # "diagnostics"
  PROVE  /\ IsBox(Tail(outbox))
         /\ \A u \in Uris : /\ Published(Tail(outbox), u) <=> Published(outbox, u)
                            /\ LastPublished(outbox, u, Right(u)) => LastPublished(Tail(outbox), u, Right(u))
BY ReadFirst, ReadAnother DEF Settling, Shows

\* The server reads a message that speaks of no document and answers with no
\* diagnostics, or not at all.
LEMMA ServerAnswers ==
  ASSUME Settling, inbox # <<>>, \A u \in Uris : ~Speaks(Head(inbox), u), inbox' = Tail(inbox),
         NEW r, r.kind # "diagnostics", outbox' = outbox \/ outbox' = Append(outbox, r),
         shown' = shown, buffers' = buffers
  PROVE  Settling'
<1>1. IsBox(inbox')
  BY ReadFirst DEF Settling
<1>2. IsBox(outbox')
  <2>1. IsBox(outbox) /\ IsBox(Append(outbox, r))
    BY WrittenLast DEF Settling
  <2> QED
    BY <2>1
<1>3. ASSUME NEW u \in Uris
      PROVE  Settled(u)'
  <2>1. /\ Spoken(inbox', u) <=> Spoken(inbox, u)
        /\ LastSpoken(inbox, u, Right(u)) => LastSpoken(inbox', u, Right(u))
    BY HearAnother DEF Settling
  <2>2. /\ Published(outbox', u) <=> Published(outbox, u)
        /\ LastPublished(outbox, u, Right(u)) => LastPublished(outbox', u, Right(u))
    BY PublishedBefore DEF Settling, Shows
  <2>3. Right(u)' = Right(u)
    BY DEF Right, Open
  <2> QED
    BY <2>1, <2>2, <2>3, KeptSettled DEF Settling
<1> QED
  BY <1>1, <1>2, <1>3 DEF Settling

\* The server reads a message about a document and publishes what it announces.
LEMMA ServerPublishes ==
  ASSUME Settling, inbox # <<>>, inbox' = Tail(inbox), NEW v, NEW found,
         \A u \in Uris : Speaks(Head(inbox), u) <=> u = v,
         Announced(Head(inbox)) = found,
         outbox' = Append(outbox, Reply("diagnostics", v, found)),
         shown' = shown, buffers' = buffers
  PROVE  Settling'
<1> DEFINE r == Reply("diagnostics", v, found)
<1>1. IsBox(inbox') /\ IsBox(outbox')
  BY ReadFirst, WrittenLast DEF Settling
<1>2. ASSUME NEW u \in Uris
      PROVE  Settled(u)'
  <2>1. Right(u)' = Right(u)
    BY DEF Right, Open
  <2>2. CASE u = v
    <3>1. Shows(r, u) /\ r.items = found
      BY <2>2 DEF Shows, Reply
    <3>2. Published(outbox', u) /\ LastPublished(outbox', u, found)
      BY <3>1, PublishedLast DEF Settling
    <3>3. Spoken(inbox, u)
      BY <2>2, ReadFirst DEF Settling, Spoken
    <3>4. LastSpoken(inbox, u, Right(u))
      BY <3>3 DEF Settling, Settled
    <3>5. /\ Spoken(inbox', u) => LastSpoken(inbox', u, Right(u))
          /\ ~Spoken(inbox', u) => found = Right(u)
      BY <3>4, HearIt DEF Settling
    <3> QED
      BY <2>1, <3>2, <3>5 DEF Settled
  <2>3. CASE u # v
    <3>1. /\ Spoken(inbox', u) <=> Spoken(inbox, u)
          /\ LastSpoken(inbox, u, Right(u)) => LastSpoken(inbox', u, Right(u))
      BY <2>3, HearAnother DEF Settling
    <3>2. ~Shows(r, u)
      BY <2>3 DEF Shows, Reply
    <3>3. /\ Published(outbox', u) <=> Published(outbox, u)
          /\ LastPublished(outbox, u, Right(u)) => LastPublished(outbox', u, Right(u))
      BY <3>2, PublishedBefore DEF Settling
    <3> QED
      BY <2>1, <3>1, <3>3, KeptSettled DEF Settling
  <2> QED
    BY <2>2, <2>3
<1> QED
  BY <1>1, <1>2 DEF Settling

-----------------------------------------------------------------------------
(* Every step.                                                             *)

LEMMA SettlingInit == Init => Settling
<1> SUFFICES ASSUME Init PROVE Settling
  OBVIOUS
<1> DEFINE m == Message("initialize", "", <<>>, 0)
<1>1. inbox = <<m>> /\ outbox = <<>>
  BY DEF Init
<1>2. \A u \in Uris : ~Speaks(m, u)
  BY DEF Speaks, Message
<1> HIDE DEF m
<1>3. inbox \in Seq({m}) /\ outbox \in Seq({}) /\ DOMAIN inbox = {1} /\ inbox[1] = m /\ DOMAIN outbox = {}
  BY <1>1
<1>4. IsBox(inbox) /\ IsBox(outbox)
  BY <1>3 DEF IsBox
<1>5. ASSUME NEW u \in Uris
      PROVE  Settled(u)
  <2>1. ~Spoken(inbox, u)
    BY <1>2, <1>3 DEF Spoken
  <2>2. ~Published(outbox, u)
    BY <1>3 DEF Published
  <2>3. shown[u] = Right(u)
    BY DEF Init, Right, Open
  <2> QED
    BY <2>1, <2>2, <2>3 DEF Settled
<1> QED
  BY <1>4, <1>5 DEF Init, Settling

LEMMA SettlingStep == Settling /\ [Next]_lspVars => Settling'
<1> SUFFICES ASSUME Settling, [Next]_lspVars PROVE Settling'
  OBVIOUS
<1>1. ASSUME NEW u \in Uris, OpenDocument(u) PROVE Settling'
  <2> DEFINE text == desk.before \o desk.after
  <2>1. /\ buffers' = Put(buffers, u, text)
        /\ inbox' = Append(inbox, Message("textDocument/didOpen", u, text, 0))
        /\ outbox' = outbox /\ shown' = shown
    BY <1>1 DEF OpenDocument, Send
  <2> HIDE DEF text
  <2> QED
    BY <2>1, PutSettles DEF Settling
<1>2. ASSUME NEW u \in Uris, NEW text, Write(u, text), outbox' = outbox, shown' = shown PROVE Settling'
  <2>1. /\ buffers' = Put(buffers, u, text)
        /\ inbox' = Append(inbox, Message("textDocument/didChange", u, text, 0))
    BY <1>2 DEF Write, Send
  <2> QED
    BY <1>2, <2>1, PutSettles DEF Settling
<1>3. ASSUME NEW u \in Uris, Type(u) PROVE Settling'
  BY <1>2, <1>3 DEF Type
<1>4. ASSUME NEW u \in Uris, Erase(u) PROVE Settling'
  BY <1>2, <1>4 DEF Erase
<1>5. ASSUME NEW u \in Uris, CloseDocument(u) PROVE Settling'
  <2> DEFINE m == Message("textDocument/didClose", u, <<>>, 0)
  <2>1. /\ buffers' = [v \in DOMAIN buffers \ {u} |-> buffers[v]]
        /\ inbox' = Append(inbox, m) /\ outbox' = outbox /\ shown' = shown
    BY <1>5 DEF CloseDocument, Send
  <2>2. Announced(m) = {} /\ \A v \in Uris : Speaks(m, v) <=> v = u
    BY DEF Announced, Speaks, Message
  <2>3. Right(u)' = {} /\ \A v \in Uris : v # u => Right(v)' = Right(v)
    BY <2>1 DEF Right, Open
  <2>4. \A v \in Uris : Speaks(m, v) => Announced(m) = Right(v)'
    BY <2>2, <2>3
  <2>5. \A v \in Uris : ~Speaks(m, v) => Right(v)' = Right(v)
    BY <2>2, <2>3
  <2> HIDE DEF m
  <2> QED
    BY <2>1, <2>4, <2>5, EditorWrites DEF Settling
<1>6. ASSUME NEW u \in Uris, NEW method \in {"completion", "codeAction"}, Ask(u, method) PROVE Settling'
  <2>1. PICK cursor : inbox' = Append(inbox, Message(method, u, <<>>, cursor))
    BY <1>6 DEF Ask, Send
  <2>2. \A v \in Uris : ~Speaks(Message(method, u, <<>>, cursor), v)
    BY DEF Speaks, Message
  <2>3. /\ \A v \in Uris : Right(v)' = Right(v)
        /\ outbox' = outbox /\ shown' = shown
    BY <1>6 DEF Ask, Right, Open
  <2> QED
    BY <2>1, <2>2, <2>3, EditorWrites DEF Settling
<1>7. CASE Noise
  <2>1. PICK method \in {"unknownRequest", "unknownNotification", "malformed"} :
          inbox' = Append(inbox, Message(method, "", <<>>, 0))
    BY <1>7 DEF Noise, Send
  <2>2. \A v \in Uris : ~Speaks(Message(method, "", <<>>, 0), v)
    BY DEF Speaks, Message
  <2>3. /\ \A v \in Uris : Right(v)' = Right(v)
        /\ outbox' = outbox /\ shown' = shown
    BY <1>7 DEF Noise, Right, Open
  <2> QED
    BY <2>1, <2>2, <2>3, EditorWrites DEF Settling
<1>8. CASE Quit
  <2> DEFINE m1 == Message("shutdown", "", <<>>, 0)
             m2 == Message("exit", "", <<>>, 0)
  <2>1. /\ inbox = <<>> /\ inbox' = <<m1, m2>>
        /\ outbox' = outbox /\ shown' = shown /\ buffers' = buffers
    BY <1>8 DEF Quit
  <2>2. \A u \in Uris : ~Speaks(m1, u) /\ ~Speaks(m2, u)
    BY DEF Speaks, Message
  <2> HIDE DEF m1, m2
  <2>3. /\ inbox' \in Seq({m1, m2}) /\ DOMAIN inbox' = {1, 2} /\ inbox'[1] = m1 /\ inbox'[2] = m2
        /\ DOMAIN inbox = {}
    BY <2>1
  <2>4. \A u \in Uris : ~Spoken(inbox, u) /\ ~Spoken(inbox', u)
    BY <2>2, <2>3 DEF Spoken
  <2>5. \A u \in Uris : ~LastSpoken(inbox, u, Right(u))
    BY <2>3 DEF LastSpoken
  <2>6. \A u \in Uris : Right(u)' = Right(u)
    BY <2>1 DEF Right, Open
  <2>7. \A u \in Uris : Settled(u)'
    BY <2>1, <2>4, <2>5, <2>6, KeptSettled DEF Settling
  <2> QED
    BY <2>1, <2>3, <2>7 DEF Settling, IsBox
<1>9. CASE ShowDiagnostics
  <2> DEFINE r == Head(outbox)
  <2>1. /\ outbox # <<>> /\ outbox' = Tail(outbox) /\ inbox' = inbox /\ buffers' = buffers
        /\ shown' = [shown EXCEPT ![r.uri] = r.items] /\ r.kind = "diagnostics"
    BY <1>9 DEF ShowDiagnostics
  <2>2. shown' = [u \in Uris |-> IF u = r.uri THEN r.items ELSE shown[u]]
    BY <2>1 DEF Settling
  <2> HIDE DEF r
  <2>3. IsBox(outbox')
    BY <2>1, ReadFirst DEF Settling
  <2>4. ASSUME NEW u \in Uris
        PROVE  Settled(u)'
    <3>1. Right(u)' = Right(u)
      BY <2>1 DEF Right, Open
    <3>2. CASE Shows(r, u)
      <4>1. Published(outbox, u)
        BY <2>1, <3>2, ReadFirst DEF Settling, Published, r
      <4>2. shown'[u] = r.items
        BY <2>2, <3>2 DEF Shows
      <4>3. LastPublished(outbox, u, Right(u)) =>
              /\ Published(outbox', u) => LastPublished(outbox', u, Right(u))
              /\ ~Published(outbox', u) => r.items = Right(u)
        BY <2>1, ReadIt DEF Settling, r
      <4> QED
        BY <2>1, <3>1, <4>1, <4>2, <4>3 DEF Settling, Settled
    <3>3. CASE ~Shows(r, u)
      <4>1. shown'[u] = shown[u]
        BY <2>1, <2>2, <3>3 DEF Shows
      <4>2. /\ Published(outbox', u) <=> Published(outbox, u)
            /\ LastPublished(outbox, u, Right(u)) => LastPublished(outbox', u, Right(u))
        BY <2>1, <3>3, ReadAnother DEF Settling, r
      <4> QED
        BY <2>1, <3>1, <4>1, <4>2, KeptSettled DEF Settling
    <3> QED
      BY <3>2, <3>3
  <2> QED
    BY <2>1, <2>2, <2>3, <2>4 DEF Settling
<1>10. CASE TakeAnswer
  <2>1. /\ outbox # <<>> /\ Head(outbox).kind # "diagnostics" /\ outbox' = Tail(outbox)
        /\ inbox' = inbox /\ shown' = shown /\ buffers' = buffers
    BY <1>10 DEF TakeAnswer
  <2>2. \A u \in Uris : Right(u)' = Right(u)
    BY <2>1 DEF Right, Open
  <2>3. /\ IsBox(outbox')
        /\ \A u \in Uris : /\ Published(outbox', u) <=> Published(outbox, u)
                           /\ LastPublished(outbox, u, Right(u)) => LastPublished(outbox', u, Right(u))
    BY <2>1, AnswerRead
  <2>4. \A u \in Uris : Settled(u)'
    BY <2>1, <2>2, <2>3, KeptSettled DEF Settling
  <2> QED
    BY <2>1, <2>3, <2>4 DEF Settling
<1>11. CASE ApplyFix
  <2>1. /\ outbox # <<>> /\ Head(outbox).kind # "diagnostics" /\ outbox' = Tail(outbox) /\ shown' = shown
    BY <1>11 DEF ApplyFix
  <2>2. PICK at : Write(asked.uri, Fixed(buffers[asked.uri], at))
    BY <1>11 DEF ApplyFix
  <2> DEFINE u == asked.uri
             text == Fixed(buffers[u], at)
  <2>3. /\ buffers' = Put(buffers, u, text)
        /\ inbox' = Append(inbox, Message("textDocument/didChange", u, text, 0))
    BY <2>2 DEF Write, Send
  <2> HIDE DEF u, text
  <2>4. /\ IsBox(outbox')
        /\ \A v \in Uris : Published(outbox', v) <=> Published(outbox, v)
        /\ \A v \in Uris : LastPublished(outbox, v, Right(v)) => LastPublished(outbox', v, Right(v))
    BY <2>1, AnswerRead
  <2>5. CASE u \in Uris
    BY <2>1, <2>3, <2>5, <2>4, PutSettles
  <2>6. CASE u \notin Uris
    <3>1. \A v \in Uris : ~Speaks(Message("textDocument/didChange", u, text, 0), v)
      BY <2>6 DEF Speaks, Message
    <3>2. \A v \in Uris : Right(v)' = Right(v)
      BY <2>3, <2>6 DEF Right, Open, Put
    <3> QED
      BY <2>1, <2>3, <2>4, <3>1, <3>2, EditorWrites
  <2> QED
    BY <2>5, <2>6
<1>12. CASE OnText
  <2> DEFINE m == Head(inbox)
  <2>1. /\ inbox # <<>> /\ inbox' = Tail(inbox) /\ shown' = shown /\ buffers' = buffers
        /\ m.method \in {"textDocument/didOpen", "textDocument/didChange"}
        /\ outbox' = Append(outbox, Reply("diagnostics", m.uri, Diagnose(m.text)))
    BY <1>12 DEF OnText, Receive
  <2>2. (\A u \in Uris : Speaks(m, u) <=> u = m.uri) /\ Announced(m) = Diagnose(m.text)
    BY <2>1 DEF Speaks, Announced
  <2> QED
    BY <2>1, <2>2, ServerPublishes
<1>13. CASE OnDidClose
  <2> DEFINE m == Head(inbox)
  <2>1. /\ inbox # <<>> /\ inbox' = Tail(inbox) /\ shown' = shown /\ buffers' = buffers
        /\ m.method = "textDocument/didClose"
        /\ outbox' = Append(outbox, Reply("diagnostics", m.uri, {}))
    BY <1>13 DEF OnDidClose, Receive
  <2>2. (\A u \in Uris : Speaks(m, u) <=> u = m.uri) /\ Announced(m) = {}
    BY <2>1 DEF Speaks, Announced
  <2> QED
    BY <2>1, <2>2, ServerPublishes
<1>14. ASSUME NEW methods, Receive(methods),
              \A method \in methods : method \notin {"textDocument/didOpen", "textDocument/didChange", "textDocument/didClose"},
              NEW r, r.kind # "diagnostics", outbox' = outbox \/ outbox' = Append(outbox, r)
       PROVE  Settling'
  <2>1. /\ inbox # <<>> /\ inbox' = Tail(inbox) /\ shown' = shown /\ buffers' = buffers
        /\ Head(inbox).method \in methods
    BY <1>14 DEF Receive
  <2>2. \A u \in Uris : ~Speaks(Head(inbox), u)
    BY <1>14, <2>1 DEF Speaks
  <2> QED
    BY <1>14, <2>1, <2>2, ServerAnswers
<1>15. CASE OnInitialize
  <2>1. Reply("capabilities", "", {}).kind # "diagnostics"
    BY DEF Reply
  <2>2. Receive({"initialize"}) /\ outbox' = Append(outbox, Reply("capabilities", "", {}))
    BY <1>15 DEF OnInitialize
  <2> QED
    BY <1>14, <2>1, <2>2
<1>16. CASE OnCompletion
  <2> DEFINE r == Reply("completion", "", CompletionsAt(Docs(Head(inbox).uri), Head(inbox).at))
  <2>1. r.kind # "diagnostics"
    BY DEF Reply
  <2>2. Receive({"completion"}) /\ outbox' = Append(outbox, r)
    BY <1>16 DEF OnCompletion
  <2> QED
    BY <1>14, <2>1, <2>2
<1>17. CASE OnCodeAction
  <2> DEFINE r == Reply("codeAction", "", FixesAt(Docs(Head(inbox).uri), Head(inbox).at))
  <2>1. r.kind # "diagnostics"
    BY DEF Reply
  <2>2. Receive({"codeAction"}) /\ outbox' = Append(outbox, r)
    BY <1>17 DEF OnCodeAction
  <2> QED
    BY <1>14, <2>1, <2>2
<1>18. CASE OnShutdown
  <2>1. Reply("null", "", {}).kind # "diagnostics"
    BY DEF Reply
  <2>2. Receive({"shutdown"}) /\ outbox' = Append(outbox, Reply("null", "", {}))
    BY <1>18 DEF OnShutdown
  <2> QED
    BY <1>14, <2>1, <2>2
<1>19. CASE OnExit
  <2>1. Reply("null", "", {}).kind # "diagnostics"
    BY DEF Reply
  <2>2. Receive({"exit"}) /\ outbox' = outbox
    BY <1>19 DEF OnExit
  <2> QED
    BY <1>14, <2>1, <2>2
<1>20. CASE OnOther
  <2>1. Reply("methodNotFound", "", {}).kind # "diagnostics"
    BY DEF Reply
  <2>2. /\ Receive({"unknownRequest", "unknownNotification", "malformed"})
        /\ outbox' = outbox \/ outbox' = Append(outbox, Reply("methodNotFound", "", {}))
    BY <1>20 DEF OnOther
  <2> QED
    BY <1>14, <2>1, <2>2
<1>21. CASE UNCHANGED lspVars
  <2>1. \A u \in Uris : Settled(u)'
    BY <1>21 DEF lspVars, Settling, Settled, Right, Open
  <2> QED
    BY <1>21, <2>1 DEF lspVars, Settling
<1> QED
  BY <1>1, <1>3, <1>4, <1>5, <1>6, <1>7, <1>8, <1>9, <1>10, <1>11, <1>12, <1>13, <1>15, <1>16, <1>17,
     <1>18, <1>19, <1>20, <1>21 DEF Next, Editor, Server

LEMMA SettlingHolds == Spec => []Settling
BY SettlingInit, SettlingStep, PTL DEF Spec

\* When nothing is under way between the editor and the server, the editor shows
\* for each document the diagnostics of the text the user sees, and none for a
\* closed one (publish, on_did_close).
THEOREM DiagnosticsSettleHolds == Spec => []DiagnosticsSettle
<1>1. Settling => DiagnosticsSettle
  <2> SUFFICES ASSUME Settling, Quiet, NEW u \in Uris
               PROVE  shown[u] = IF Open(u) THEN Diagnose(buffers[u]) ELSE {}
    BY DEF DiagnosticsSettle
  <2>1. ~Spoken(inbox, u) /\ ~Published(outbox, u)
    BY DEF Quiet, Spoken, Published
  <2> QED
    BY <2>1 DEF Settling, Settled, Right
<1> QED
  BY <1>1, SettlingHolds, PTL
=============================================================================
