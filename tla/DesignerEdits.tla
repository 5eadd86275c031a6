--------------------------- MODULE DesignerEdits ---------------------------
(***************************************************************************)
(* The edits Studio's designer makes in the text of a page                 *)
(* (src/apps/studio/native/src/backend.rs): a component dropped into an    *)
(* element together with the handler it needs, the value of an attribute.  *)
(***************************************************************************)
EXTENDS MviewCodegen

-----------------------------------------------------------------------------
(* The toolbox.  Eleven tiles insert seven snippets: Row and Column are a  *)
(* Container of another class, WalletButton and IIAuth a Button of another *)
(* text.  A snippet begins with a line break and the indentation.          *)

Offered(snippet, handler) == [snippet |-> <<Token("blank")>> \o snippet, handler |-> handler]
Single(name, field) == <<[OpenTag(name) EXCEPT !.closed = TRUE, !.field = field]>>
Labelled(name) == <<OpenTag(name), Token("text"), CloseTag(name)>>

Container == Offered(<<OpenTag("div"), CloseTag("div")>>, "")
Text == Offered(Labelled("p"), "")
Button == Offered(Labelled("button"), "")
Input == Offered(Single("input", "field"), "")
Image == Offered(Single("img", ""), "")
EncryptedField == Offered(Single("input", "secret"), "")
SecureForm ==
  Offered(<<[OpenTag("form") EXCEPT !.secure = TRUE, !.events = <<[event |-> "submit", handler |-> "onSubmit"]>>],
            Token("blank")>> \o Labelled("button") \o <<Token("blank"), CloseTag("form")>>, "onSubmit")
Toolbox == {Container, Text, Button, Input, Image, EncryptedField, SecureForm}

-----------------------------------------------------------------------------
(* The handler.  The text is searched as it is spelled, not as it parses:  *)
(* a directive may be a mention of one, a brace may be one in a string or  *)
(* a comment.  Braces in attributes and expressions are left out.          *)

SpellsCode(token) == token = Mention \/ (token.kind = "at" /\ token.name \in {"code", "codeName"})
HidesBrace(token) == token.kind \in {"quoted", "comment"} /\ token.name \in {"{", "}"}
Spelled(text) == [i \in DOMAIN text |-> IF HidesBrace(text[i]) THEN Token(text[i].name) ELSE text[i]]

Splice(text, at, tokens) == SubSeq(text, 1, at) \o tokens \o SubSeq(text, at + 1, Len(text))
HandlerText(handler) == <<Comment(""), Func(handler), Token("{"), Token("}"), Token(";")>>

\* The handler's text before a "}": a line of its own ends the comment that the
\* "}" was in, and becomes part of the string that it was in.
WriteBefore(text, close, tokens) ==
  CASE text[close].kind = "quoted" -> text
    [] text[close].kind = "comment" ->
         Splice([text EXCEPT ![close] = Token("}")], close - 1, <<Comment("")>> \o tokens)
    [] OTHER -> Splice(text, close - 1, tokens)

\* Before the "}" that closes the first "{" after the first "@code", unless the
\* text has a function of that name somewhere, or no such block.
Scaffolded(text, handler) ==
  LET codes == {i \in DOMAIN text : SpellsCode(text[i])}
      open == UntilBrace(Spelled(text), Min(codes))
      close == BlockEnd(Spelled(text), open + 1, 1)
  IN  IF codes = {} \/ (\E i \in DOMAIN text : text[i] = Func(handler)) THEN text
      ELSE IF open > Len(text) \/ close = 0 THEN text
      ELSE WriteBefore(text, close, HandlerText(handler))

-----------------------------------------------------------------------------
\* A component is dropped at the end of an element's open tag: its first child,
\* or its next sibling when it takes none.
Inserted(text, at, kind) ==
  IF kind.handler = "" THEN Splice(text, at, kind.snippet)
  ELSE Scaffolded(Splice(text, at, kind.snippet), kind.handler)
SpliceBefore(text, at, kind) == Inserted(text, Min({at - 1, Len(text)}), kind)  \* mutant: at the start of the span
SpliceComponent(text, at, kind) == Inserted(text, Min({at, Len(text)}), kind)

\* What the span of an element's attribute holds: the value, if the span still is
\* an attribute's.
SliceAttr(text, at) == IF at \in DOMAIN text /\ text[at].kind = "open" THEN {text[at].field} ELSE {}

\* The value is replaced where the span is, whatever is there by now.
SetAttr(text, at, value) ==
  IF at \in DOMAIN text /\ text[at].kind = "open" THEN [text EXCEPT ![at].field = value]
  ELSE InsertAt(text, Min({at, Len(text) + 1}), Token("text"))
=============================================================================
