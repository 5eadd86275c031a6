----------------------------- MODULE LspAnswers -----------------------------
(***************************************************************************)
(* What motoview lsp computes from the text of a document                  *)
(* (src/compiler/src/lsp.rs): diagnostics, the fixes for insecure forms,   *)
(* completions.  A position in a text is the number of the token it is     *)
(* before.                                                                 *)
(***************************************************************************)
EXTENDS MviewCodegen

\* A text that does not parse has one diagnostic, where the parser stopped.
DiagnosticsFor(text) ==
  LET file == Parse(text)
  IN  IF file.err = "" THEN LintFile(file) ELSE {Finding("parse-error", "error", file.errAt)}

\* A tag is as long as a token: the cursor touches it from either side.
RangesOverlap(at, cursor) == at <= cursor /\ cursor <= at + 1

\* One fix for each insecure form the cursor touches; none where the text
\* does not parse.
CodeActionsFor(text, cursor) ==
  IF Parse(text).err # "" THEN {}
  ELSE {f.at : f \in {g \in LintFile(Parse(text)) : g.rule = "secure-form" /\ RangesOverlap(g.at, cursor)}}

\* The edit puts " secure" before the ">" that ends the token at this place of
\* the text it is applied to; where no tag ends there it is so much text.
ApplyEdit(text, at) ==
  IF at <= Len(text) /\ text[at].kind = "open" THEN [text EXCEPT ![at].secure = TRUE]
  ELSE InsertAt(text, at, Token("text"))

\* Whether a cursor is in a @code block: braces are counted from the last @code
\* before it, whatever it is part of.
CursorInCode(text, cursor) ==
  LET codes == {i \in 1..(cursor - 1) : IsAt(text, i, "code")}
      braces(kind) == {i \in Max(codes)..(cursor - 1) : text[i].kind = kind}
  IN  codes # {} /\ Cardinality(braces("{")) > Cardinality(braces("}"))

CompletionAt(text, cursor) == IF CursorInCode(text, cursor) THEN {"motoko", "services"} ELSE {"directives"}
=============================================================================
