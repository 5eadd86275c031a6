------------------------------ MODULE MCStudio ------------------------------
(***************************************************************************)
(* A page of a code block and a button and one of two buttons, what people *)
(* may write in its place, and four desks: Studio's designer; its code     *)
(* view; a preview server and another editor; builds in two terminals and  *)
(* another editor.                                                         *)
(***************************************************************************)
EXTENDS Studio, TLC

Code == INSTANCE DesignerEdits WITH AppComponents <- [c \in {} |-> {}]

Tag(name, field) == [Code!OpenTag(name) EXCEPT !.field = field]
End == Code!CloseTag("x")
Button(handler, field) == [Tag("button", field) EXCEPT !.events = <<[event |-> "click", handler |-> handler]>>]
Form == [Tag("form", "") EXCEPT !.events = <<[event |-> "submit", handler |-> "go"]>>]

First == <<Button("go", "a"), End, Button("boom", ""), End>>
Single == <<Code!At("code"), Code!Token("{"), Code!Token("}"), Button("boom", "a"), End>>
Shifted == <<Tag("p", "b"), End>> \o First
Untyped == <<Tag("p", "a"), Code!Expr(TRUE), End>>
Insecure == <<Form, End>>
Unclosed == <<Code!At("for"), Code!Token("{")>>

MCFiles == <<"Home", "Main">>
MCDrafts == {First, Shifted, Untyped, Insecure, Unclosed}

\* A form, whose handler goes into the block before the elements, and an element
\* that takes no children.
MCKinds == {Code!SecureForm, Code!Input}

\* What the compiler makes of every text that two edits of the designer lead to,
\* wherever they hit.
Edited(texts) ==
  UNION {{t} \cup {Code!SpliceComponent(t, at, k) : at \in 1..Len(t) + 1, k \in MCKinds}
             \cup {Code!SetAttr(t, at, "c") : at \in 1..Len(t) + 1} : t \in texts}
Parsing == {t \in Edited(Edited(MCDrafts \cup {Single})) : Code!Parse(t).err = ""}
Refused == {t \in Parsing : Code!LintError(Code!LintFile(Code!Parse(t)))}
MCParses(t) == t \in Parsing
MCLintErrors(t) == t \in Refused
MCTypeErrors(t) == \E i \in DOMAIN t : t[i] = Code!Expr(TRUE)
MCElements(t) == IF t = <<>> THEN <<>> ELSE Code!SourceMap(Code!Parse(t))
MCHandlersOf(t) == Code!Handlers(Code!Parse(t))
MCDropped(t, at, kind) == Code!SpliceComponent(t, at, kind)
MCWithAttr(t, at, v) == Code!SetAttr(t, at, v)
MCAttrAt(t, at) == Code!SliceAttr(t, at)

Nobody ==
  [first |-> First, writes |-> 2, studio |-> FALSE, kinds |-> {}, drafts |-> {}, clicks |-> 0,
   editor |-> FALSE, serve |-> FALSE, terminals |-> {}]
Designer == [Nobody EXCEPT !.studio = TRUE, !.first = Single, !.kinds = {Code!SecureForm}, !.clicks = 2]
CodeView == [Nobody EXCEPT !.studio = TRUE, !.kinds = {Code!Input}, !.drafts = {Untyped}, !.clicks = 2]
Served == [Nobody EXCEPT !.editor = TRUE, !.serve = TRUE]
Terminals == [Nobody EXCEPT !.editor = TRUE, !.terminals = {"left", "right"}]
MCDesks == {Designer, CodeView, Served, Terminals}
=============================================================================
