---------------------------- MODULE MviewParser ----------------------------
(***************************************************************************)
(* The parser of .mview pages, layouts and components                      *)
(* (src/compiler/src/parser.rs, ast.rs, span.rs).                          *)
(*                                                                         *)
(* A source is a sequence of tokens.  A token stands for one construct of  *)
(* the source: an open tag with its attributes, an end tag, a directive    *)
(* keyword, a brace, a word of code, a run of text; its position is the    *)
(* span of the construct.  The parser's cursor i is the next token.  What  *)
(* a token is spelled like is data, kept only as far as the compiler tells *)
(* it apart.                                                               *)
(*                                                                         *)
(* The operators are RECURSIVE as the parser is: this module and the ones  *)
(* that extend it are for model checking only.                             *)
(***************************************************************************)
EXTENDS Integers, Sequences, TLC

\* A token is a record with a kind; a kind's further fields are written here.
Token(kind) == [kind |-> kind]
At(name) == [kind |-> "at", name |-> name]          \* @if, @slot, @page ...
Expr(paren) == [kind |-> "expr", paren |-> paren]   \* @(e), or @e and @e.f(x)
Quoted(name) == [kind |-> "quoted", name |-> name]  \* "name"
Comment(name) == [kind |-> "comment", name |-> name] \* // name, in code
Mention == [kind |-> "mention"]                     \* text that spells a directive: @@code
CloseTag(name) == [kind |-> "close", name |-> name]
Func(name) == [kind |-> "func", name |-> name]      \* func name(...)
OpenTag(name) ==
  [kind |-> "open", name |-> name,
   component |-> FALSE, closed |-> FALSE,  \* <Name ...>, <name ... />
   events |-> <<>>,     \* <<[event, handler]>>, in the order written
   secure |-> FALSE,
   bind |-> "",         \* bind="@v"
   field |-> "",        \* name="f"
   drop |-> "",         \* data-mv-drop="f"
   titled |-> FALSE,    \* the props of a component that are shown as text
   hidden |-> FALSE,    \* count="0" or dot
   mixed |-> FALSE]     \* an attribute of text and expressions

VoidTags == {"input", "br", "img"}
RawTextTags == {"style", "script"}
LineDirectives == {"page", "layout", "title", "description", "canonical", "authorize", "meta"}
TopLevelKeywords == LineDirectives \cup {"cacheable", "code", "style", "theme", "section"}

\* A node: bodies holds the node sequences below it (the children of an element;
\* the children and then the slots, named in names, of a component; the branches
\* of @if, the body of @for, the cases of @switch).
Leaf(node, at) ==
  [node |-> node, at |-> at, tag |-> OpenTag(""), bodies |-> <<>>, names |-> <<>>]
Inner(node, at, bodies) == [Leaf(node, at) EXCEPT !.bodies = bodies]

Kind(d, i) == IF i \in 1..Len(d) THEN d[i].kind ELSE "eof"
IsAt(d, i, name) == Kind(d, i) = "at" /\ d[i].name = name
Parsed(nodes, i) == [nodes |-> nodes, next |-> i, err |-> ""]
Failed(i, why) == [nodes |-> <<>>, next |-> i, err |-> why]
Then(r, Ok(_)) == IF r.err # "" THEN r ELSE Ok(r)  \* r?

\* Blank text is a token of its own, for skip_ws passes it.
RECURSIVE SkipBlank(_, _)
SkipBlank(d, i) == IF Kind(d, i) = "blank" THEN SkipBlank(d, i + 1) ELSE i

\* expect: blanks, then a token of this kind.
Expected(d, i, kind) ==
  LET j == SkipBlank(d, i) IN IF Kind(d, j) = kind THEN Parsed(<<>>, j + 1) ELSE Failed(j, "expected")

\* section_has_body, slot_has_body: past the keyword, blanks, a name, blanks.
HasBody(d, i) ==
  LET q == SkipBlank(d, i + 1)
  IN  Kind(d, SkipBlank(d, IF Kind(d, q) = "quoted" THEN q + 1 ELSE q)) = "{"

\* Everything up to a "{" is a condition, an iterator or a pattern.
RECURSIVE UntilBrace(_, _)
UntilBrace(d, i) == IF Kind(d, i) \in {"{", "eof"} THEN i ELSE UntilBrace(d, i + 1)

\* The "}" that ends a block whose "{" was passed, 0 when there is none.  A
\* string or a comment is one token, so that its braces do not count.
RECURSIVE BlockEnd(_, _, _)
BlockEnd(d, i, depth) ==
  CASE Kind(d, i) = "eof" -> 0
    [] Kind(d, i) = "{" -> BlockEnd(d, i + 1, depth + 1)
    [] Kind(d, i) = "}" -> IF depth = 1 THEN i ELSE BlockEnd(d, i + 1, depth - 1)
    [] OTHER -> BlockEnd(d, i + 1, depth)

\* An end tag's name is not compared, and a missing one is forgiven.
ConsumeEndTag(d, i) ==
  LET j == SkipBlank(d, i) IN IF Kind(d, j) = "close" THEN j + 1 ELSE j

\* <style> and <script> run to their own end tag, and only @(...) is live in them.
RECURSIVE RawText(_, _, _, _)
RawText(d, i, name, acc) ==
  CASE Kind(d, i) = "eof" \/ (Kind(d, i) = "close" /\ d[i].name = name) -> Parsed(acc, i)
    [] Kind(d, i) = "expr" /\ d[i].paren -> RawText(d, i + 1, name, Append(acc, Leaf("expr", i)))
    [] OTHER -> RawText(d, i + 1, name, acc)

\* Adjacent text is one node.
WithText(acc, i) ==
  IF acc # <<>> /\ acc[Len(acc)].node = "text" THEN acc ELSE Append(acc, Leaf("text", i))

RECURSIVE ParseNodes(_, _, _, _), Block(_, _), Branches(_, _, _), Cases(_, _, _), Slots(_, _, _)

\* Where content ends: a "}" in a block, any end tag in an element, a directive
\* at the top of the file (a @section without a body is content).
Stops(d, i, stop) ==
  \/ Kind(d, i) = "eof"
  \/ stop = "brace" /\ Kind(d, i) = "}"
  \/ stop = "end" /\ Kind(d, i) = "close"
  \/ /\ stop = "top" /\ Kind(d, i) = "at" /\ d[i].name \in TopLevelKeywords
     /\ d[i].name = "section" => HasBody(d, i)

\* @slot "name" and @section "name" without a body.
Placeholder(d, i) ==
  LET q == SkipBlank(d, i + 1)
  IN  IF Kind(d, q) # "quoted" THEN Failed(q, "expected")
      ELSE Parsed(<<[Leaf(d[i].name, i) EXCEPT !.names = <<d[q].name>>]>>, q + 1)

\* An @if with its chain of else if and else.
ParseIf(d, i) ==
  Then(Branches(d, i + 1, <<>>), LAMBDA r : Parsed(<<Inner("if", i, r.nodes)>>, r.next))

ParseFor(d, i) ==
  Then(Block(d, UntilBrace(d, i + 1)), LAMBDA r : Parsed(<<Inner("for", i, <<r.nodes>>)>>, r.next))

ParseSwitch(d, i) ==
  Then(Expected(d, UntilBrace(d, i + 1), "{"), LAMBDA b :
    Then(Cases(d, b.next, <<>>), LAMBDA r : Parsed(<<Inner("switch", i, r.nodes)>>, r.next)))

\* An element or a component.  A stray end tag reads as an element without a
\* name.  A component keeps its bind as a prop.
Tagged(t, i, slots, children) ==
  [Inner(IF t.component THEN "component" ELSE "element", i,
         children \o [k \in DOMAIN slots |-> slots[k].bodies[1]])
     EXCEPT !.tag = t, !.names = [k \in DOMAIN slots |-> slots[k].names[1]]]
ParseOpen(d, i, t) ==
  IF t.closed \/ (~t.component /\ t.name \in VoidTags) THEN Parsed(<<Tagged(t, i, <<>>, <<>>)>>, i + 1)
  ELSE Then(IF t.component THEN Slots(d, i + 1, <<>>) ELSE Parsed(<<>>, i + 1), LAMBDA s :
         Then(IF ~t.component /\ t.name \in RawTextTags THEN RawText(d, i + 1, t.name, <<>>)
              ELSE ParseNodes(d, s.next, "end", <<>>),
              LAMBDA r : Parsed(<<Tagged(t, i, s.nodes, <<r.nodes>>)>>, ConsumeEndTag(d, r.next))))
ParseTag(d, i) == ParseOpen(d, i, IF Kind(d, i) = "open" THEN d[i] ELSE OpenTag(""))

\* The slots a parent fills: @slot "name" { ... }, recognised at the head of
\* the children only.
Slots(d, i, acc) ==
  IF ~(IsAt(d, i, "slot") /\ HasBody(d, i)) THEN Parsed(acc, i)
  ELSE Then(Placeholder(d, i), LAMBDA q :
         Then(Block(d, q.next), LAMBDA r :
           Slots(d, r.next, Append(acc, [q.nodes[1] EXCEPT !.bodies = <<r.nodes>>]))))

Block(d, i) ==
  Then(Expected(d, i, "{"), LAMBDA o :
    Then(ParseNodes(d, o.next, "brace", <<>>), LAMBDA r :
      Then(Expected(d, r.next, "}"), LAMBDA c : Parsed(r.nodes, c.next))))

\* What follows the "}" of a branch, from the first token that is not blank.
Else(d, e, next, bodies) ==
  IF Kind(d, e) # "else" THEN Parsed(bodies, next)
  ELSE IF Kind(d, SkipBlank(d, e + 1)) = "if" THEN Branches(d, SkipBlank(d, e + 1) + 1, bodies)
  ELSE Then(Block(d, e + 1), LAMBDA r : Parsed(Append(bodies, r.nodes), r.next))
Branches(d, i, acc) ==
  Then(Block(d, UntilBrace(d, i)), LAMBDA r : Else(d, SkipBlank(d, r.next), r.next, Append(acc, r.nodes)))

Cases(d, i, acc) ==
  LET j == SkipBlank(d, i)
      after(s) == IF Kind(d, s) = ";" THEN s + 1 ELSE s
  IN  IF Kind(d, j) = "}" THEN Parsed(acc, j + 1)
      ELSE Then(Expected(d, j, "case"), LAMBDA c :
             Then(Block(d, UntilBrace(d, c.next)), LAMBDA r :
               Cases(d, after(SkipBlank(d, r.next)), Append(acc, r.nodes))))

\* One node at the cursor.  A directive of the file inside an element is an
\* expression, as any other name after an @ is.
ParseNode(d, i) ==
  CASE Kind(d, i) \in {"open", "close"} -> ParseTag(d, i)
    [] IsAt(d, i, "if") -> ParseIf(d, i)
    [] IsAt(d, i, "for") -> ParseFor(d, i)
    [] IsAt(d, i, "switch") -> ParseSwitch(d, i)
    [] IsAt(d, i, "slot") \/ IsAt(d, i, "section") -> Placeholder(d, i)
    [] Kind(d, i) = "at" /\ d[i].name \in {"yield", "head", "effect", "animate"} -> Parsed(<<Leaf(d[i].name, i)>>, i + 1)
    [] Kind(d, i) = "raw" -> Parsed(<<Leaf("raw", i)>>, i + 1)
    [] OTHER -> Parsed(<<Leaf("expr", i)>>, i + 1)

ParseNodes(d, i, stop, acc) ==
  IF Stops(d, i, stop) THEN Parsed(acc, i)
  ELSE IF Kind(d, i) \notin {"open", "close", "at", "expr", "raw"}
  THEN ParseNodes(d, i + 1, stop, WithText(acc, i))
  ELSE Then(ParseNode(d, i), LAMBDA r : ParseNodes(d, r.next, stop, acc \o r.nodes))

(* ------------------------- @code blocks ------------------------- *)

\* The token after a statement: the ";" at depth 0, or the end of the block.
RECURSIVE Statement(_, _, _, _)
Statement(d, i, end, depth) ==
  CASE i >= end -> end
    [] Kind(d, i) = ";" /\ depth = 0 -> i + 1
    [] Kind(d, i) = "{" -> Statement(d, i + 1, end, depth + 1)
    [] Kind(d, i) = "}" -> Statement(d, i + 1, end, depth - 1)
    [] OTHER -> Statement(d, i + 1, end, depth)

\* The token after a function: its body, read to the matching brace, and a ";".
Function(d, i, end) ==
  LET b == UntilBrace(d, i)
      e == BlockEnd(d, b + 1, 1)
      n == IF b >= end \/ e = 0 THEN end ELSE e + 1
  IN  IF Kind(d, SkipBlank(d, n)) = ";" /\ SkipBlank(d, n) < end THEN SkipBlank(d, n) + 1 ELSE n

\* The declarations of a @code block, with their spans.
RECURSIVE ScanCode(_, _, _, _)
ScanCode(d, i, end, acc) ==
  LET stable == Kind(d, i) = "stable" /\ Kind(d, SkipBlank(d, i + 1)) = "var"
      n == IF Kind(d, i) = "func" THEN Function(d, i + 1, end) ELSE Statement(d, i + 1, end, 0)
      what == CASE Kind(d, i) \in {"var", "func", "param"} -> Kind(d, i)
                [] stable -> "var"
                [] OTHER -> "extra"
  IN  CASE i >= end -> acc
        [] Kind(d, i) \in {"blank", "quoted", "comment", "mention", ";", "{", "}"} -> ScanCode(d, i + 1, end, acc)
        [] OTHER -> ScanCode(d, n, end, Append(acc, [what |-> what, at |-> i, to |-> n - 1]))

(* ------------------------- The file ------------------------- *)

EmptyFile ==
  [template |-> <<>>, sections |-> <<>>, code |-> <<>>, directives |-> {}, err |-> "", errAt |-> 0]

\* @section "name" { ... }
Section(d, i) == Then(Placeholder(d, i), LAMBDA q : Block(d, q.next))

\* @theme with its optional preset and block; @style and @code need the block.
BraceBlock(d, i) ==
  Then(Expected(d, i, "{"), LAMBDA b :
    IF BlockEnd(d, b.next, 1) = 0 THEN Failed(Len(d) + 1, "unterminated")
    ELSE Parsed(<<>>, BlockEnd(d, b.next, 1) + 1))
AfterTheme(d, i) ==
  LET q == SkipBlank(d, i + 1)
      b == SkipBlank(d, IF Kind(d, q) = "quoted" THEN q + 1 ELSE q)
  IN  IF Kind(d, b) # "{" THEN Parsed(<<>>, b) ELSE BraceBlock(d, b)

\* A @code block replaces what was declared before it.
CodeBlock(d, i, file) ==
  LET b == SkipBlank(d, i + 1)
  IN  [file EXCEPT !.code = ScanCode(d, b + 1, BlockEnd(d, b + 1, 1), <<>>), !.directives = @ \cup {"code"}]

RECURSIVE ParseFile(_, _, _)
\* The construct at the cursor, and what it adds to the file.
Construct(d, i, name) ==
  CASE name \in LineDirectives \cup {"cacheable"} -> Parsed(<<>>, i + 1)
    [] name \in {"code", "style"} -> BraceBlock(d, i + 1)
    [] name = "theme" -> AfterTheme(d, i)
    [] name = "section" /\ HasBody(d, i) -> Section(d, i)
    [] Kind(d, i) = "param" -> Parsed(<<>>, i + 1)
    [] OTHER -> ParseNodes(d, i, "top", <<>>)
Adding(d, i, name, file, nodes) ==
  CASE name \in LineDirectives \cup {"cacheable", "theme", "style"} -> [file EXCEPT !.directives = @ \cup {name}]
    [] name = "code" -> CodeBlock(d, i, file)
    [] name = "section" /\ HasBody(d, i) ->
         [file EXCEPT !.sections = Append(@, [name |-> d[SkipBlank(d, i + 1)].name, nodes |-> nodes])]
    [] Kind(d, i) = "param" -> [file EXCEPT !.code = Append(@, [what |-> "param", at |-> i, to |-> i])]
    [] OTHER -> [file EXCEPT !.template = @ \o nodes]
Constructed(d, i, name, file, r) ==
  IF r.err # "" THEN [file EXCEPT !.err = r.err, !.errAt = r.next]
  ELSE ParseFile(d, r.next, Adding(d, i, name, file, r.nodes))
ConstructAt(d, i, name, file) ==
  IF Kind(d, i) = "eof" THEN file ELSE Constructed(d, i, name, file, Construct(d, i, name))
ParseFile(d, start, file) ==
  LET i == SkipBlank(d, start) IN ConstructAt(d, i, IF Kind(d, i) = "at" THEN d[i].name ELSE "", file)

Parse(d) == ParseFile(d, 1, EmptyFile)

\* The functions the @code block declares.
Declared(d, file) == {d[c.at].name : c \in {x \in {file.code[k] : k \in DOMAIN file.code} : x.what = "func"}}
=============================================================================
