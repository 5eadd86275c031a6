----------------------------- MODULE MviewPages -----------------------------
(***************************************************************************)
(* What a page that compiles promises at run time, whatever its text: said *)
(* of every text a language server comes to hold.  The walks that collect  *)
(* handlers, bindings and secure handlers, the lines that render the page  *)
(* and the map of those lines to the source are written one by one         *)
(* (src/compiler/src/codegen.rs, lint.rs, project.rs); these properties    *)
(* relate them.                                                            *)
(***************************************************************************)
EXTENDS LanguageServer, LspAnswers, DesignerEdits

\* Texts that parse, when nothing is under way.
Texts == IF Quiet THEN {t \in {server.docs[u] : u \in DOMAIN server.docs} : Parse(t).err = ""} ELSE {}
MarkupOf(file) == ToSet(Emitted(RenderPage(file).lines))
CallsNoAppComponent(file) ==
  \A n \in NodesOf(file.template, "all") : n.node = "component" => n.tag.name \notin DOMAIN AppComponents

-----------------------------------------------------------------------------
\* An event the page's markup names, of a function the page declares, has a case
\* in the page's dispatch: the walk that collects handlers finds every element
\* that is rendered, in branches, cases, children and slots.
HandlersDispatch ==
  \A t \in Texts :
    LET file == Parse(t)
        named == {l.name : l \in {m \in MarkupOf(file) : m.emit = "event"}}
    IN  (named \cap Declared(t, file)) \ {"onLoad"} \subseteq DispatchCases(file, Declared(t, file))

\* What a user types into a bound field is read back under the name the field
\* submits, in a page that calls no application component.
BoundFieldsRead ==
  \A t \in Texts :
    LET file == Parse(t)
    IN  CallsNoAppComponent(file) =>
          \A l \in MarkupOf(file) : (l.emit = "field" /\ l.event # "") => <<l.event, l.name>> \in Binds(file)

\* The token of a form is minted for every field the form submits, where the form
\* has no @switch and no slots in it.
FieldsSigned ==
  \A t \in Texts :
    \A form \in {n \in NodesOf(Parse(t).template, "all") : IsSubmitForm(n) /\ n.tag.secure /\ n.bodies # <<>>} :
      (\A n \in NodesOf(form.bodies[1], "all") : n.node # "switch" /\ n.names = <<>>) =>
        {l.name : l \in {m \in ToSet(GenNodes(form.bodies[1], FALSE).lines) : m.emit = "field"}} \subseteq Schema(form)

\* What a rendered page lets a user do reaches the page's code: the walks that
\* collect its handlers, its fields and the fields of its forms miss nothing the
\* renderer writes (walk_handlers, walk_binds, collect_input_names, gen_node).
InputsWired == HandlersDispatch /\ BoundFieldsRead /\ FieldsSigned

\* A page without lint errors writes a token for the handler of every form that
\* submits, and its record demands one: a form is never let through unguarded,
\* and never locked out by a demand its markup cannot meet.
SubmitsCarryToken ==
  \A t \in Texts :
    LET file == Parse(t)
        submits == {l \in MarkupOf(file) : l.emit = "event" /\ l.event = "submit" /\ t[l.at].name = "form"}
    IN  ~LintError(LintFile(file)) =>
          \A l \in submits :
            /\ l.name \in SecureHandlers(file)
            /\ \E m \in MarkupOf(file) : m.emit = "token" /\ m.at = l.at /\ m.name = l.name

\* A generated line that is anchored was written for the directive it is anchored
\* to, in a page that has no directive inside the call of an application component:
\* an error of moc is shown where it is (map_template_exprs).
DirectiveInCall(file) ==
  \E call \in {n \in NodesOf(file.template, "all") : n.node = "component" /\ n.tag.name \in DOMAIN AppComponents} :
    \E b \in ToSet(call.bodies) : \E n \in NodesOf(b, "all") : n.node \in {"expr", "raw"}
AnchorsTrue ==
  \A t \in Texts :
    LET file == Parse(t)
    IN  ~DirectiveInCall(file) => \A a \in ToSet(TemplateAnchors(RenderPage(file))) : a.line.at = a.anchor

-----------------------------------------------------------------------------
\* The tree of a page, each node with its token, and a snippet's nodes where a
\* drop puts them: first in the element, or after one that takes no children.
RECURSIVE Grown(_, _, _, _)
Grown(nodes, text, at, snippet) ==
  FlattenSeq([k \in 1..Len(nodes) |->
    LET n == nodes[k]
        bodies == [b \in 1..Len(n.bodies) |-> Grown(n.bodies[b], text, at, snippet)]
        node(below) == [node |-> n.node, token |-> text[n.at], names |-> n.names, bodies |-> below]
    IN  CASE n.at # at -> <<node(bodies)>>
          [] n.at = at /\ bodies = <<>> -> <<node(bodies)>> \o snippet
          [] OTHER -> <<node([bodies EXCEPT ![1] = snippet \o @])>>])
Tree(nodes, text) == Grown(nodes, text, 0, <<>>)
SnippetTree(kind) == Tree(ParseNodes(kind.snippet, 1, "end", <<>>).nodes, kind.snippet)

\* What a page has besides its template, the function of this name apart.
Besides(text, file, handler) ==
  [directives |-> file.directives,
   sections |-> [k \in DOMAIN file.sections |-> <<file.sections[k].name, Tree(file.sections[k].nodes, text)>>],
   code |-> SelectSeq([k \in DOMAIN file.code |-> <<file.code[k].what, text[file.code[k].at]>>],
                      LAMBDA c : c # <<"func", Func(handler)>>)]

\* The native elements of the preview, a <style> or a <script> apart.
DropTargets(text, file) ==
  {a \in ToSet(SourceMap(file)) : text[a].kind = "open" /\ text[a].name \notin RawTextTags}

\* What scaffold_handler takes for granted of a page: the one place that spells
\* "@code" is its block, braces are not in strings or comments, its declarations
\* are complete, and a function of the handler's name is one of them.
Complete(text, c) ==
  LET braces(kind) == Cardinality({i \in c.at..c.to : text[i].kind = kind})
  IN  /\ braces("{") = braces("}")
      /\ text[c.to].kind = ";" \/ (c.what = "func" /\ text[c.to].kind = "}")
      /\ c.what = "func" => braces("{") > 0
PlainCode(text, file, handler) ==
  /\ Cardinality({i \in DOMAIN text : SpellsCode(text[i])}) <= (IF "code" \in file.directives THEN 1 ELSE 0)
  /\ \A i \in DOMAIN text : ~HidesBrace(text[i]) /\ (text[i] = Func(handler) => handler \in Declared(text, file))
  /\ \A c \in ToSet(file.code) : Complete(text, c)

\* Dropping a component of the toolbox into a native element of the preview gives
\* a text that parses, to the tree it was with the component's own tree added
\* there, the same sections and the same declarations; a form's handler is
\* declared with them when the page has a @code block.  A form is dropped into a
\* page with plain code (splice_component, scaffold_handler).
InsertIsLocal ==
  \A t \in Texts :
    LET file == Parse(t)
    IN  \A at \in DropTargets(t, file), kind \in Toolbox :
          (kind.handler # "" => PlainCode(t, file, kind.handler)) =>
            LET now == SpliceComponent(t, at, kind)
                after == Parse(now)
            IN  /\ after.err = ""
                /\ Tree(after.template, now) = Grown(file.template, t, at, SnippetTree(kind))
                /\ Besides(now, after, kind.handler) = Besides(t, file, kind.handler)
                /\ kind.handler # "" /\ "code" \in file.directives => kind.handler \in Declared(now, after)
=============================================================================
