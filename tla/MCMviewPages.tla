---------------------------- MODULE MCMviewPages ----------------------------
(***************************************************************************)
(* Desks for the page properties.  Each fixes a few words and a frame they *)
(* are typed into, so that the constructs a property relates meet: forms   *)
(* in branches, slots of a called component, code and the handlers it      *)
(* declares, the protocol itself.                                          *)
(***************************************************************************)
EXTENDS MviewPages

MCUris == {"page"}

\* One application component: a box with its children and a slot.
MCAppComponents == [Panel |-> DeclaredSlots(Parse(<<OpenTag("div"), At("slot"), Quoted("side"), CloseTag("div")>>))]

Tag(name) == [OpenTag(name) EXCEPT !.component = FALSE]
Component(name) == [OpenTag(name) EXCEPT !.component = TRUE]
Handling(tag, event, handler) == [tag EXCEPT !.events = Append(@, [event |-> event, handler |-> handler])]
Form == Handling(Tag("form"), "submit", "save")
GuardedForm == [Form EXCEPT !.secure = TRUE]
Bound(tag, v) == [tag EXCEPT !.bind = v]
WithField(tag, f) == [tag EXCEPT !.field = f]
Closed(tag) == [tag EXCEPT !.closed = TRUE]
End == CloseTag("x")

Code == <<At("code"), Token("{"), Func("save"), Token("{"), Token("}"), Func("go"), Token("{"), Token("}"), Token("}")>>
Desk(before, after, words, most) ==
  [before |-> before, after |-> after, words |-> words, most |-> most, pipe |-> 1, also |-> {}]

\* Forms, branches and insecure forms, with the fix.
Forms ==
  [Desk(Code, <<>>, {Form, GuardedForm, End, At("if"), Token("{"), Token("}"), Bound(Tag("input"), "v"), Closed(WithField(Component("Checkbox"), "f"))}, 4)
     EXCEPT !.also = {"codeAction"}]

\* A branch, a loop or a case around what is typed.
Nested ==
  Desk(Code \o <<At("switch"), Token("blank"), Token("{"), Token("case"), Token("{")>>, <<Token("}"), Token("}")>>,
       {Handling(Tag("button"), "click", "go"), End, Bound(Tag("input"), "v"), Expr(FALSE), Token("text")}, 4)

\* Slots and children of an application component and of built-in ones.
Calls ==
  Desk(Code, <<>>,
       {Component("Panel"), At("slot"), Quoted("side"), Token("{"), Token("}"), End, Form}, 5)

\* Inside the slot a called component declares.
Slotted ==
  Desk(Code \o <<Component("Panel"), At("slot"), Quoted("side"), Token("{")>>, <<Token("}"), End>>,
       {Form, GuardedForm, End, At("for"), Token("{"), Token("}"), Component("Panel")}, 4)

\* Components that carry fields and text.
Fields ==
  Desk(Code, <<>>,
       {WithField(Bound(Component("InputText"), "v"), "f"), Handling(Component("Button"), "click", "go"), Closed(Bound(Component("TextArea"), "v")), Closed([Component("Card") EXCEPT !.titled = TRUE]),
        Expr(TRUE), Token("raw"), Bound(Closed(Component("Checkbox")), "v"), End, [Tag("a") EXCEPT !.mixed = TRUE]}, 4)

\* Directives in and around called components, charts and titles.
Anchored ==
  Desk(<<>>, <<>>, {Component("Panel"), Closed(Component("Panel")), Closed(Component("BarChart")), Expr(FALSE), Token("raw"), At("yield"), End}, 4)

\* One of each family of built-in components, around an input or a directive.
Family(name) == [Component(name) EXCEPT !.titled = TRUE, !.field = "f"]
Families ==
  Desk(Code, <<Bound(Tag("input"), "v"), Expr(TRUE), End>>,
       {Handling(Family(c), "click", "go") : c \in
          {"CompoundButton", "SplitButton", "ToggleButton", "MenuButton", "Persona", "Avatar", "Nav", "Tab", "Switch", "Spinner",
           "Link", "Select", "Combobox", "Searchbox", "Image", "Tooltip", "Popover", "Dialog", "Field", "Slider",
           "CounterBadge", "Title1", "CardHeader", "CardPreview", "TreeItem", "Carousel", "InteractionTag", "MenuItemRadio",
           "TagGroup", "ToolbarDivider", "ValidationSummary", "Sparkline"}}
       \cup {[Family("CounterBadge") EXCEPT !.hidden = TRUE], [Tag("li") EXCEPT !.drop = "go"]}, 2)

\* What a file is made of besides its template.
Files ==
  Desk(<<>>, <<>>,
       {At("code"), Token("{"), Token("}"), Func("go"), At("section"), Quoted("side"), Tag("style"), CloseTag("style"), Token("blank")}, 4)

\* A block of code after an element, as it is typed, with what hides braces in it
\* and mentions of the directive.
Coded ==
  Desk(<<Tag("p"), End, At("code"), Token("{")>>, <<Token("}")>>,
       {Func("go"), Func("onSubmit"), Token("{"), Token("}"), Token(";"), Token("var"), Quoted("}"), Comment("{"), Mention}, 4)

\* Elements before the block of code, and between them what spells the directive.
Mentioned ==
  Desk(<<Tag("p"), End>>, Code, {Tag("p"), Closed(Tag("img")), End, Mention, At("codeName"), Token("{"), Token("}")}, 3)

\* The protocol: every message, two in each pipe.
Protocol ==
  [Desk(<<>>, <<Form>>, {Form, End}, 2)
     EXCEPT !.pipe = 2, !.also = {"erase", "close", "codeAction", "completion", "unknownRequest", "unknownNotification", "malformed", "quit"}]

MCDesks == {Forms, Nested, Calls, Slotted, Fields, Anchored, Families, Files, Coded, Mentioned, Protocol}
=============================================================================
