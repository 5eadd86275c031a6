---------------------------- MODULE MviewCodegen ---------------------------
(***************************************************************************)
(* What the compiler makes of a parsed file: the lint                      *)
(* (src/compiler/src/lint.rs), the lines of Motoko that render it and the  *)
(* cases that dispatch its events (codegen.rs), and the map from generated *)
(* lines to the source (project.rs).                                       *)
(*                                                                         *)
(* A generated line is kept as what the compiler and the browser tell      *)
(* apart: a literal chunk of markup, a line that computes text, an event   *)
(* marker, a form field, a token, a call of an application component.      *)
(***************************************************************************)
EXTENDS MviewParser, FiniteSets, SequencesExt, FiniteSetsExt

CONSTANTS
  AppComponents  \* name of an application component -> the slots it declares

-----------------------------------------------------------------------------
(* Walks over the tree.  They differ in the bodies they enter.             *)

\* The bindings and the form schema of a component are looked for in its
\* children, not in its slots; the schema is not looked for under @switch.
EnteredChildrenOnly(n, walk) ==  \* mutant: no walk looks into slots
  IF n.node = "component" /\ n.bodies # <<>> THEN <<n.bodies[1]>> ELSE n.bodies
Entered(n, walk) ==
  CASE n.node = "component" /\ walk \in {"binds", "schema", "slots"} /\ n.bodies # <<>> -> <<n.bodies[1]>>
    [] n.node = "switch" /\ walk = "schema" -> <<>>
    [] OTHER -> n.bodies

RECURSIVE Walk(_, _)
Walk(nodes, walk) ==
  FlattenSeq([k \in 1..Len(nodes) |->
    <<nodes[k]>> \o FlattenSeq([b \in 1..Len(Entered(nodes[k], walk)) |-> Walk(Entered(nodes[k], walk)[b], walk)])])

NodesOf(nodes, walk) == ToSet(Walk(nodes, walk))
IsTagged(n) == n.node \in {"element", "component"}
EventsOf(n) == ToSet(n.tag.events)
IsSubmitForm(n) == n.node = "element" /\ n.tag.name = "form" /\ \E e \in EventsOf(n) : e.event = "submit"

\* collect_slot_names
DeclaredSlots(file) == {n.names[1] : n \in {m \in NodesOf(file.template, "slots") : m.node = "slot"}}

\* Every function an event of the template names.
Handlers(file) ==
  UNION {{e.handler : e \in EventsOf(n)} : n \in {m \in NodesOf(file.template, "all") : IsTagged(m)}}
  \cup ({n.tag.drop : n \in {m \in NodesOf(file.template, "all") : m.node = "element"}} \ {""})

\* The ones named on a secure element: the server demands a token for them.
SecureHandlers(file) ==
  UNION {{e.handler : e \in EventsOf(n)} :
          n \in {m \in NodesOf(file.template, "all") : m.node = "element" /\ m.tag.secure}}

\* The variables the dispatch fills from the submitted form, with the field it
\* reads: an element's field has the variable's name, a component's its name=.
Binds(file) ==
  {<<n.tag.bind, IF n.node = "component" /\ n.tag.field # "" THEN n.tag.field ELSE n.tag.bind>> :
     n \in {m \in NodesOf(file.template, "binds") : IsTagged(m) /\ m.tag.bind # ""}}

\* The fields a secure form's token is minted for.
FieldName(n) ==
  IF n.node = "element" THEN (IF n.tag.bind # "" THEN n.tag.bind ELSE n.tag.field)
  ELSE IF n.tag.field # "" THEN n.tag.field ELSE n.tag.bind
Schema(form) ==
  {FieldName(n) : n \in {m \in NodesOf(Entered(form, "schema")[1], "schema") : IsTagged(m)}} \ {""}

\* The functions a dispatch has a case for; mvOnLoad calls onLoad itself.
DispatchCases(file, declared) == (Handlers(file) \cap declared) \ {"onLoad"}

-----------------------------------------------------------------------------
(* The lint.                                                               *)

Finding(rule, severity, at) == [rule |-> rule, severity |-> severity, at |-> at]

LintChildren(nodes) ==  \* mutant: the lint does not look into slots
  {Finding("secure-form", "error", n.at) : n \in {m \in NodesOf(nodes, "binds") : IsSubmitForm(m) /\ ~m.tag.secure}}
LintNodes(nodes) ==
  {Finding("raw-html", "warning", n.at) : n \in {m \in NodesOf(nodes, "all") : m.node = "raw"}}
  \cup {Finding("secure-form", "error", n.at) :
          n \in {m \in NodesOf(nodes, "all") : IsSubmitForm(m) /\ ~m.tag.secure}}

LintFile(file) ==
  LintNodes(file.template) \cup UNION {LintNodes(s.nodes) : s \in ToSet(file.sections)}
  \cup {Finding("cacheable-authorize", "warning", 0) :
          x \in {y \in {0} : {"cacheable", "authorize"} \subseteq file.directives}}

LintError(findings) == \E f \in findings : f.severity = "error"

-----------------------------------------------------------------------------
(* Rendering.  A walk yields the lines and the spans that were recorded    *)
(* for the lines that compute text.                                        *)

Line(emit, at) == [emit |-> emit, at |-> at, name |-> "", event |-> "", inside |-> <<>>]
Markup(at) == Line("markup", at)           \* b.raw("...")
Computed(at) == Line("computed", at)       \* b.text(e), b.raw(e)
Silent(at) == Line("silent", at)           \* b.attr(...), a line of control
Opening(at) == Line("open", at)            \* b.open("..."), an element begins
Out(lines, spans) == [lines |-> lines, spans |-> spans]
Both(a, b) == Out(a.lines \o b.lines, a.spans \o b.spans)
Lines(lines) == Out(lines, <<>>)

EventLines(n) ==
  [k \in 1..Len(n.tag.events) |->
     [Line("event", n.at) EXCEPT !.name = n.tag.events[k].handler, !.event = n.tag.events[k].event]]

FieldLine(n, name) == <<[Line("field", n.at) EXCEPT !.name = name, !.event = n.tag.bind]>>

\* An attribute made of text and expressions is written piece by piece.
MixedLines(n) == IF n.tag.mixed THEN <<Markup(n.at), Computed(n.at), Markup(n.at)>> ELSE <<>>

\* A prop shown as text is written with b.text whether it is a literal or not.
Titles(n) == IF n.tag.titled THEN <<Markup(n.at), Computed(n.at), Markup(n.at)>> ELSE <<>>

RECURSIVE GenNodes(_, _), GenNode(_, _)

\* An element: its attributes, its bound field, its events (a secure form's
\* submit with its token) and its children.
OpenLines(n) ==
  <<Opening(n.at)>> \o MixedLines(n)
    \o (IF n.tag.drop # "" THEN <<[Line("event", n.at) EXCEPT !.name = n.tag.drop, !.event = "drop"]>> ELSE <<>>)
    \o (IF n.tag.bind # "" THEN FieldLine(n, n.tag.bind) \o <<Silent(n.at)>>
        ELSE IF n.tag.field # "" THEN FieldLine(n, n.tag.field) ELSE <<>>)
    \o EventLines(n)
    \o (IF n.tag.secure THEN [k \in 1..Len(SelectSeq(n.tag.events, LAMBDA e : e.event = "submit")) |->
          [Line("token", n.at) EXCEPT !.name = SelectSeq(n.tag.events, LAMBDA e : e.event = "submit")[k].handler]]
        ELSE <<>>)
    \o <<Markup(n.at)>>

Children(n, inComponent) == IF n.bodies = <<>> THEN Out(<<>>, <<>>) ELSE GenNodes(n.bodies[1], inComponent)

GenElement(n, inComponent) ==
  Both(Both(Lines(OpenLines(n)), Children(n, inComponent)), Lines(IF n.tag.closed THEN <<>> ELSE <<Markup(n.at)>>))

(* The built-in components, family by family: the lines before and after   *)
(* the children, and which have no children.  Only buttons pass their      *)
(* events on, and only the inputs of InputTags know bind=.                 *)

Around(n, before, inComponent, after) ==
  Both(Both(Lines(<<Markup(n.at)>> \o before), Children(n, inComponent)), Lines(after \o <<Markup(n.at)>>))
Box(n, inComponent) == Around(n, <<>>, inComponent, <<>>)
Headed(n, inComponent) == Around(n, Titles(n), inComponent, <<>>)
Empty(n) == Lines(<<Markup(n.at)>>)
Caption(n) == Lines(<<Markup(n.at)>> \o Titles(n))
Named(n) == IF n.tag.field # "" THEN <<[Line("field", n.at) EXCEPT !.name = n.tag.field]>> ELSE <<>>

ButtonTags == {"Button", "CompoundButton"}
GenButton(n, inComponent) ==
  Around(n, EventLines(n), inComponent, IF n.tag.name = "CompoundButton" THEN Titles(n) ELSE <<>>)

ButtonMenuTags == {"ToggleButton", "MenuButton", "SplitButton"}
GenButtonMenu(n, inComponent) ==
  CASE n.tag.name = "ToggleButton" -> Around(n, Named(n), inComponent, <<>>)
    [] n.tag.name = "MenuButton" -> Headed(n, inComponent)
    [] n.tag.name = "SplitButton" -> Around(n, EventLines(n) \o Titles(n), inComponent, <<>>)

SurfaceTags == {"Card", "Alert", "Badge", "PageHeader", "Table", "Grid"}
GenSurface(n, inComponent) ==
  IF n.tag.name \in {"Card", "Badge", "PageHeader"} THEN Headed(n, inComponent) ELSE Box(n, inComponent)

GenValidationSummary(n) == Lines(<<Silent(n.at), Markup(n.at), Silent(n.at)>>)

\* A bound input shows the variable; a text area shows it as its content.  Then
\* the errors of the field are looked for.
InputTags == {"InputText", "InputEmail", "InputNumber", "TextArea"}
GenInput(n) ==
  Lines(FieldLine(n, IF n.tag.field # "" THEN n.tag.field ELSE n.tag.bind)
        \o (IF n.tag.bind = "" THEN <<>> ELSE IF n.tag.name = "TextArea" THEN <<Computed(n.at)>> ELSE <<Silent(n.at)>>)
        \o <<Markup(n.at), Silent(n.at), Markup(n.at)>>)

PersonTags == {"Avatar", "Persona"}
GenPerson(n, inComponent) == IF n.tag.name = "Persona" THEN Caption(n) ELSE Headed(n, inComponent)

\* A NavItem or a Tab is marked when the path matches.
NavigationTags == {"Nav", "AppBar", "TabList", "NavItem", "Tab", "Menu", "MenuItem"}
GenNavigation(n, inComponent) ==
  CASE n.tag.name \in {"Nav", "AppBar", "TabList"} -> Box(n, inComponent)
    [] n.tag.name \in {"NavItem", "Tab"} -> Around(n, <<Silent(n.at)>> \o Titles(n), inComponent, <<>>)
    [] OTHER -> Headed(n, inComponent)

GenSwitch(n, inComponent) == Around(n, Named(n) \o Titles(n), inComponent, <<>>)

FeedbackTags == {"Divider", "Spinner", "ThemeToggle", "ThemePicker", "MessageBar", "Text", "Link"}
GenFeedback(n, inComponent) ==
  CASE n.tag.name \in {"ThemeToggle", "ThemePicker"} -> Empty(n)
    [] n.tag.name = "Spinner" -> Caption(n)
    [] n.tag.name = "Link" -> Headed(n, inComponent)
    [] OTHER -> Box(n, inComponent)

ChoiceTags == {"Checkbox", "Radio", "Select", "Searchbox", "Combobox"}
GenChoice(n, inComponent) ==
  CASE n.tag.name = "Searchbox" -> Lines(Named(n))
    [] n.tag.name = "Combobox" -> Lines(Titles(n) \o Named(n))
    [] n.tag.name = "Select" -> Around(n, Titles(n) \o Named(n), inComponent, <<>>)
    [] OTHER -> Around(n, Named(n) \o Titles(n), inComponent, <<>>)

DisplayTags == {"Tag", "AvatarGroup", "ProgressBar", "Skeleton", "Rating", "Image"}
GenDisplay(n, inComponent) ==
  CASE n.tag.name = "Tag" -> Headed(n, inComponent)
    [] n.tag.name = "AvatarGroup" -> Box(n, inComponent)
    [] n.tag.name = "Image" -> Caption(n)
    [] OTHER -> Empty(n)

DisclosureTags == {"Breadcrumb", "BreadcrumbItem", "Accordion", "AccordionItem", "Popover", "Tooltip"}
GenDisclosure(n, inComponent) ==
  CASE n.tag.name \in {"Breadcrumb", "Accordion"} -> Box(n, inComponent)
    [] n.tag.name = "Tooltip" -> Around(n, <<>>, inComponent, Titles(n))
    [] OTHER -> Headed(n, inComponent)

GenDialog(n, inComponent) == Headed(n, inComponent)

LabelTags == {"Field", "Label", "InfoLabel"}
GenLabel(n, inComponent) ==
  IF n.tag.name = "Label" THEN Headed(n, inComponent) ELSE Around(n, Titles(n), inComponent, Titles(n))

ValueTags == {"SpinButton", "Slider", "Input"}
GenValue(n) == Lines(<<Markup(n.at)>> \o Named(n) \o Titles(n))

\* A counter that is a dot shows no children, one that stands at a literal zero
\* nothing at all.
CounterTags == {"CounterBadge", "PresenceBadge"}
GenCounter(n, inComponent) ==
  IF n.tag.name = "PresenceBadge" \/ n.tag.hidden THEN Empty(n) ELSE Headed(n, inComponent)

TypographyTags ==
  {"Title1", "Title2", "Title3", "Subtitle1", "Subtitle2", "Body1", "Body2", "Caption1", "Caption2", "Display", "LargeTitle"}

CardPartTags == {"CardHeader", "CardPreview", "CardFooter"}
GenCardPart(n, inComponent) ==
  CASE n.tag.name = "CardHeader" -> Around(n, <<>>, inComponent, Titles(n))
    [] n.tag.name = "CardPreview" -> Headed(n, inComponent)
    [] n.tag.name = "CardFooter" -> Box(n, inComponent)

TreeTags == {"Tree", "TreeItem", "Toolbar", "ToolbarGroup", "ToolbarDivider"}
GenTree(n, inComponent) ==
  CASE n.tag.name = "TreeItem" -> Headed(n, inComponent)
    [] n.tag.name = "ToolbarDivider" -> Empty(n)
    [] OTHER -> Box(n, inComponent)

\* Each child is a slide.
GenCarousel(n, inComponent) ==
  FoldLeft(LAMBDA acc, c : Both(acc, Both(Empty(n), GenNode(c, inComponent))), Empty(n),
           IF n.bodies = <<>> THEN <<>> ELSE n.bodies[1])

GroupTags == {"TagGroup", "InteractionTag", "MenuItemCheckbox", "MenuItemRadio"}
GenGroup(n, inComponent) ==
  CASE n.tag.name = "TagGroup" -> Box(n, inComponent)
    [] n.tag.name = "InteractionTag" -> Around(n, EventLines(n), inComponent, <<>>)
    [] OTHER -> Around(n, Named(n), inComponent, <<>>)

\* A chart is one call with its props as arguments.
RadialChartTags == {"PieChart", "DonutChart", "SemiDonutChart", "GaugeChart", "RadarChart", "RadialBarChart"}
AxisChartTags ==
  {"BarChart", "ColumnChart", "GroupedColumnChart", "StackedColumnChart", "ScatterChart", "BubbleChart", "LineChart",
   "SplineChart", "StepLineChart", "AreaChart", "StackedAreaChart", "Sparkline", "LollipopChart", "BulletChart",
   "DotPlot", "DumbbellChart", "RangePlot", "SlopeChart", "DivergingBarChart", "WaterfallChart"}
SpreadChartTags ==
  {"PictogramChart", "WaffleChart", "TreemapChart", "FunnelChart", "PyramidChart", "MarimekkoChart",
   "PopulationPyramid", "SunburstChart", "Histogram", "BoxPlot", "ViolinPlot", "StripPlot", "BeeswarmChart",
   "DensityPlot", "RidgelinePlot", "CandlestickChart", "OHLCChart", "GanttChart"}
FlowChartTags ==
  {"StreamGraph", "BumpChart", "BarcodeChart", "Heatmap", "HexbinChart", "ConnectedScatterChart", "QuadrantChart",
   "SankeyDiagram", "ChordDiagram", "ArcDiagram", "Dendrogram", "VennDiagram"}
PolarChartTags ==
  {"NightingaleChart", "RadialHistogram", "ParallelCoordinates", "SmallMultiples", "CircularTreemap", "HorizonChart",
   "BumpAreaChart", "WordCloud", "MatrixChart", "TableChart"}
ChartTags == RadialChartTags \cup AxisChartTags \cup SpreadChartTags \cup FlowChartTags \cup PolarChartTags
GenChart(n) == Lines(<<Computed(n.at)>>)

BuiltIns ==
  ButtonTags \cup ButtonMenuTags \cup SurfaceTags \cup InputTags \cup PersonTags \cup NavigationTags \cup FeedbackTags
  \cup ChoiceTags \cup DisplayTags \cup DisclosureTags \cup LabelTags \cup ValueTags \cup CounterTags
  \cup TypographyTags \cup CardPartTags \cup TreeTags \cup GroupTags \cup ChartTags
  \cup {"ValidationSummary", "Switch", "Dialog", "Drawer", "Carousel"}

GenBuiltIn(n, inComponent) ==
  CASE n.tag.name \in ButtonTags -> GenButton(n, inComponent)
    [] n.tag.name \in ButtonMenuTags -> GenButtonMenu(n, inComponent)
    [] n.tag.name \in SurfaceTags -> GenSurface(n, inComponent)
    [] n.tag.name = "ValidationSummary" -> GenValidationSummary(n)
    [] n.tag.name \in InputTags -> GenInput(n)
    [] n.tag.name \in PersonTags -> GenPerson(n, inComponent)
    [] n.tag.name \in NavigationTags -> GenNavigation(n, inComponent)
    [] n.tag.name = "Switch" -> GenSwitch(n, inComponent)
    [] n.tag.name \in FeedbackTags -> GenFeedback(n, inComponent)
    [] n.tag.name \in ChoiceTags -> GenChoice(n, inComponent)
    [] n.tag.name \in DisplayTags -> GenDisplay(n, inComponent)
    [] n.tag.name \in DisclosureTags -> GenDisclosure(n, inComponent)
    [] n.tag.name \in {"Dialog", "Drawer"} -> GenDialog(n, inComponent)
    [] n.tag.name \in LabelTags -> GenLabel(n, inComponent)
    [] n.tag.name \in ValueTags -> GenValue(n)
    [] n.tag.name \in CounterTags -> GenCounter(n, inComponent)
    [] n.tag.name \in TypographyTags -> Box(n, inComponent)
    [] n.tag.name \in CardPartTags -> GenCardPart(n, inComponent)
    [] n.tag.name \in TreeTags -> GenTree(n, inComponent)
    [] n.tag.name = "Carousel" -> GenCarousel(n, inComponent)
    [] n.tag.name \in GroupTags -> GenGroup(n, inComponent)
    [] n.tag.name \in ChartTags -> GenChart(n)

\* A call of an application component is one line; what it passes, its children
\* and the slots the component declares, is written inside it.
GenCall(n, inComponent) ==
  LET declared == SetToSeq(AppComponents[n.tag.name])
      given(s) == SelectInSeq(n.names, LAMBDA x : x = s)
      args == [k \in 1..Len(declared) |->
                 IF given(declared[k]) = 0 THEN Out(<<>>, <<>>)
                 ELSE GenNodes(n.bodies[given(declared[k]) + 1], inComponent)]
      passed == FoldLeft(Both, Children(n, inComponent), args)
  IN  Out(<<[Computed(n.at) EXCEPT !.name = n.tag.name, !.inside = passed.lines]>>, passed.spans)

\* An unknown component is a plain box around its children.
GenComponent(n, inComponent) ==
  IF n.tag.name \in BuiltIns THEN GenBuiltIn(n, inComponent)
  ELSE IF n.tag.name \in DOMAIN AppComponents THEN GenCall(n, inComponent)
  ELSE Box(n, inComponent)

GenBodies(n, inComponent) ==
  FoldLeft(LAMBDA acc, b : Both(acc, Both(Lines(<<Silent(n.at)>>), GenNodes(b, inComponent))), Out(<<>>, <<>>), n.bodies)

GenNode(n, inComponent) ==
  CASE n.node = "text" -> Lines(<<Markup(n.at)>>)
    [] n.node \in {"expr", "raw"} -> Out(<<Computed(n.at)>>, <<n.at>>)
    [] n.node = "yield" -> Lines(<<Computed(n.at)>>)
    [] n.node = "head" -> Lines(<<Computed(n.at), Silent(n.at)>>)
    [] n.node = "slot" -> Lines(IF inComponent THEN <<Computed(n.at)>> ELSE <<>>)
    [] n.node \in {"section", "effect", "animate"} -> Lines(<<>>)
    [] n.node = "element" -> GenElement(n, inComponent)
    [] n.node = "component" -> GenComponent(n, inComponent)
    [] OTHER -> GenBodies(n, inComponent)

GenNodes(nodes, inComponent) ==
  FoldLeft(LAMBDA acc, n : Both(acc, GenNode(n, inComponent)), Out(<<>>, <<>>), nodes)

\* The lines of a page's mvRender.
RenderPage(file) == GenNodes(file.template, FALSE)

\* What the lines put in the document, calls opened up.
RECURSIVE Emitted(_)
Emitted(lines) == FlattenSeq([k \in 1..Len(lines) |-> <<lines[k]>> \o Emitted(lines[k].inside)])

-----------------------------------------------------------------------------
(* The preview's rendering.  Elements, text and events are nodes of a tree *)
(* of their own; a component is one leaf that holds its HTML.  In a        *)
(* preview each native element carries an id, its index in the source map. *)

RECURSIVE IrNodes(_)
IrNode(n) ==
  CASE n.node = "element" -> OpenLines([n EXCEPT !.tag.mixed = FALSE]) \o (IF n.bodies = <<>> THEN <<>> ELSE IrNodes(n.bodies[1]))
    [] n.node = "component" -> <<[Line("fallback", n.at) EXCEPT !.inside = GenNodes(<<n>>, FALSE).lines]>>
    [] n.node \in {"if", "for", "switch"} -> FlattenSeq([b \in 1..Len(n.bodies) |-> <<Silent(n.at)>> \o IrNodes(n.bodies[b])])
    [] OTHER -> GenNodes(<<n>>, FALSE).lines
IrNodes(nodes) == FlattenSeq([k \in 1..Len(nodes) |-> IrNode(nodes[k])])

\* Where the element with id k of a page was written.
Places(lines) == [k \in 1..Len(lines) |-> lines[k].at]
SourceMap(file) == Places(SelectSeq(IrNodes(file.template), LAMBDA l : l.emit = "open"))

-----------------------------------------------------------------------------
(* The map from generated lines to the source.                             *)

\* Lines that compute text, in the order of the file, are paired with the spans
\* that were recorded, when there are as many of one as of the other.
ComputedLines(out) == SelectSeq(out.lines, LAMBDA l : l.emit = "computed")
AnchorsByOrder(out) ==  \* mutant: paired although the counts differ
  [k \in 1..Min({Len(out.spans), Len(ComputedLines(out))}) |-> [line |-> ComputedLines(out)[k], anchor |-> out.spans[k]]]
TemplateAnchors(out) ==
  IF Len(ComputedLines(out)) = Len(out.spans)
  THEN [k \in 1..Len(out.spans) |-> [line |-> ComputedLines(out)[k], anchor |-> out.spans[k]]]
  ELSE <<>>
=============================================================================
