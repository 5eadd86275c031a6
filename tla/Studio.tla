------------------------------- MODULE Studio -------------------------------
(***************************************************************************)
(* Studio (src/apps/studio/native/src/app.rs, backend.rs) with the         *)
(* processes beside it: builds in terminals, a preview server with its     *)
(* browser, a person with another editor.  Studio runs the compiler's      *)
(* commands one at a time and does nothing while one runs; the others go   *)
(* on.  A frame redraws the inspector before the canvas takes a click.     *)
(*                                                                         *)
(* A span is the place of an element in the text the preview was made of.  *)
(***************************************************************************)
EXTENDS ProjectBuild, Preview

CONSTANTS
  Elements(_),     \* the places of a text's elements, in the order of their ids
  Dropped(_,_,_), \* a text with a component of a kind dropped at a place
  WithAttr(_,_,_),  \* a text with the attribute at a place given a value
  AttrAt(_,_),  \* the value of the attribute at a place, in a set; none if it is no attribute
  HandlersOf(_),   \* the handlers a text's buttons name
  Values,          \* of attributes
  Desks            \* who is at work: [first, writes, drafts, kinds, clicks, studio, editor, serve, terminals]

\* A page that is not shown has no elements.
ASSUME StudioAssumption == Elements(<<>>) = <<>>

VARIABLES desk, studio

vars == <<projectVars, buildVars, previewVars, desk, studio>>

NoJob == [what |-> "none", original |-> <<>>]
NoPreview == [ok |-> FALSE, forest |-> NoForest, spans |-> <<>>]

Init ==
  /\ desk \in Desks
  /\ sources = [f \in FileSet |-> IF f = Page THEN desk.first ELSE CHOOSE t \in Drafts : Passes(t) /\ ~TypeErrors(t)]
  /\ writes = desk.writes
  /\ byHand = FALSE
  /\ InitBuild /\ InitPreview
  /\ studio = [job |-> NoJob, open |-> FALSE, text |-> <<>>, dirty |-> FALSE, preview |-> NoPreview,
               session |-> <<>>, select |-> TRUE, selected |-> 0, fields |-> <<>>, fieldsFor |-> 0]

Idle == desk.studio /\ studio.job = NoJob

\* A page is on the canvas, and the inspector was drawn for the selection.
Canvas == Idle /\ studio.preview.ok /\ studio.fieldsFor = studio.selected
HasSpan(id) == id # 0 /\ id \in DOMAIN Elements(studio.preview.spans)  \* 0: nothing is selected
SpanOf(id) == Elements(studio.preview.spans)[id]

-----------------------------------------------------------------------------
(* The top bar and the code view.                                          *)

Keep == UNCHANGED <<projectVars, buildVars, previewVars, desk>>

\* Opening a project forgets everything but the selection and its fields.
ApplyProject ==
  /\ Idle
  /\ studio' = [studio EXCEPT !.open = FALSE, !.text = <<>>, !.dirty = FALSE, !.preview = NoPreview, !.session = <<>>]
  /\ Keep

OpenFile ==
  /\ Idle /\ ~studio.open
  /\ studio' = [studio EXCEPT !.open = TRUE, !.text = sources[Page], !.dirty = FALSE]
  /\ Keep

TypeText ==
  /\ Idle /\ studio.open /\ ~studio.dirty /\ writes > 0
  /\ \E t \in desk.drafts : t # studio.text /\ studio' = [studio EXCEPT !.text = t, !.dirty = TRUE]
  /\ Keep

Save ==
  /\ Idle /\ studio.open /\ studio.dirty
  /\ WriteFile(Page, studio.text)
  /\ writes' = writes - 1
  /\ byHand' = TRUE
  /\ studio' = [studio EXCEPT !.dirty = FALSE]
  /\ UNCHANGED <<buildVars, previewVars, desk>>

RunCheck ==
  /\ Idle /\ StartBuild("studio", "check")
  /\ studio' = [studio EXCEPT !.job = [NoJob EXCEPT !.what = "check"]]
  /\ UNCHANGED <<projectVars, actor, actorMap, previewVars, desk>>

BeginPreview ==
  /\ StartRender("studio", <<>>, TRUE)
  /\ UNCHANGED <<driver, spans, server, stream, browser>>

RunPreview ==
  /\ Idle /\ BeginPreview
  /\ studio' = [studio EXCEPT !.job = [NoJob EXCEPT !.what = "preview"]]
  /\ UNCHANGED <<projectVars, buildVars, desk>>

\* The new preview replaces the old one, ok or not, and begins a new session; its
\* elements are read from the file the command left.
PreviewDone ==
  /\ studio.job.what = "preview" /\ AtRender("studio", "done")
  /\ LET f == render["studio"].forest
     IN  studio' = [studio EXCEPT !.job = NoJob, !.session = <<>>,
                      !.preview = IF f = Failed THEN NoPreview ELSE [ok |-> TRUE, forest |-> f, spans |-> spans]]
  /\ Released("studio")
  /\ UNCHANGED <<projectVars, buildVars, driver, spans, server, stream, browser, desk>>

-----------------------------------------------------------------------------
(* The inspector.                                                          *)

\* The fields are read from the file when the selection is not the one they were
\* read for.
RedrawInspector ==
  /\ Idle /\ studio.fieldsFor # studio.selected
  /\ studio' = [studio EXCEPT !.fieldsFor = studio.selected,
       !.fields = IF HasSpan(studio.selected) /\ AttrAt(sources[Page], SpanOf(studio.selected)) # {}
                  THEN <<[at |-> SpanOf(studio.selected),
                          value |-> CHOOSE v \in AttrAt(sources[Page], SpanOf(studio.selected)) : TRUE]>>
                  ELSE <<>>]
  /\ Keep

\* A designer's edit writes the file and has it checked before anything else.
Edit(what, text) ==
  /\ WriteFile(Page, text)
  /\ writes' = writes - 1
  /\ StartBuild("studio", "check")
  /\ studio' = [studio EXCEPT !.job = [what |-> what, original |-> sources[Page]]]
  /\ UNCHANGED <<byHand, actor, actorMap, previewVars, desk>>

\* The selected element is on the canvas only if the preview has its id.
CommitAttr ==
  /\ Canvas /\ HasSpan(studio.selected) /\ studio.fields # <<>>
  /\ \E v \in Values \ {studio.fields[1].value} : Edit("edit", WithAttr(sources[Page], studio.fields[1].at, v))

-----------------------------------------------------------------------------
(* The canvas.                                                             *)

SetMode ==
  /\ Idle
  /\ studio' = [studio EXCEPT !.select = ~@]
  /\ Keep

Pick ==
  /\ Canvas /\ studio.select
  /\ \E id \in DOMAIN Elements(studio.preview.spans) \ {studio.selected} : studio' = [studio EXCEPT !.selected = id]
  /\ Keep

Drop ==
  /\ Canvas
  /\ \E id \in DOMAIN Elements(studio.preview.spans), k \in desk.kinds : Edit("drop", Dropped(sources[Page], SpanOf(id), k))

\* What a checked edit does next: the file is put back as it was when the check
\* reported an error; else it is kept, an open editor takes it, and the page is
\* rendered anew.
KeepSelection(what, outcome) == studio.selected  \* mutant: a drop leaves the selection
Selected(what, outcome) == IF what = "drop" /\ ~ReportsError(outcome) THEN 0 ELSE studio.selected

EditDone ==
  LET outcome == build["studio"].outcome
      job == studio.job.what
      kept == ~ReportsError(outcome)
  IN  /\ job \in {"drop", "edit"} /\ AtBuild("studio", "done")
      /\ sources' = IF kept THEN sources ELSE [sources EXCEPT ![Page] = studio.job.original]
      /\ EndBuild("studio")
      /\ IF kept THEN BeginPreview ELSE UNCHANGED previewVars
      /\ studio' = [studio EXCEPT !.job = [NoJob EXCEPT !.what = IF kept THEN "preview" ELSE "none"],
                      !.text = IF kept /\ studio.open THEN sources[Page] ELSE @,
                      !.dirty = @ /\ ~(kept /\ studio.open),
                      !.selected = Selected(job, outcome),
                      !.fieldsFor = IF job = "edit" THEN 0 ELSE @]
      /\ UNCHANGED <<writes, byHand, desk>>

CheckDone ==
  /\ studio.job.what = "check" /\ AtBuild("studio", "done")
  /\ EndBuild("studio")
  /\ studio' = [studio EXCEPT !.job = NoJob]
  /\ UNCHANGED <<projectVars, previewVars, desk>>

\* A button of the shown page: the session with its event is replayed from the
\* start, on the page as it is on disk.
Click ==
  /\ Canvas /\ ~studio.select /\ Len(studio.session) < desk.clicks
  /\ \E h \in HandlersOf(studio.preview.forest.of) :
       /\ studio' = [studio EXCEPT !.session = Append(@, h), !.job = [NoJob EXCEPT !.what = "replay"]]
       /\ StartRender("studio", Append(studio.session, h), FALSE)
  /\ UNCHANGED <<projectVars, buildVars, driver, spans, server, stream, browser, desk>>

\* A replayed page has no elements to select.  A replay that failed takes its
\* event back and leaves the page as it was.
ReplayKeepsEvent(forest) == studio.session  \* mutant: a failed event stays
SessionAfter(forest) == IF forest = Failed THEN SubSeq(studio.session, 1, Len(studio.session) - 1) ELSE studio.session

ReplayDone ==
  /\ studio.job.what = "replay" /\ AtRender("studio", "done")
  /\ LET f == render["studio"].forest
     IN  studio' = [studio EXCEPT !.job = NoJob, !.session = SessionAfter(f),
                      !.preview = IF f = Failed THEN @ ELSE [ok |-> TRUE, forest |-> f, spans |-> <<>>]]
  /\ Released("studio")
  /\ UNCHANGED <<projectVars, buildVars, driver, spans, server, stream, browser, desk>>

ResetSession ==
  /\ Canvas /\ studio.session # <<>>
  /\ BeginPreview
  /\ studio' = [studio EXCEPT !.session = <<>>, !.job = [NoJob EXCEPT !.what = "preview"]]
  /\ UNCHANGED <<projectVars, buildVars, desk>>

-----------------------------------------------------------------------------
StudioStep == PreviewDone \/ EditDone \/ CheckDone \/ ReplayDone
User ==
  \/ ApplyProject \/ OpenFile \/ TypeText \/ Save \/ RunCheck \/ RunPreview
  \/ RedrawInspector \/ CommitAttr \/ SetMode \/ Pick \/ Drop \/ Click \/ ResetSession

Person == desk.editor /\ WriteByHand /\ UNCHANGED <<buildVars, previewVars, desk, studio>>

Terminal(p) ==
  /\ \/ \E c \in {"build", "check"} : StartBuild(p, c) /\ UNCHANGED <<actor, actorMap>>
     \/ EndBuild(p)
  /\ UNCHANGED <<projectVars, previewVars, desk, studio>>

Compiler == \E p \in Builders : BuildStep(p) /\ UNCHANGED <<projectVars, previewVars, desk, studio>>
Renderer == \E r \in Renderers : RenderStep(r) /\ UNCHANGED <<projectVars, buildVars, desk, studio>>
Server == (FirstRendered \/ Watcher) /\ UNCHANGED <<projectVars, buildVars, desk, studio>>
Elsewhere == UNCHANGED <<projectVars, buildVars, desk, studio>>
Connecting == Connect /\ Elsewhere
Streaming == (ReadVersion \/ ReadAndPush) /\ Elsewhere
Answering == AnswerFetch /\ Elsewhere
Showing == ShowFetched /\ Elsewhere
Network == DropStream /\ UNCHANGED <<projectVars, buildVars, desk, studio>>
ServeCommand == desk.serve /\ Serve /\ UNCHANGED <<projectVars, buildVars, desk, studio>>

Next ==
  \/ StudioStep \/ User \/ Person \/ (\E p \in desk.terminals : Terminal(p))
  \/ Compiler \/ Renderer \/ ServeCommand \/ Server \/ Connecting \/ Streaming \/ Answering \/ Showing \/ Network

\* Processes and threads that were started go on; people need not.  A stream's
\* thread sleeps without the version's lock between two polls, so the watcher,
\* which needs it again and again, comes to get it.
Fairness ==
  /\ WF_vars(StudioStep) /\ WF_vars(Compiler) /\ WF_vars(Renderer) /\ SF_vars(Server)
  /\ WF_vars(Connecting) /\ WF_vars(Streaming) /\ WF_vars(Answering) /\ WF_vars(Showing)

Spec == Init /\ [][Next]_vars /\ Fairness

-----------------------------------------------------------------------------
\* While a page is changed by the designer alone, the designer hits what it
\* shows: the elements of the canvas are the ones of the file, and a field of the
\* inspector is the selected element's, with the value the file has; whatever was
\* dropped, edited, reverted, replayed and selected before (app.rs, the selection
\* bridge).
DesignerEditsLand ==
  (~byHand /\ Idle /\ studio.preview.ok /\ studio.preview.spans # <<>>) =>
    /\ Elements(studio.preview.spans) = Elements(sources[Page])
    /\ (studio.fieldsFor = studio.selected /\ studio.fields # <<>>) =>
         /\ HasSpan(studio.selected) /\ studio.fields[1].at = SpanOf(studio.selected)
         /\ studio.fields[1].value \in AttrAt(sources[Page], studio.fields[1].at)

\* The page on the canvas is what the session Studio keeps gives, from the start,
\* on the page's file: a replay that fails, or an edit that is put back, leaves
\* all three as they were (dispatch_event).  Nobody else renders previews of the
\* project, for all of them write one driver.
SessionReplays ==
  (Idle /\ studio.preview.ok /\ server.pc = "off") =>
    /\ studio.preview.forest.events = studio.session
    /\ ~byHand => studio.preview.forest.of = sources[Page]
=============================================================================
