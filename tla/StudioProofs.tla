---------------------------- MODULE StudioProofs ----------------------------
(***************************************************************************)
(* Two arguments about a project that several processes work on, for any   *)
(* files, texts, builders and desks.                                       *)
(*                                                                         *)
(* The actor on disk never has a form the lint calls insecure: whatever is *)
(* done between two steps of a build, what was read is what was linted,    *)
(* and what was linted is what is written (Inductive).                     *)
(*                                                                         *)
(* What Studio shows, has selected and is about to write speaks of the     *)
(* text it is said to speak of, through edits that are put back, replays   *)
(* that fail and renderings of others (Truthful): designer edits land, and *)
(* the session kept is the page shown.                                     *)
(***************************************************************************)
EXTENDS Studio, SequenceTheorems, TLAPS

\* What a builder knows of the texts it has read: all of them parse, and when it
\* has passed the gate, they are the project's and have no lint error.
IsBuild(b) == b = [command |-> b.command, pc |-> b.pc, read |-> b.read, outcome |-> b.outcome]
ReadParses(b) == \E S : b.read \in Seq(S) /\ \A t \in S : Parses(t)
Gated(b) == Len(b.read) = Len(Files) /\ \A k \in DOMAIN Files : Passes(b.read[k])

Sound(b) ==
  /\ IsBuild(b)
  /\ b.pc = "read" => ReadParses(b)
  /\ b.pc = "actor" => ReadParses(b) /\ Gated(b)

\* Why the actor is sound: a build that is about to write it holds gated texts.
Inductive ==
  /\ build = [p \in Builders |-> build[p]]
  /\ \A p \in Builders : Sound(build[p])
  /\ NoInsecureActor

\* All that a step of the whole system does to builds.
Building ==
  \/ UNCHANGED buildVars
  \/ \E p, c : StartBuild(p, c) /\ UNCHANGED <<actor, actorMap>>
  \/ \E p : EndBuild(p)
  \/ \E p \in Builders : BuildStep(p)

\* Nothing but builds and checks writes the actor (Studio's and the terminals' commands).
LEMMA OnlyBuilding == Next => Building
<1> SUFFICES ASSUME Next PROVE Building
  OBVIOUS
<1>1. CASE StudioStep
  BY <1>1 DEF StudioStep, PreviewDone, EditDone, CheckDone, ReplayDone, Building, EndBuild, buildVars
<1>2. CASE User
  <2>1. CASE CommitAttr \/ Drop
    BY <2>1 DEF CommitAttr, Drop, Edit, Building
  <2>2. CASE RunCheck
    BY <2>2 DEF RunCheck, Building
  <2>3. CASE ApplyProject \/ OpenFile \/ TypeText \/ Save \/ RunPreview \/ RedrawInspector \/ SetMode \/ Pick
             \/ Click \/ ResetSession
    BY <2>3 DEF ApplyProject, OpenFile, TypeText, Save, RunPreview, RedrawInspector, SetMode, Pick, Click,
         ResetSession, Keep, Building, buildVars
  <2> QED
    BY <1>2, <2>1, <2>2, <2>3 DEF User
<1>3. CASE \E p \in desk.terminals : Terminal(p)
  BY <1>3 DEF Terminal, Building
<1>4. CASE Compiler
  BY <1>4 DEF Compiler, Building
<1>5. CASE Person \/ Renderer \/ ServeCommand \/ Server \/ Connecting \/ Streaming \/ Answering \/ Showing \/ Network
  BY <1>5 DEF Person, Renderer, ServeCommand, Server, Connecting, Streaming, Answering, Showing, Network, Elsewhere,
       Building, buildVars
<1> QED
  BY <1>1, <1>2, <1>3, <1>4, <1>5 DEF Next

-----------------------------------------------------------------------------
\* A builder that starts and one that does nothing have no promise to keep yet.
LEMMA FreshSound ==
  ASSUME NEW c, NEW pc, pc \in {"idle", "read"}, NEW b, b = [command |-> c, pc |-> pc, read |-> <<>>, outcome |-> ""]
  PROVE  Sound(b)
<1>1. IsBuild(b)
  BY DEF IsBuild
<1>2. b.read = <<>>
  OBVIOUS
<1>3. ReadParses(b)
  <2> DEFINE None == {t \in {0} : Parses(t)}
  <2>1. <<>> \in Seq(None)
    BY EmptySeq
  <2>2. \A t \in None : Parses(t)
    OBVIOUS
  <2> HIDE DEF None
  <2> QED
    BY <1>2, <2>1, <2>2 DEF ReadParses
<1>4. b.pc # "actor"
  OBVIOUS
<1> QED
  BY <1>1, <1>3, <1>4 DEF Sound

(***************************************************************************)
(* A step of a build changes that build alone, and only WriteActor the     *)
(* actor.                                                                  *)
(***************************************************************************)
LEMMA OneBuild ==
  ASSUME Inductive, NEW q, build' = [build EXCEPT ![q] = build'[q]], q \in Builders => Sound(build'[q]), NoInsecureActor'
  PROVE  Inductive'
<1>1. build' = [p \in Builders |-> build'[p]]
  BY DEF Inductive
<1>2. ASSUME NEW p \in Builders PROVE Sound(build'[p])
  <2>1. build'[p] = IF p = q THEN build'[q] ELSE build[p]
    BY DEF Inductive
  <2>2. Sound(build[p])
    BY DEF Inductive
  <2> QED
    BY <2>1, <2>2
<1>3. \A p \in Builders : Sound(build[p])'
  BY <1>2 DEF Sound, IsBuild, ReadParses, Gated
<1> QED
  BY <1>1, <1>3 DEF Inductive

-----------------------------------------------------------------------------
\* A build that starts has read nothing (cmd_build).
LEMMA StartKeeps ==
  ASSUME Inductive, NEW q, NEW c, StartBuild(q, c), UNCHANGED <<actor, actorMap>>
  PROVE  Inductive'
<1>1. build' = [build EXCEPT ![q] = build'[q]]
  BY DEF Inductive, StartBuild
<1>2. ASSUME q \in Builders PROVE Sound(build'[q])
  <2>1. build'[q] = [Finished EXCEPT !.command = c, !.pc = "read"]
    BY <1>2 DEF Inductive, StartBuild
  <2>2. build'[q] = [command |-> c, pc |-> "read", read |-> <<>>, outcome |-> ""]
    BY <2>1 DEF Finished
  <2> QED
    BY <2>2, FreshSound
<1>3. NoInsecureActor'
  BY DEF Inductive, NoInsecureActor
<1> QED
  BY <1>1, <1>2, <1>3, OneBuild

\* A build that ends, or is interrupted, leaves the actor as it is.
LEMMA EndKeeps ==
  ASSUME Inductive, NEW q, EndBuild(q)
  PROVE  Inductive'
<1>1. build' = [build EXCEPT ![q] = build'[q]]
  BY DEF Inductive, EndBuild
<1>2. ASSUME q \in Builders PROVE Sound(build'[q])
  BY <1>2, FreshSound DEF Inductive, EndBuild, Finished
<1>3. NoInsecureActor'
  BY DEF Inductive, NoInsecureActor, EndBuild
<1> QED
  BY <1>1, <1>2, <1>3, OneBuild

\* An end keeps nothing, whatever the outcome.
LEMMA FinishKeeps ==
  ASSUME Inductive, NEW q \in Builders, NEW outcome, Finish(q, outcome), UNCHANGED actor
  PROVE  Inductive'
<1>1. build' = [build EXCEPT ![q] = build'[q]]
  BY DEF Inductive, Finish
<1>2. build'[q] = [build[q] EXCEPT !.pc = "done", !.outcome = outcome]
  BY DEF Inductive, Finish
<1>3. IsBuild(build[q])
  BY DEF Inductive, Sound
<1>4. IsBuild(build'[q]) /\ build'[q].pc = "done"
  BY <1>2, <1>3 DEF IsBuild
<1>5. Sound(build'[q])
  BY <1>4 DEF Sound
<1>6. NoInsecureActor'
  BY DEF Inductive, NoInsecureActor
<1> QED
  BY <1>1, <1>5, <1>6, OneBuild

\* A build that goes on keeps its texts.
LEMMA ContinueKeeps ==
  ASSUME Inductive, NEW q \in Builders, NEW pc, Continue(q, pc), NoInsecureActor',
         pc # "read", pc = "actor" => ReadParses(build[q]) /\ Gated(build[q])
  PROVE  Inductive'
<1>1. build' = [build EXCEPT ![q] = build'[q]]
  BY DEF Inductive, Continue
<1>2. build'[q] = [build[q] EXCEPT !.pc = pc]
  BY DEF Inductive, Continue
<1>3. IsBuild(build[q])
  BY DEF Inductive, Sound
<1>4. IsBuild(build'[q]) /\ build'[q].pc = pc /\ build'[q].read = build[q].read
  BY <1>2, <1>3 DEF IsBuild
<1>5. Sound(build'[q])
  BY <1>4 DEF Sound, ReadParses, Gated
<1> QED
  BY <1>1, <1>5, OneBuild

\* A text that was read is one that parses.
LEMMA ReadKeeps ==
  ASSUME Inductive, NEW q \in Builders, ReadSource(q)
  PROVE  Inductive'
<1> DEFINE text == sources[Files[Len(build[q].read) + 1]]
<1>1. CASE Parses(text)
  <2>1. build[q].pc = "read"
    BY DEF ReadSource, AtBuild
  <2>2. PICK S : build[q].read \in Seq(S) /\ \A t \in S : Parses(t)
    BY <2>1 DEF Inductive, Sound, ReadParses
  <2>3. Append(build[q].read, text) \in Seq(S \cup {text})
    BY <2>2
  <2>4. \A t \in S \cup {text} : Parses(t)
    BY <1>1, <2>2
  <2>5. build' = [build EXCEPT ![q].read = Append(@, text)]
    BY <1>1 DEF ReadSource
  <2> HIDE DEF text
  <2>6. build' = [build EXCEPT ![q] = build'[q]]
    BY <2>5 DEF Inductive
  <2>7. build'[q] = [build[q] EXCEPT !.read = Append(@, text)]
    BY <2>5 DEF Inductive
  <2>8. IsBuild(build'[q]) /\ build'[q].pc = "read" /\ build'[q].read = Append(build[q].read, text)
    BY <2>1, <2>7 DEF Inductive, Sound, IsBuild
  <2>9. ReadParses(build'[q])
    BY <2>3, <2>4, <2>8 DEF ReadParses
  <2>10. Sound(build'[q])
    BY <2>8, <2>9 DEF Sound
  <2>11. NoInsecureActor'
    BY DEF ReadSource, Inductive, NoInsecureActor
  <2> QED
    BY <2>6, <2>10, <2>11, OneBuild
<1>2. CASE ~Parses(text)
  BY <1>2, FinishKeeps DEF ReadSource
<1> QED
  BY <1>1, <1>2

\* What passes the gate is the project, without a lint error in what was read.
LEMMA GateKeeps ==
  ASSUME Inductive, NEW q \in Builders, Gate(q)
  PROVE  Inductive'
<1>1. CASE \E k \in DOMAIN Files : LintErrors(build[q].read[k])
  BY <1>1, FinishKeeps DEF Gate
<1>2. CASE ~\E k \in DOMAIN Files : LintErrors(build[q].read[k])
  <2>1. build[q].pc = "read" /\ Len(build[q].read) = Len(Files)
    BY DEF Gate, AtBuild
  <2>2. ReadParses(build[q])
    BY <2>1 DEF Inductive, Sound
  <2>3. PICK S : build[q].read \in Seq(S) /\ \A t \in S : Parses(t)
    BY <2>2 DEF ReadParses
  <2>4. ASSUME NEW k \in DOMAIN Files PROVE Passes(build[q].read[k])
    <3>1. build[q].read[k] \in S
      BY <2>1, <2>3, ProjectAssumption
    <3> QED
      BY <1>2, <2>3, <3>1 DEF Passes
  <2>5. Gated(build[q])
    BY <2>1, <2>4 DEF Gated
  <2>6. NoInsecureActor'
    BY DEF Gate, Inductive, NoInsecureActor
  <2>7. Continue(q, "actor")
    BY <1>2 DEF Gate
  <2> QED
    BY <2>2, <2>5, <2>6, <2>7, ContinueKeeps
<1> QED
  BY <1>1, <1>2

\* What is written is what was gated.
LEMMA WriteKeeps ==
  ASSUME Inductive, NEW q \in Builders, WriteActor(q)
  PROVE  Inductive'
<1>1. ReadParses(build[q]) /\ Gated(build[q])
  BY DEF WriteActor, AtBuild, Inductive, Sound
<1>2. PICK S : build[q].read \in Seq(S) /\ \A t \in S : Parses(t)
  BY <1>1 DEF ReadParses
<1>3. DOMAIN build[q].read = DOMAIN Files
  BY <1>1, <1>2, ProjectAssumption DEF Gated
<1>4. ASSUME NEW f \in {Files[k] : k \in DOMAIN build[q].read}
      PROVE  Passes(ReadBy(q)[f])
  <2>1. \E k \in DOMAIN build[q].read : Files[k] = f
    OBVIOUS
  <2> DEFINE k == CHOOSE j \in DOMAIN build[q].read : Files[j] = f
  <2>2. k \in DOMAIN Files
    BY <1>3, <2>1
  <2>3. ReadBy(q)[f] = build[q].read[k]
    BY DEF ReadBy
  <2> QED
    BY <1>1, <2>2, <2>3 DEF Gated
<1>5. DOMAIN ReadBy(q) = {Files[k] : k \in DOMAIN build[q].read}
  BY DEF ReadBy
<1>6. NoInsecureActor'
  BY <1>4, <1>5 DEF WriteActor, NoInsecureActor
<1> QED
  BY <1>6, ContinueKeeps DEF WriteActor

\* A step of a build keeps all promises (project.rs, build).
LEMMA BuildStepKeeps ==
  ASSUME Inductive, NEW q \in Builders, BuildStep(q)
  PROVE  Inductive'
<1>1. CASE ReadSource(q)
  BY <1>1, ReadKeeps
<1>2. CASE Gate(q)
  BY <1>2, GateKeeps
<1>3. CASE WriteActor(q)
  BY <1>3, WriteKeeps
<1>4. CASE WriteMap(q)
  <2>1. NoInsecureActor'
    BY <1>4 DEF WriteMap, Inductive, NoInsecureActor
  <2>2. CASE build[q].command = "check"
    BY <1>4, <2>1, <2>2, ContinueKeeps DEF WriteMap
  <2>3. CASE build[q].command # "check"
    BY <1>4, <2>3, FinishKeeps DEF WriteMap
  <2> QED
    BY <2>2, <2>3
<1>5. CASE TypeCheck(q)
  BY <1>5, FinishKeeps DEF TypeCheck
<1> QED
  BY <1>1, <1>2, <1>3, <1>4, <1>5 DEF BuildStep

-----------------------------------------------------------------------------
\* Every step of every process keeps the promises of the builds (project.rs, build).
THEOREM InductiveHolds == Spec => []Inductive
<1>1. Init => Inductive
  <2> SUFFICES ASSUME Init PROVE Inductive
    OBVIOUS
  <2>1. build = [p \in Builders |-> Finished] /\ actor = <<>>
    BY DEF Init, InitBuild
  <2>2. Sound(Finished)
    BY FreshSound DEF Finished
  <2>3. NoInsecureActor
    BY <2>1 DEF NoInsecureActor
  <2> QED
    BY <2>1, <2>2, <2>3 DEF Inductive
<1>2. Inductive /\ [Next]_vars => Inductive'
  <2> SUFFICES ASSUME Inductive, [Next]_vars PROVE Inductive'
    OBVIOUS
  <2>1. CASE UNCHANGED buildVars
    BY <2>1 DEF buildVars, Inductive, NoInsecureActor, Sound, IsBuild, ReadParses, Gated
  <2>2. CASE \E p, c : StartBuild(p, c) /\ UNCHANGED <<actor, actorMap>>
    BY <2>2, StartKeeps
  <2>3. CASE \E p : EndBuild(p)
    BY <2>3, EndKeeps
  <2>4. CASE \E p \in Builders : BuildStep(p)
    BY <2>4, BuildStepKeeps
  <2> QED
    BY <2>1, <2>2, <2>3, <2>4, OnlyBuilding DEF Building, vars
<1> QED
  BY <1>1, <1>2, PTL DEF Spec

\* The actor on disk never has a form the lint calls insecure, however builds,
\* checks, previews and edits interleave (project.rs, the lint gate of build).
THEOREM NoInsecureActorAlways == Spec => []NoInsecureActor
BY InductiveHolds, PTL DEF Inductive

-----------------------------------------------------------------------------
(***************************************************************************)
(* The designer.  What Studio shows, and what its rendering is about to    *)
(* show, belongs to the page's text; while an edit of the designer is      *)
(* being checked, to the text that may have to be put back.                *)
(***************************************************************************)
IsStudio(s) ==
  s = [job |-> s.job, open |-> s.open, text |-> s.text, dirty |-> s.dirty, preview |-> s.preview,
       session |-> s.session, select |-> s.select, selected |-> s.selected, fields |-> s.fields,
       fieldsFor |-> s.fieldsFor]
IsRender(r) ==
  r = [pc |-> r.pc, events |-> r.events, ids |-> r.ids, files |-> r.files, read |-> r.read, forest |-> r.forest]

IsServer(s) == s = [pc |-> s.pc, forest |-> s.forest, version |-> s.version, last |-> s.last]

RenderShape == render = [r \in Renderers |-> render[r]] /\ \A r \in Renderers : IsRender(render[r])
Shape == sources = [f \in FileSet |-> sources[f]] /\ IsStudio(studio) /\ RenderShape

Editing == studio.job.what \in {"drop", "edit"}
Base == IF Editing THEN studio.job.original ELSE sources[Page]

\* The server renders without elements, and not before it is started.
Watching ==
  /\ IsServer(server)
  /\ ~render["watcher"].ids /\ render["watcher"].pc # "spans"
  /\ server.pc = "off" => render["watcher"].pc = "idle"

\* Studio renders what its job asks for, the texts it has read are the files, and
\* nobody but the server writes the driver meanwhile.
RenderingJob(r) ==
  r.pc # "idle" =>
    \/ studio.job.what = "preview" /\ r.ids /\ r.events = <<>>
    \/ studio.job.what = "replay" /\ ~r.ids /\ r.events = studio.session
ReadPage(r) ==
  ~byHand =>
    /\ r.pc = "read" => r.files \in Nat /\ \A k \in 1..r.files : r.read[Files[k]] = sources[Files[k]]
    /\ r.pc \in {"driver", "spans", "moc"} => r.read[Page] = sources[Page]
    /\ r.ids /\ (r.pc = "moc" \/ (r.pc = "done" /\ r.forest # Failed)) => spans = sources[Page]
OwnDriver(r) ==
  server.pc = "off" =>
    /\ r.pc \in {"spans", "moc"} => driver.read = r.read /\ driver.events = r.events
    /\ r.pc = "done" /\ r.forest # Failed =>
         r.forest.events = r.events /\ (~byHand => r.forest.of = sources[Page])
Rendering == RenderingJob(render["studio"]) /\ ReadPage(render["studio"]) /\ OwnDriver(render["studio"])

\* The elements on the canvas, and the page, are those of the base text; the page
\* is what the session gives, without the event that is being replayed.
Elementary ==
  (~byHand /\ studio.job.what # "preview" /\ studio.preview.spans # <<>>) => studio.preview.spans = Base
Replayed(events) ==
  (studio.preview.ok /\ server.pc = "off") =>
    studio.preview.forest.events = events /\ (~byHand => studio.preview.forest.of = Base)
SessionKept ==
  /\ \E S : studio.session \in Seq(S)
  /\ studio.job.what \in {"none", "check", "drop", "edit"} => Replayed(studio.session)
  /\ studio.job.what = "replay" =>
       \E S : \E s \in Seq(S), h \in S : studio.session = Append(s, h) /\ Replayed(s)

\* The inspector's field is the selected element's, once it is drawn for it.
Inspected ==
  /\ (~byHand /\ studio.fieldsFor = studio.selected /\ studio.fields # <<>>) =>
       /\ studio.selected # 0
       /\ studio.selected \in DOMAIN Elements(Base)
       /\ studio.fields[1].at = Elements(Base)[studio.selected]
       /\ studio.fields[1].value \in AttrAt(Base, studio.fields[1].at)
  /\ Editing => studio.fieldsFor = studio.selected
  /\ studio.job.what = "edit" => studio.selected # 0

Truthful == Shape /\ Watching /\ Rendering /\ Elementary /\ SessionKept /\ Inspected

-----------------------------------------------------------------------------
\* A change of one renderer keeps the shape of both.
LEMMA RenderChanged ==
  ASSUME RenderShape, NEW q \in Renderers, NEW v, IsRender(v), render' = [render EXCEPT ![q] = v]
  PROVE  RenderShape' /\ render'[q] = v /\ \A r \in Renderers \ {q} : render'[r] = render[r]
<1>1. /\ render' = [r \in Renderers |-> render'[r]]
      /\ render'[q] = v
      /\ \A r \in Renderers \ {q} : render'[r] = render[r]
  BY DEF RenderShape
<1>2. ASSUME NEW r \in Renderers PROVE IsRender(render'[r])
  BY <1>1 DEF RenderShape
<1>3. \A r \in Renderers : IsRender(render[r])'
  BY <1>2 DEF IsRender
<1> QED
  BY <1>1, <1>3 DEF RenderShape

\* A rendering that starts has read nothing.
LEMMA StartRendering ==
  ASSUME RenderShape, NEW q \in Renderers, NEW events, NEW ids \in BOOLEAN, StartRender(q, events, ids)
  PROVE  /\ RenderShape'
         /\ render[q].pc = "idle"
         /\ render'[q].pc = "read" /\ render'[q].events = events /\ render'[q].ids = ids /\ render'[q].files = 0
         /\ \A r \in Renderers \ {q} : render'[r] = render[r]
<1> DEFINE v == [AtRest EXCEPT !.pc = "read", !.events = events, !.ids = ids]
<1>0. PICK w : w = v
  OBVIOUS
<1>1. IsRender(AtRest)
  BY DEF IsRender, AtRest
<1>2. IsRender(v) /\ render' = [render EXCEPT ![q] = v]
  <2>1. IsRender(w)
    BY <1>0, <1>1 DEF IsRender
  <2> QED
    BY <1>0, <2>1 DEF StartRender
<1>3. v.pc = "read" /\ v.events = events /\ v.ids = ids /\ v.files = 0
  BY <1>1 DEF AtRest
<1> HIDE DEF v
<1> QED
  BY <1>2, <1>3, RenderChanged DEF StartRender, AtRender

\* A renderer whose page is taken is idle again.
LEMMA ReleasedRendering ==
  ASSUME RenderShape, NEW q \in Renderers, Released(q)
  PROVE  /\ RenderShape'
         /\ render'[q].pc = "idle" /\ ~render'[q].ids
         /\ \A r \in Renderers \ {q} : render'[r] = render[r]
<1>1. IsRender(AtRest) /\ AtRest.pc = "idle" /\ ~AtRest.ids
  BY DEF IsRender, AtRest
<1> QED
  BY <1>1, RenderChanged DEF Released

\* A page that is rendered, or was refused, is the renderer's.
LEMMA DoneRendering ==
  ASSUME RenderShape, NEW q \in Renderers, NEW forest, Rendered(q, forest)
  PROVE  /\ RenderShape'
         /\ render'[q].pc = "done" /\ render'[q].forest = forest
         /\ render'[q].events = render[q].events /\ render'[q].ids = render[q].ids
         /\ \A r \in Renderers \ {q} : render'[r] = render[r]
<1> DEFINE v == [render[q] EXCEPT !.pc = "done", !.forest = forest]
<1>1. IsRender(render[q])
  BY DEF RenderShape
<1>3. render' = [render EXCEPT ![q] = v]
  BY DEF Rendered, RenderShape
<1>4. IsRender(v) /\ v.pc = "done" /\ v.forest = forest /\ v.events = render[q].events /\ v.ids = render[q].ids
  <2>1. PICK w : w = v
    OBVIOUS
  <2>2. IsRender(w) /\ w.pc = "done" /\ w.forest = forest /\ w.events = render[q].events /\ w.ids = render[q].ids
    BY <1>1, <2>1 DEF IsRender
  <2> QED
    BY <2>1, <2>2
<1> HIDE DEF v
<1> QED
  BY <1>3, <1>4, RenderChanged

-----------------------------------------------------------------------------
\* What a step has to leave alone, for each part of the invariant.
LEMMA WatchingKept ==
  ASSUME Watching, render'["watcher"] = render["watcher"], server' = server
  PROVE  Watching'
BY DEF Watching

LEMMA NothingRendered ==
  ASSUME render'["studio"].pc = "idle"
  PROVE  Rendering'
BY DEF Rendering, RenderingJob, ReadPage, OwnDriver

LEMMA RenderingKept ==
  ASSUME Rendering, render'["studio"] = render["studio"], spans' = spans,
         render["studio"].pc # "idle" => studio'.job.what = studio.job.what /\ studio'.session = studio.session,
         ~byHand' => ~byHand /\ sources' = sources,
         server'.pc = "off" => server.pc = "off" /\ driver' = driver
  PROVE  Rendering'
<1>1. RenderingJob(render["studio"])'
  BY DEF Rendering, RenderingJob
<1>2. ReadPage(render["studio"])'
  BY DEF Rendering, ReadPage
<1>3. OwnDriver(render["studio"])'
  BY DEF Rendering, OwnDriver
<1> QED
  BY <1>1, <1>2, <1>3 DEF Rendering

LEMMA ViewKept ==
  ASSUME Elementary, SessionKept, ~byHand' => ~byHand /\ Base' = Base, server'.pc = "off" => server.pc = "off",
         studio'.preview = studio.preview, studio'.session = studio.session,
         \/ studio'.job.what = studio.job.what
         \/ {studio.job.what, studio'.job.what} \subseteq {"none", "check", "drop", "edit"}
  PROVE  Elementary' /\ SessionKept'
<1>1. ASSUME NEW events, Replayed(events) PROVE Replayed(events)'
  BY <1>1 DEF Replayed
<1>2. Elementary'
  BY DEF Elementary
<1>3. SessionKept'
  <2>1. \E S : studio'.session \in Seq(S)
    BY DEF SessionKept
  <2>2. CASE studio'.job.what \in {"none", "check", "drop", "edit"}
    BY <1>1, <2>1, <2>2 DEF SessionKept
  <2>3. CASE studio'.job.what = "replay"
    <3>1. PICK S : \E t \in Seq(S), h \in S : studio.session = Append(t, h) /\ Replayed(t)
      BY <2>3 DEF SessionKept
    <3>2. PICK t \in Seq(S), h \in S : studio.session = Append(t, h) /\ Replayed(t)
      BY <3>1
    <3>3. studio'.session = Append(t, h) /\ Replayed(t)'
      BY <1>1, <3>2
    <3> QED
      BY <2>1, <2>3, <3>3 DEF SessionKept
  <2>4. CASE studio'.job.what \notin {"none", "check", "drop", "edit", "replay"}
    BY <2>1, <2>4 DEF SessionKept
  <2> QED
    BY <2>2, <2>3, <2>4
<1> QED
  BY <1>2, <1>3

LEMMA InspectorKept ==
  ASSUME Inspected, ~byHand' => ~byHand /\ Base' = Base,
         studio'.selected = studio.selected, studio'.fields = studio.fields, studio'.fieldsFor = studio.fieldsFor,
         Editing' => studio.fieldsFor = studio.selected, studio'.job.what = "edit" => studio.selected # 0
  PROVE  Inspected'
BY DEF Inspected

-----------------------------------------------------------------------------
\* While Studio has no job, it renders nothing, and what it shows is the file's.
LEMMA IdleFacts ==
  ASSUME Truthful, Idle
  PROVE  /\ studio.job.what = "none" /\ ~Editing /\ Base = sources[Page]
         /\ render["studio"].pc = "idle"
BY DEF Truthful, Idle, NoJob, Editing, Base, Rendering, RenderingJob

\* The commands that change only what Studio shows: opening a project, the code
\* view, the mode of the canvas.
LEMMA ViewActions ==
  ASSUME Truthful, ApplyProject \/ OpenFile \/ TypeText \/ SetMode \/ Save
  PROVE  Truthful'
<1>0. Idle
  BY DEF ApplyProject, OpenFile, TypeText, SetMode, Save
<1>1. /\ studio.job.what = "none" /\ ~Editing /\ Base = sources[Page]
      /\ render["studio"].pc = "idle"
  BY <1>0, IdleFacts
<1>2. /\ UNCHANGED <<driver, spans, render, server>>
      /\ ~byHand' => ~byHand /\ sources' = sources
  <2>1. CASE ApplyProject \/ OpenFile \/ TypeText \/ SetMode
    <3>1. Keep
      BY <2>1 DEF ApplyProject, OpenFile, TypeText, SetMode
    <3>2. UNCHANGED <<sources, byHand, driver, spans, render, server>>
      BY <3>1 DEF Keep, projectVars, previewVars
    <3> QED
      BY <3>2
  <2>2. CASE Save
    BY <2>2 DEF Save, previewVars
  <2> QED
    BY <2>1, <2>2
<1>3. /\ IsStudio(studio')
      /\ studio'.job = studio.job
      /\ studio'.selected = studio.selected /\ studio'.fields = studio.fields
      /\ studio'.fieldsFor = studio.fieldsFor
      /\ \/ studio'.preview = studio.preview /\ studio'.session = studio.session
         \/ studio'.preview = NoPreview /\ studio'.session = <<>>
  <2>1. IsStudio(studio)
    BY DEF Truthful, Shape
  <2>2. CASE ApplyProject
    BY <2>1, <2>2 DEF ApplyProject, IsStudio
  <2>3. CASE OpenFile
    BY <2>1, <2>3 DEF OpenFile, IsStudio
  <2>4. CASE TypeText
    BY <2>1, <2>4 DEF TypeText, IsStudio
  <2>5. CASE SetMode
    BY <2>1, <2>5 DEF SetMode, IsStudio
  <2>6. CASE Save
    BY <2>1, <2>6 DEF Save, IsStudio
  <2> QED
    BY <2>2, <2>3, <2>4, <2>5, <2>6
<1>4. Shape'
  <2>1. sources' = [f \in FileSet |-> sources'[f]]
    BY DEF Truthful, Shape, ApplyProject, OpenFile, TypeText, SetMode, Save, Keep, projectVars, WriteFile
  <2>2. RenderShape'
    BY <1>2 DEF Truthful, Shape, RenderShape, IsRender
  <2> QED
    BY <1>3, <2>1, <2>2 DEF Shape, IsStudio
<1>5. ~Editing' /\ Base' = sources'[Page] /\ (~byHand' => ~byHand /\ Base' = Base)
  BY <1>1, <1>2, <1>3 DEF Editing, Base
<1>6. Watching' /\ Rendering'
  BY <1>1, <1>2, WatchingKept, NothingRendered DEF Truthful
<1>7. Elementary' /\ SessionKept'
  <2>1. CASE studio'.preview = studio.preview /\ studio'.session = studio.session
    BY <1>2, <1>3, <1>5, <2>1, ViewKept DEF Truthful
  <2>2. CASE studio'.preview = NoPreview /\ studio'.session = <<>>
    <3>1. Elementary'
      BY <2>2 DEF Elementary, NoPreview
    <3>2. \E S : studio'.session \in Seq(S)
      BY <2>2, EmptySeq
    <3>3. \A events : Replayed(events)'
      BY <2>2 DEF Replayed, NoPreview
    <3>4. SessionKept'
      BY <1>1, <1>3, <3>2, <3>3 DEF SessionKept
    <3> QED
      BY <3>1, <3>4
  <2> QED
    BY <1>3, <2>1, <2>2
<1>8. Inspected'
  BY <1>1, <1>3, <1>5, InspectorKept DEF Truthful
<1> QED
  BY <1>4, <1>6, <1>7, <1>8 DEF Truthful

\* The part of the invariant that the selection and the inspector do not touch.
LEMMA SelectionOnly ==
  ASSUME Truthful, Idle, Keep, IsStudio(studio'), studio'.job = studio.job,
         studio'.preview = studio.preview, studio'.session = studio.session
  PROVE  Shape' /\ Watching' /\ Rendering' /\ Elementary' /\ SessionKept' /\ ~Editing' /\ Base' = Base
<1>1. /\ studio.job.what = "none" /\ ~Editing /\ Base = sources[Page]
      /\ render["studio"].pc = "idle"
  BY IdleFacts
<1>2. UNCHANGED <<sources, byHand, driver, spans, render, server>>
  BY DEF Keep, projectVars, previewVars
<1>3. ~Editing' /\ Base' = Base
  BY <1>1, <1>2 DEF Editing, Base
<1>4. Shape'
  BY <1>2 DEF Truthful, Shape, RenderShape, IsRender, IsStudio
<1>5. Watching' /\ Rendering'
  BY <1>1, <1>2, WatchingKept, NothingRendered DEF Truthful
<1>6. Elementary' /\ SessionKept'
  BY <1>1, <1>2, <1>3, ViewKept DEF Truthful
<1> QED
  BY <1>3, <1>4, <1>5, <1>6

\* Another element is selected: the inspector is not drawn for it yet.
LEMMA PickKeeps ==
  ASSUME Truthful, Pick
  PROVE  Truthful'
<1>1. Idle /\ Keep /\ studio.fieldsFor = studio.selected
  BY DEF Pick, Canvas
<1>2. PICK id : id # studio.selected /\ studio' = [studio EXCEPT !.selected = id]
  BY DEF Pick
<1>3. /\ IsStudio(studio') /\ studio'.job = studio.job
      /\ studio'.preview = studio.preview /\ studio'.session = studio.session
      /\ studio'.selected # studio'.fieldsFor
  BY <1>1, <1>2 DEF Truthful, Shape, IsStudio
<1>4. studio'.job.what = "none"
  BY <1>1, <1>3, IdleFacts
<1>5. Shape' /\ Watching' /\ Rendering' /\ Elementary' /\ SessionKept' /\ ~Editing'
  BY <1>1, <1>3, SelectionOnly
<1> QED
  BY <1>3, <1>4, <1>5 DEF Truthful, Inspected

\* The inspector is drawn from the file, for the element that has the selected
\* place there.
LEMMA RedrawKeeps ==
  ASSUME Truthful, RedrawInspector
  PROVE  Truthful'
<1> DEFINE found == HasSpan(studio.selected) /\ AttrAt(sources[Page], SpanOf(studio.selected)) # {}
           field == [at |-> SpanOf(studio.selected),
                     value |-> CHOOSE v \in AttrAt(sources[Page], SpanOf(studio.selected)) : TRUE]
<1>1. Idle /\ Keep
  BY DEF RedrawInspector
<1>2. studio.job.what = "none" /\ Base = sources[Page]
  BY <1>1, IdleFacts
<1>3. studio' = [studio EXCEPT !.fieldsFor = studio.selected, !.fields = IF found THEN <<field>> ELSE <<>>]
  BY DEF RedrawInspector
<1>4. found => /\ field.at = SpanOf(studio.selected)
               /\ field.value \in AttrAt(sources[Page], field.at)
  OBVIOUS
<1>5. (~byHand /\ found) => /\ studio.selected # 0
                            /\ studio.selected \in DOMAIN Elements(Base)
                            /\ field.at = Elements(Base)[studio.selected]
  <2>1. SUFFICES ASSUME ~byHand, found
                 PROVE  /\ studio.selected # 0
                        /\ studio.selected \in DOMAIN Elements(Base)
                        /\ field.at = Elements(Base)[studio.selected]
    OBVIOUS
  <2>2. studio.selected # 0 /\ studio.selected \in DOMAIN Elements(studio.preview.spans)
    BY <2>1 DEF HasSpan
  <2>3. studio.preview.spans # <<>>
    BY <2>2, StudioAssumption
  <2>4. studio.preview.spans = Base
    BY <1>2, <2>1, <2>3 DEF Truthful, Elementary
  <2> QED
    BY <2>2, <2>4 DEF SpanOf
<1> HIDE DEF found, field
<1>6. /\ IsStudio(studio') /\ studio'.job = studio.job
      /\ studio'.preview = studio.preview /\ studio'.session = studio.session
      /\ studio'.selected = studio.selected /\ studio'.fieldsFor = studio.selected
      /\ studio'.fields = IF found THEN <<field>> ELSE <<>>
  BY <1>3 DEF Truthful, Shape, IsStudio
<1>7. /\ Shape' /\ Watching' /\ Rendering' /\ Elementary' /\ SessionKept' /\ ~Editing'
      /\ Base' = Base
  BY <1>1, <1>6, SelectionOnly
<1>8. byHand' = byHand /\ studio'.job.what = "none"
  BY <1>1, <1>2, <1>6 DEF Keep, projectVars
<1>9. ASSUME ~byHand', studio'.fields # <<>>
      PROVE  /\ studio'.selected # 0
             /\ studio'.selected \in DOMAIN Elements(Base')
             /\ studio'.fields[1].at = Elements(Base')[studio'.selected]
             /\ studio'.fields[1].value \in AttrAt(Base', studio'.fields[1].at)
  <2>1. found /\ studio'.fields[1] = field
    BY <1>6, <1>9
  <2> QED
    BY <1>2, <1>4, <1>5, <1>6, <1>7, <1>8, <1>9, <2>1
<1> QED
  BY <1>7, <1>8, <1>9 DEF Truthful, Inspected

-----------------------------------------------------------------------------
\* A check begins or ends: nothing of the page changes.
LEMMA CheckKeeps ==
  ASSUME Truthful, RunCheck \/ CheckDone
  PROVE  Truthful'
<1>1. /\ studio.job.what \in {"none", "check"} /\ studio'.job.what \in {"none", "check"}
      /\ IsStudio(studio')
      /\ studio'.preview = studio.preview /\ studio'.session = studio.session
      /\ studio'.selected = studio.selected /\ studio'.fields = studio.fields
      /\ studio'.fieldsFor = studio.fieldsFor
  <2>1. IsStudio(studio)
    BY DEF Truthful, Shape
  <2>2. CASE RunCheck
    BY <2>1, <2>2, IdleFacts DEF RunCheck, IsStudio, NoJob
  <2>3. CASE CheckDone
    BY <2>1, <2>3 DEF CheckDone, IsStudio, NoJob
  <2> QED
    BY <2>2, <2>3
<1>2. UNCHANGED <<sources, byHand, driver, spans, render, server>>
  BY DEF RunCheck, CheckDone, projectVars, previewVars
<1>3. ~Editing /\ ~Editing' /\ Base' = Base
  BY <1>1, <1>2 DEF Editing, Base
<1>4. Shape'
  BY <1>1, <1>2 DEF Truthful, Shape, RenderShape, IsRender, IsStudio
<1>5. render["studio"].pc = "idle"
  BY <1>1 DEF Truthful, Rendering, RenderingJob
<1>6. Watching' /\ Rendering'
  BY <1>2, <1>5, WatchingKept, NothingRendered DEF Truthful
<1>7. Elementary' /\ SessionKept'
  <2>1. {studio.job.what, studio'.job.what} \subseteq {"none", "check", "drop", "edit"}
    BY <1>1
  <2> QED
    BY <1>1, <1>2, <1>3, <2>1, ViewKept DEF Truthful
<1>8. Inspected'
  BY <1>1, <1>2, <1>3, InspectorKept DEF Truthful
<1> QED
  BY <1>4, <1>6, <1>7, <1>8 DEF Truthful

\* The designer writes the page: what is shown belongs to the text that the edit
\* may be put back to.
LEMMA EditKeeps ==
  ASSUME Truthful, CommitAttr \/ Drop
  PROVE  Truthful'
<1>0. PICK what \in {"drop", "edit"} : \E text : Edit(what, text) /\ (what = "edit" => studio.selected # 0)
  <2>1. CASE CommitAttr
    BY <2>1 DEF CommitAttr, HasSpan
  <2>2. CASE Drop
    BY <2>2 DEF Drop
  <2> QED
    BY <2>1, <2>2
<1>1. PICK text : Edit(what, text) /\ (what = "edit" => studio.selected # 0)
  BY <1>0
<1>2. Idle /\ studio.fieldsFor = studio.selected
  BY DEF CommitAttr, Drop, Canvas
<1>3. /\ studio.job.what = "none" /\ ~Editing /\ Base = sources[Page]
      /\ render["studio"].pc = "idle"
  BY <1>2, IdleFacts
<1>4. UNCHANGED <<byHand, driver, spans, render, server>>
  BY <1>1 DEF Edit, previewVars
<1>5. studio' = [studio EXCEPT !.job = [what |-> what, original |-> sources[Page]]]
  BY <1>1 DEF Edit
<1>6. /\ IsStudio(studio')
      /\ studio'.job.what = what /\ studio'.job.original = sources[Page]
      /\ studio'.preview = studio.preview /\ studio'.session = studio.session
      /\ studio'.selected = studio.selected /\ studio'.fields = studio.fields
      /\ studio'.fieldsFor = studio.fieldsFor
  BY <1>5 DEF Truthful, Shape, IsStudio
<1>7. Editing' /\ Base' = Base
  BY <1>3, <1>6 DEF Editing, Base
<1>8. Shape'
  <2>1. sources' = [f \in FileSet |-> sources'[f]]
    BY <1>1 DEF Truthful, Shape, Edit, WriteFile
  <2> QED
    BY <1>4, <1>6, <2>1 DEF Truthful, Shape, RenderShape, IsRender, IsStudio
<1>9. Watching' /\ Rendering'
  BY <1>3, <1>4, WatchingKept, NothingRendered DEF Truthful
<1>10. Elementary' /\ SessionKept'
  <2>1. {studio.job.what, studio'.job.what} \subseteq {"none", "check", "drop", "edit"}
    BY <1>3, <1>6
  <2> QED
    BY <1>4, <1>6, <1>7, <2>1, ViewKept DEF Truthful
<1>11. Inspected'
  BY <1>1, <1>2, <1>4, <1>6, <1>7, InspectorKept DEF Truthful
<1> QED
  BY <1>8, <1>9, <1>10, <1>11 DEF Truthful

\* An edit whose check reports an error is put back, and all that is shown belongs
\* to the file again.
LEMMA RevertKeeps ==
  ASSUME Truthful, EditDone, ReportsError(build["studio"].outcome)
  PROVE  Truthful'
<1>1. /\ studio.job.what \in {"drop", "edit"}
      /\ sources' = [sources EXCEPT ![Page] = studio.job.original]
      /\ UNCHANGED <<byHand, driver, spans, render, server>>
  BY DEF EditDone, previewVars
<1>2. /\ IsStudio(studio')
      /\ studio'.job.what = "none"
      /\ studio'.preview = studio.preview /\ studio'.session = studio.session
      /\ studio'.selected = studio.selected /\ studio'.fields = studio.fields
      /\ studio'.fieldsFor = IF studio.job.what = "edit" THEN 0 ELSE studio.fieldsFor
  <2>1. IsStudio(studio)
    BY DEF Truthful, Shape
  <2>2. PICK text, dirty :
          studio' = [studio EXCEPT !.job = [NoJob EXCEPT !.what = "none"], !.text = text, !.dirty = dirty,
                       !.selected = studio.selected,
                       !.fieldsFor = IF studio.job.what = "edit" THEN 0 ELSE studio.fieldsFor]
    BY DEF EditDone, Selected
  <2> QED
    BY <2>1, <2>2 DEF IsStudio, NoJob
<1>3. Editing /\ ~Editing' /\ Base' = Base
  BY <1>1, <1>2, ProjectAssumption DEF Editing, Base, Truthful, Shape
<1>4. Shape'
  BY <1>1, <1>2 DEF Truthful, Shape, RenderShape, IsRender, IsStudio
<1>5. render["studio"].pc = "idle"
  BY <1>1 DEF Truthful, Rendering, RenderingJob
<1>6. Watching' /\ Rendering'
  BY <1>1, <1>5, WatchingKept, NothingRendered DEF Truthful
<1>7. Elementary' /\ SessionKept'
  <2>1. {studio.job.what, studio'.job.what} \subseteq {"none", "check", "drop", "edit"}
    BY <1>1, <1>2
  <2> QED
    BY <1>1, <1>2, <1>3, <2>1, ViewKept DEF Truthful
<1>8. Inspected'
  <2>1. CASE studio.job.what = "edit"
    <3>1. studio.selected # 0
      BY <2>1 DEF Truthful, Inspected
    <3> QED
      BY <1>2, <1>3, <2>1, <3>1 DEF Inspected
  <2>2. CASE studio.job.what # "edit"
    BY <1>1, <1>2, <1>3, <2>2, InspectorKept DEF Truthful
  <2> QED
    BY <2>1, <2>2
<1> QED
  BY <1>4, <1>6, <1>7, <1>8 DEF Truthful

-----------------------------------------------------------------------------
\* Studio begins to render the page anew: all but the inspector's part.
LEMMA PreviewBegins ==
  ASSUME Truthful, BeginPreview, UNCHANGED <<sources, byHand>>, IsStudio(studio'),
         studio'.job.what = "preview", studio'.session \in {studio.session, <<>>}
  PROVE  Shape' /\ Watching' /\ Rendering' /\ Elementary' /\ SessionKept' /\ ~Editing' /\ Base' = sources[Page]
<1>1. /\ RenderShape'
      /\ render'["studio"].pc = "read" /\ render'["studio"].events = <<>> /\ render'["studio"].ids
      /\ render'["studio"].files = 0
      /\ render'["watcher"] = render["watcher"]
      /\ UNCHANGED <<driver, spans, server>>
  BY StartRendering DEF BeginPreview, Truthful, Shape, Renderers
<1>2. Shape'
  BY <1>1 DEF Truthful, Shape, IsStudio
<1>3. Watching'
  BY <1>1, WatchingKept DEF Truthful
<1>4. Rendering'
  BY <1>1 DEF Rendering, RenderingJob, ReadPage, OwnDriver
<1>5. Elementary'
  BY DEF Elementary
<1>6. SessionKept'
  <2>1. \E S : studio'.session \in Seq(S)
    BY EmptySeq DEF Truthful, SessionKept
  <2> QED
    BY <2>1 DEF SessionKept
<1>7. ~Editing' /\ Base' = sources[Page]
  BY DEF Editing, Base
<1> QED
  BY <1>2, <1>3, <1>4, <1>5, <1>6, <1>7

\* The preview's button, and the one that begins the session again.
LEMMA RunPreviewKeeps ==
  ASSUME Truthful, RunPreview \/ ResetSession
  PROVE  Truthful'
<1>1. Idle /\ BeginPreview /\ UNCHANGED <<sources, byHand>>
  BY DEF RunPreview, ResetSession, Canvas, projectVars
<1>2. Base = sources[Page]
  BY <1>1, IdleFacts
<1>3. /\ IsStudio(studio')
      /\ studio'.job.what = "preview"
      /\ studio'.session \in {studio.session, <<>>}
      /\ studio'.selected = studio.selected /\ studio'.fields = studio.fields
      /\ studio'.fieldsFor = studio.fieldsFor
  <2>1. IsStudio(studio)
    BY DEF Truthful, Shape
  <2>2. CASE RunPreview
    BY <2>1, <2>2 DEF RunPreview, IsStudio, NoJob
  <2>3. CASE ResetSession
    BY <2>1, <2>3 DEF ResetSession, IsStudio, NoJob
  <2> QED
    BY <2>2, <2>3
<1>4. Shape' /\ Watching' /\ Rendering' /\ Elementary' /\ SessionKept' /\ ~Editing' /\ Base' = sources[Page]
  BY <1>1, <1>3, PreviewBegins
<1>5. Inspected'
  BY <1>1, <1>2, <1>3, <1>4, InspectorKept DEF Truthful
<1> QED
  BY <1>4, <1>5 DEF Truthful

\* An edit is kept: after a drop nothing is selected, and the fields after a
\* change of an attribute are drawn anew, for the text is another one.
LEMMA KeptKeeps ==
  ASSUME Truthful, EditDone, ~ReportsError(build["studio"].outcome)
  PROVE  Truthful'
<1>1. studio.job.what \in {"drop", "edit"} /\ BeginPreview /\ UNCHANGED <<sources, byHand>>
  BY DEF EditDone
<1>2. /\ IsStudio(studio')
      /\ studio'.job.what = "preview"
      /\ studio'.session = studio.session /\ studio'.fields = studio.fields
      /\ studio'.selected = IF studio.job.what = "drop" THEN 0 ELSE studio.selected
      /\ studio'.fieldsFor = IF studio.job.what = "edit" THEN 0 ELSE studio.fieldsFor
  <2>1. IsStudio(studio)
    BY DEF Truthful, Shape
  <2>2. PICK text, dirty :
          studio' = [studio EXCEPT !.job = [NoJob EXCEPT !.what = "preview"], !.text = text, !.dirty = dirty,
                       !.selected = IF studio.job.what = "drop" THEN 0 ELSE studio.selected,
                       !.fieldsFor = IF studio.job.what = "edit" THEN 0 ELSE studio.fieldsFor]
    BY DEF EditDone, Selected
  <2> QED
    BY <2>1, <2>2 DEF IsStudio, NoJob
<1>3. Shape' /\ Watching' /\ Rendering' /\ Elementary' /\ SessionKept' /\ ~Editing'
  BY <1>1, <1>2, PreviewBegins
<1>4. Editing /\ studio.fieldsFor = studio.selected
  BY <1>1 DEF Editing, Truthful, Inspected
<1>5. ~byHand' /\ studio'.fields # <<>> => studio'.fieldsFor # studio'.selected
  <2>1. ~byHand /\ studio.fields # <<>> => studio.selected # 0
    BY <1>4 DEF Truthful, Inspected
  <2>2. studio.job.what = "edit" => studio.selected # 0
    BY DEF Truthful, Inspected
  <2> QED
    BY <1>1, <1>2, <1>4, <2>1, <2>2
<1>6. Inspected'
  BY <1>2, <1>3, <1>5 DEF Inspected
<1> QED
  BY <1>3, <1>6 DEF Truthful

\* A button of the page is clicked: the session with its event is rendered.
LEMMA ClickKeeps ==
  ASSUME Truthful, Click
  PROVE  Truthful'
<1>1. Idle /\ UNCHANGED <<sources, byHand, driver, spans, server>>
  BY DEF Click, Canvas, projectVars
<1>2. studio.job.what = "none" /\ Base = sources[Page]
  BY <1>1, IdleFacts
<1>3. PICK h : /\ studio' = [studio EXCEPT !.session = Append(studio.session, h),
                                           !.job = [NoJob EXCEPT !.what = "replay"]]
               /\ StartRender("studio", Append(studio.session, h), FALSE)
  BY DEF Click
<1>4. /\ IsStudio(studio')
      /\ studio'.job.what = "replay"
      /\ studio'.session = Append(studio.session, h)
      /\ studio'.preview = studio.preview
      /\ studio'.selected = studio.selected /\ studio'.fields = studio.fields
      /\ studio'.fieldsFor = studio.fieldsFor
  BY <1>3 DEF Truthful, Shape, IsStudio, NoJob
<1>5. /\ RenderShape'
      /\ render'["studio"].pc = "read" /\ ~render'["studio"].ids /\ render'["studio"].files = 0
      /\ render'["studio"].events = Append(studio.session, h)
      /\ render'["watcher"] = render["watcher"]
  BY <1>3, StartRendering DEF Truthful, Shape, Renderers
<1>6. ~Editing' /\ Base' = Base
  BY <1>1, <1>2, <1>4 DEF Editing, Base
<1>7. Shape'
  BY <1>1, <1>4, <1>5 DEF Truthful, Shape, IsStudio
<1>8. Watching'
  BY <1>1, <1>5, WatchingKept DEF Truthful
<1>9. Rendering'
  BY <1>4, <1>5 DEF Rendering, RenderingJob, ReadPage, OwnDriver
<1>10. Elementary'
  BY <1>1, <1>2, <1>4, <1>6 DEF Truthful, Elementary
<1>11. SessionKept'
  <2>1. PICK S : studio.session \in Seq(S)
    BY DEF Truthful, SessionKept
  <2>2. studio.session \in Seq(S \cup {h}) /\ h \in S \cup {h}
    BY <2>1
  <2>3. studio'.session \in Seq(S \cup {h})
    BY <1>4, <2>2
  <2>4. Replayed(studio.session)
    BY <1>2 DEF Truthful, SessionKept
  <2>5. ASSUME NEW s, Replayed(s) PROVE Replayed(s)'
    BY <1>1, <1>4, <1>6, <2>5 DEF Replayed
  <2>6. \E s \in Seq(S \cup {h}), e \in S \cup {h} : studio'.session = Append(s, e) /\ Replayed(s)'
    BY <1>4, <2>2, <2>4, <2>5
  <2> QED
    BY <1>4, <2>3, <2>6 DEF SessionKept
<1>12. Inspected'
  BY <1>1, <1>4, <1>6, InspectorKept DEF Truthful
<1> QED
  BY <1>7, <1>8, <1>9, <1>10, <1>11, <1>12 DEF Truthful

-----------------------------------------------------------------------------
\* What the steps that take a rendered page have in common.
LEMMA TakenRendering ==
  ASSUME Truthful, Released("studio"), UNCHANGED <<sources, byHand, server>>, IsStudio(studio'),
         studio'.job.what = "none", studio.job.what \in {"preview", "replay"},
         studio'.selected = studio.selected, studio'.fields = studio.fields, studio'.fieldsFor = studio.fieldsFor
  PROVE  Shape' /\ Watching' /\ Rendering' /\ Inspected' /\ Base = sources[Page] /\ Base' = sources[Page]
<1>1. /\ RenderShape' /\ render'["studio"].pc = "idle"
      /\ render'["watcher"] = render["watcher"]
  BY ReleasedRendering DEF Truthful, Shape, Renderers
<1>2. Base = sources[Page] /\ Base' = sources[Page] /\ ~Editing'
  BY DEF Base, Editing
<1>3. Shape'
  BY <1>1 DEF Truthful, Shape, IsStudio
<1>4. Watching' /\ Rendering'
  BY <1>1, WatchingKept, NothingRendered DEF Truthful
<1>5. Inspected'
  BY <1>2, InspectorKept DEF Truthful
<1> QED
  BY <1>2, <1>3, <1>4, <1>5

\* The new preview: its elements, its page and its session are those of the file.
LEMMA PreviewDoneKeeps ==
  ASSUME Truthful, PreviewDone
  PROVE  Truthful'
<1> DEFINE r == render["studio"]
           f == r.forest
<1>1. /\ studio.job.what = "preview" /\ r.pc = "done"
      /\ Released("studio") /\ UNCHANGED <<sources, byHand, driver, spans, server>>
  BY DEF PreviewDone, AtRender, projectVars
<1>2. r.ids /\ r.events = <<>>
  BY <1>1 DEF Truthful, Rendering, RenderingJob
<1>3. f # Failed =>
        /\ ~byHand => spans = sources[Page]
        /\ server.pc = "off" => f.events = <<>> /\ (~byHand => f.of = sources[Page])
  BY <1>1, <1>2 DEF Truthful, Rendering, ReadPage, OwnDriver
<1>4. /\ IsStudio(studio')
      /\ studio'.job.what = "none" /\ studio'.session = <<>>
      /\ studio'.preview = IF f = Failed THEN NoPreview ELSE [ok |-> TRUE, forest |-> f, spans |-> spans]
      /\ studio'.selected = studio.selected /\ studio'.fields = studio.fields
      /\ studio'.fieldsFor = studio.fieldsFor
  <2>1. studio' = [studio EXCEPT !.job = NoJob, !.session = <<>>,
          !.preview = IF f = Failed THEN NoPreview ELSE [ok |-> TRUE, forest |-> f, spans |-> spans]]
    BY DEF PreviewDone
  <2> HIDE DEF f
  <2> QED
    BY <2>1 DEF Truthful, Shape, IsStudio, NoJob
<1>5. Shape' /\ Watching' /\ Rendering' /\ Inspected' /\ Base' = sources[Page]
  BY <1>1, <1>4, TakenRendering
<1> HIDE DEF f, r
<1>6. CASE f = Failed
  <2>1. ~studio'.preview.ok /\ studio'.preview.spans = <<>>
    BY <1>4, <1>6 DEF NoPreview
  <2>2. Elementary' /\ \A events : Replayed(events)'
    BY <2>1 DEF Elementary, Replayed
  <2>3. SessionKept'
    BY <1>4, <2>2, EmptySeq DEF SessionKept
  <2> QED
    BY <1>5, <2>2, <2>3 DEF Truthful
<1>7. CASE f # Failed
  <2>1. studio'.preview.spans = spans /\ studio'.preview.forest = f
    BY <1>4, <1>7
  <2>2. Elementary' /\ Replayed(<<>>)'
    BY <1>1, <1>3, <1>5, <1>7, <2>1 DEF Elementary, Replayed
  <2>3. SessionKept'
    BY <1>4, <2>2, EmptySeq DEF SessionKept
  <2> QED
    BY <1>5, <2>2, <2>3 DEF Truthful
<1> QED
  BY <1>6, <1>7

\* A replay that failed takes its event back, and the page shown is still what the
\* rest of the session gives.
LEMMA ReplayDoneKeeps ==
  ASSUME Truthful, ReplayDone
  PROVE  Truthful'
<1> DEFINE r == render["studio"]
           f == r.forest
<1>1. /\ studio.job.what = "replay" /\ r.pc = "done"
      /\ Released("studio") /\ UNCHANGED <<sources, byHand, driver, spans, server>>
  BY DEF ReplayDone, AtRender, projectVars
<1>2. r.events = studio.session
  BY <1>1 DEF Truthful, Rendering, RenderingJob
<1>3. f # Failed /\ server.pc = "off" => f.events = studio.session /\ (~byHand => f.of = sources[Page])
  BY <1>1, <1>2 DEF Truthful, Rendering, OwnDriver
<1>4. /\ IsStudio(studio')
      /\ studio'.job.what = "none" /\ studio'.session = SessionAfter(f)
      /\ studio'.preview = IF f = Failed THEN studio.preview ELSE [ok |-> TRUE, forest |-> f, spans |-> <<>>]
      /\ studio'.selected = studio.selected /\ studio'.fields = studio.fields
      /\ studio'.fieldsFor = studio.fieldsFor
  <2>1. studio' = [studio EXCEPT !.job = NoJob, !.session = SessionAfter(f),
          !.preview = IF f = Failed THEN studio.preview ELSE [ok |-> TRUE, forest |-> f, spans |-> <<>>]]
    BY DEF ReplayDone
  <2> HIDE DEF f
  <2> QED
    BY <2>1 DEF Truthful, Shape, IsStudio, NoJob
<1>5. Shape' /\ Watching' /\ Rendering' /\ Inspected' /\ Base = sources[Page] /\ Base' = sources[Page]
  BY <1>1, <1>4, TakenRendering
<1>6. PICK S : \E s \in Seq(S), h \in S : studio.session = Append(s, h) /\ Replayed(s)
  BY <1>1 DEF Truthful, SessionKept
<1>7. PICK s \in Seq(S), h \in S : studio.session = Append(s, h) /\ Replayed(s)
  BY <1>6
<1> HIDE DEF f, r
<1>8. CASE f = Failed
  <2>1. SubSeq(Append(s, h), 1, Len(Append(s, h)) - 1) = s
    BY <1>7
  <2>2. studio'.session = s
    BY <1>4, <1>7, <1>8, <2>1 DEF SessionAfter
  <2>3. studio'.preview = studio.preview
    BY <1>4, <1>8
  <2>4. Elementary' /\ Replayed(s)'
    BY <1>1, <1>5, <1>7, <2>3 DEF Truthful, Elementary, Replayed
  <2>5. SessionKept'
    BY <1>4, <1>7, <2>2, <2>4 DEF SessionKept
  <2> QED
    BY <1>5, <2>4, <2>5 DEF Truthful
<1>9. CASE f # Failed
  <2>1. /\ studio'.preview.spans = <<>> /\ studio'.preview.forest = f
        /\ studio'.session = studio.session
    BY <1>4, <1>9 DEF SessionAfter
  <2>2. Elementary' /\ Replayed(studio.session)'
    <3>1. Elementary'
      BY <2>1 DEF Elementary
    <3>2. /\ server'.pc = "off" => studio'.preview.forest.events = studio'.session
          /\ server'.pc = "off" /\ ~byHand' => studio'.preview.forest.of = Base'
      BY <1>1, <1>3, <1>5, <1>9, <2>1
    <3> QED
      BY <2>1, <3>1, <3>2 DEF Replayed
  <2>3. SessionKept'
    BY <1>4, <2>1, <2>2 DEF Truthful, SessionKept
  <2> QED
    BY <1>5, <2>2, <2>3 DEF Truthful
<1> QED
  BY <1>8, <1>9

-----------------------------------------------------------------------------
\* What the others do is not seen by Studio, unless they write the page or start a
\* server.
LEMMA StudioUnchanged ==
  ASSUME Truthful, studio' = studio, RenderShape', sources' = [f \in FileSet |-> sources'[f]],
         ~byHand' => ~byHand /\ sources' = sources, server'.pc = "off" => server.pc = "off"
  PROVE  Shape' /\ Elementary' /\ SessionKept' /\ Inspected'
<1>1. Editing' = Editing /\ (~byHand' => ~byHand /\ Base' = Base)
  BY DEF Editing, Base
<1>2. Shape'
  BY DEF Truthful, Shape, IsStudio
<1>3. Elementary' /\ SessionKept'
  BY <1>1, ViewKept DEF Truthful
<1>4. Inspected'
  BY <1>1, InspectorKept DEF Truthful, Inspected
<1> QED
  BY <1>2, <1>3, <1>4

\* The next file is read: a rendering r has become s.
OneMoreFile(r, s) ==
  /\ r.pc = "read" /\ s.pc = "read" /\ r.files < Len(Files) /\ s.files = r.files + 1
  /\ s.read = [f \in FileSet |-> IF f = Files[r.files + 1] THEN sources[f] ELSE r.read[f]]

\* While nobody else writes, a text that was read is still the file's.
LEMMA FilesRead ==
  ASSUME NEW r, NEW s, OneMoreFile(r, s),
         r.files \in Nat, \A k \in 1..r.files : r.read[Files[k]] = sources[Files[k]]
  PROVE  s.files \in Nat /\ \A k \in 1..s.files : s.read[Files[k]] = sources[Files[k]]
<1>1. s.files \in Nat
  BY DEF OneMoreFile
<1>2. ASSUME NEW k \in 1..s.files PROVE s.read[Files[k]] = sources[Files[k]]
  <2>1. Len(Files) \in Nat /\ DOMAIN Files = 1..Len(Files)
    BY ProjectAssumption
  <2>2. k \in 1..Len(Files) /\ (k = r.files + 1 \/ k \in 1..r.files)
    BY <1>1, <1>2, <2>1 DEF OneMoreFile
  <2>3. Files[k] \in FileSet
    BY <2>1, <2>2 DEF FileSet
  <2> QED
    BY <2>2, <2>3 DEF OneMoreFile
<1> QED
  BY <1>1, <1>2

\* A step of a rendering that leaves it at another place, with what it has read.
LEMMA RenderingMoves ==
  ASSUME RenderShape, NEW q \in Renderers, NEW pc, render' = [render EXCEPT ![q].pc = pc]
  PROVE  /\ RenderShape' /\ \A r \in Renderers \ {q} : render'[r] = render[r]
         /\ render'[q].pc = pc /\ render'[q].read = render[q].read
         /\ render'[q].ids = render[q].ids /\ render'[q].events = render[q].events
<1>1. PICK v : v = [render[q] EXCEPT !.pc = pc]
  OBVIOUS
<1>2. /\ IsRender(v) /\ v.pc = pc /\ v.read = render[q].read
      /\ v.ids = render[q].ids /\ v.events = render[q].events
  <2>1. IsRender(render[q])
    BY DEF RenderShape
  <2> QED
    BY <1>1, <2>1 DEF IsRender
<1>3. render' = [render EXCEPT ![q] = v]
  BY <1>1 DEF RenderShape
<1> QED
  BY <1>2, <1>3, RenderChanged

\* A step of a rendering, by its kinds.
LEMMA RenderingStep ==
  ASSUME RenderShape, NEW q \in Renderers, RenderStep(q)
  PROVE  /\ RenderShape' /\ \A r \in Renderers \ {q} : render'[r] = render[r]
         /\ render[q].pc # "idle" /\ render'[q].ids = render[q].ids /\ render'[q].events = render[q].events
         /\ server' = server
         /\ \/ OneMoreFile(render[q], render'[q]) /\ UNCHANGED <<driver, spans>>
            \/ /\ render'[q].pc = "done" /\ render'[q].forest = Failed
               /\ UNCHANGED <<driver, spans>>
            \/ /\ render[q].pc = "read" /\ render[q].files = Len(Files)
               /\ render'[q].pc = "driver" /\ render'[q].read = render[q].read
               /\ UNCHANGED <<driver, spans>>
            \/ /\ render[q].pc = "driver" /\ render'[q].pc = (IF render[q].ids THEN "spans" ELSE "moc")
               /\ render'[q].read = render[q].read
               /\ driver' = [read |-> render[q].read, events |-> render[q].events] /\ spans' = spans
            \/ /\ render[q].pc = "spans" /\ render'[q].pc = "moc" /\ render'[q].read = render[q].read
               /\ spans' = render[q].read[Page] /\ driver' = driver
            \/ /\ render[q].pc = "moc" /\ render'[q].pc = "done"
               /\ render'[q].forest = Forest(driver.read[Page], driver.events)
               /\ UNCHANGED <<driver, spans>>
<1>1. CASE ReadFile(q) /\ Parses(sources[Files[render[q].files + 1]])
  <2>1. PICK v : v = [render[q] EXCEPT !.files = @ + 1,
                        !.read = [f \in FileSet |-> IF f = Files[render[q].files + 1] THEN sources[f]
                                                    ELSE render[q].read[f]]]
    OBVIOUS
  <2>2. /\ IsRender(v) /\ v.pc = render[q].pc /\ v.ids = render[q].ids /\ v.events = render[q].events
        /\ v.files = render[q].files + 1
        /\ v.read = [f \in FileSet |-> IF f = Files[render[q].files + 1] THEN sources[f] ELSE render[q].read[f]]
    <3>1. IsRender(render[q])
      BY DEF RenderShape
    <3> QED
      BY <2>1, <3>1 DEF IsRender
  <2>3. /\ render' = [render EXCEPT ![q] = v] /\ UNCHANGED <<driver, spans, server>>
        /\ render[q].pc = "read" /\ render[q].files < Len(Files)
    BY <1>1, <2>1 DEF ReadFile, AtRender, RenderShape
  <2> QED
    BY <2>2, <2>3, RenderChanged DEF OneMoreFile
<1>2. CASE \/ ReadFile(q) /\ ~Parses(sources[Files[render[q].files + 1]])
           \/ GateRead(q) /\ \E f \in FileSet : LintErrors(render[q].read[f])
  <2>1. Rendered(q, Failed) /\ UNCHANGED <<driver, spans, server>> /\ render[q].pc = "read"
    BY <1>2 DEF ReadFile, GateRead, AtRender
  <2> QED
    BY <2>1, DoneRendering
<1>3. CASE GateRead(q) /\ ~\E f \in FileSet : LintErrors(render[q].read[f])
  <2>1. /\ render' = [render EXCEPT ![q].pc = "driver"] /\ UNCHANGED <<driver, spans, server>>
        /\ render[q].pc = "read" /\ render[q].files = Len(Files)
    BY <1>3 DEF GateRead, AtRender
  <2> QED
    BY <2>1, RenderingMoves
<1>4. CASE WriteDriver(q)
  <2>1. PICK pc : pc = IF render[q].ids THEN "spans" ELSE "moc"
    OBVIOUS
  <2>2. /\ render' = [render EXCEPT ![q].pc = pc] /\ UNCHANGED <<spans, server>>
        /\ driver' = [read |-> render[q].read, events |-> render[q].events]
        /\ render[q].pc = "driver"
    BY <1>4, <2>1 DEF WriteDriver, AtRender, RenderShape
  <2>3. /\ RenderShape' /\ \A r \in Renderers \ {q} : render'[r] = render[r]
        /\ render'[q].pc = pc /\ render'[q].read = render[q].read
        /\ render'[q].ids = render[q].ids /\ render'[q].events = render[q].events
    BY <2>2, RenderingMoves
  <2> QED
    BY <2>1, <2>2, <2>3
<1>5. CASE WriteSpans(q)
  <2>1. /\ render' = [render EXCEPT ![q].pc = "moc"] /\ UNCHANGED <<driver, server>>
        /\ spans' = render[q].read[Page] /\ render[q].pc = "spans"
    BY <1>5 DEF WriteSpans, AtRender
  <2> QED
    BY <2>1, RenderingMoves
<1>6. CASE Interpret(q)
  <2>1. PICK forest \in {Failed, Forest(driver.read[Page], driver.events)} : Rendered(q, forest)
    BY <1>6 DEF Interpret
  <2>2. UNCHANGED <<driver, spans, server>> /\ render[q].pc = "moc"
    BY <1>6 DEF Interpret, AtRender
  <2> QED
    BY <2>1, <2>2, DoneRendering
<1> QED
  BY <1>1, <1>2, <1>3, <1>4, <1>5, <1>6 DEF RenderStep

\* Studio's own rendering goes on, on the files as Studio sees them.
LEMMA OwnRenderingKeeps ==
  ASSUME Truthful, RenderStep("studio"), UNCHANGED <<projectVars, studio>>
  PROVE  Truthful'
<1> DEFINE r == render["studio"]
<1>0. UNCHANGED <<sources, byHand>>
  BY DEF projectVars
<1>1. /\ RenderShape' /\ render'["watcher"] = render["watcher"]
      /\ r.pc # "idle" /\ r'.ids = r.ids /\ r'.events = r.events
      /\ server' = server
  BY RenderingStep DEF Truthful, Shape, Renderers
<1>2. \/ OneMoreFile(r, r') /\ UNCHANGED <<driver, spans>>
      \/ r'.pc = "done" /\ r'.forest = Failed
      \/ r.pc = "read" /\ r.files = Len(Files) /\ r'.pc = "driver" /\ r'.read = r.read
      \/ /\ r.pc = "driver" /\ r'.pc = (IF r.ids THEN "spans" ELSE "moc") /\ r'.read = r.read
         /\ driver' = [read |-> r.read, events |-> r.events]
      \/ /\ r.pc = "spans" /\ r'.pc = "moc" /\ r'.read = r.read
         /\ spans' = r.read[Page] /\ driver' = driver
      \/ /\ r.pc = "moc" /\ r'.pc = "done" /\ UNCHANGED <<driver, spans>>
         /\ r'.forest = Forest(driver.read[Page], driver.events)
  BY RenderingStep DEF Truthful, Shape, Renderers
<1>3. RenderingJob(r) /\ ReadPage(r) /\ OwnDriver(r)
  BY DEF Truthful, Rendering
<1> HIDE DEF r
<1>4. RenderingJob(r)'
  BY <1>1, <1>3 DEF RenderingJob
<1>5. ReadPage(r)'
  <2> SUFFICES ASSUME ~byHand PROVE ReadPage(r)'
    BY <1>0 DEF ReadPage
  <2>1. CASE OneMoreFile(r, r')
    <3>1. r'.files \in Nat /\ \A k \in 1..r'.files : r'.read[Files[k]] = sources[Files[k]]
      <4>1. r.files \in Nat /\ \A k \in 1..r.files : r.read[Files[k]] = sources[Files[k]]
        BY <1>3, <2>1 DEF ReadPage, OneMoreFile
      <4> QED
        BY <2>1, <4>1, FilesRead
    <3> QED
      BY <1>0, <2>1, <3>1 DEF ReadPage, OneMoreFile
  <2>2. CASE r.pc = "read" /\ r.files = Len(Files) /\ r'.pc = "driver" /\ r'.read = r.read
    <3>1. PICK k \in DOMAIN Files : Page = Files[k]
      BY ProjectAssumption DEF FileSet
    <3>2. k \in 1..Len(Files)
      BY ProjectAssumption
    <3> QED
      BY <1>0, <1>3, <2>2, <3>1, <3>2 DEF ReadPage
  <2> QED
    BY <1>0, <1>1, <1>2, <1>3, <2>1, <2>2 DEF ReadPage
<1>6. OwnDriver(r)'
  BY <1>0, <1>1, <1>2, <1>3 DEF OwnDriver, ReadPage, Forest, OneMoreFile
<1>7. Rendering'
  BY <1>4, <1>5, <1>6 DEF Rendering, r
<1>8. Watching'
  BY <1>1, WatchingKept DEF Truthful
<1>9. Shape' /\ Elementary' /\ SessionKept' /\ Inspected'
  BY <1>0, <1>1, StudioUnchanged DEF Truthful, Shape
<1> QED
  BY <1>7, <1>8, <1>9 DEF Truthful

\* The server's rendering goes on: it writes the driver, but no elements.
LEMMA WatcherRenderingKeeps ==
  ASSUME Truthful, RenderStep("watcher"), UNCHANGED <<projectVars, studio>>
  PROVE  Truthful'
<1>0. UNCHANGED <<sources, byHand>>
  BY DEF projectVars
<1>1. /\ RenderShape' /\ render'["studio"] = render["studio"]
      /\ render["watcher"].pc # "idle" /\ render'["watcher"].ids = render["watcher"].ids
      /\ server' = server
      /\ \/ render["watcher"].ids \/ render["watcher"].pc = "spans"
         \/ OneMoreFile(render["watcher"], render'["watcher"]) /\ spans' = spans
         \/ spans' = spans /\ render'["watcher"].pc # "spans"
  <2>1. RenderShape /\ "watcher" \in Renderers /\ Renderers \ {"watcher"} = {"studio"}
    BY DEF Truthful, Shape, Renderers
  <2> QED
    BY <2>1, RenderingStep
<1>2. spans' = spans /\ server.pc # "off" /\ ~render'["watcher"].ids /\ render'["watcher"].pc # "spans"
  BY <1>1 DEF Truthful, Watching, OneMoreFile
<1>3. Watching'
  BY <1>1, <1>2 DEF Truthful, Watching, IsServer
<1>4. Rendering'
  BY <1>0, <1>1, <1>2, RenderingKept DEF Truthful
<1>5. Shape' /\ Elementary' /\ SessionKept' /\ Inspected'
  BY <1>0, <1>1, StudioUnchanged DEF Truthful, Shape
<1> QED
  BY <1>3, <1>4, <1>5 DEF Truthful

\* The server starts, or its watcher goes on.
LEMMA ServerKeeps ==
  ASSUME Truthful, ServeCommand \/ Server
  PROVE  Truthful'
<1>0. UNCHANGED <<sources, byHand, studio>> /\ UNCHANGED <<driver, spans>>
  BY DEF ServeCommand, Server, Serve, FirstRendered, Watcher, WatchAgain, WatchRendered, StoreThenBump, projectVars
<1>1. RenderShape'
      /\ render'["studio"] = render["studio"] /\ server'.pc # "off" /\ IsServer(server')
      /\ ~render'["watcher"].ids /\ render'["watcher"].pc # "spans"
  <2>1. CASE Serve \/ WatchAgain
    <3>1. StartRender("watcher", <<>>, FALSE)
      BY <2>1 DEF Serve, WatchAgain
    <3>2. server'.pc # "off" /\ IsServer(server')
      BY <2>1 DEF Serve, WatchAgain, Truthful, Watching, IsServer
    <3> QED
      BY <3>1, <3>2, StartRendering DEF Truthful, Shape, Renderers
  <2>2. CASE FirstRendered \/ WatchRendered
    <3>1. Released("watcher")
      BY <2>2 DEF FirstRendered, WatchRendered
    <3>2. server'.pc # "off" /\ IsServer(server')
      <4>1. CASE FirstRendered
        BY <4>1 DEF FirstRendered, IsServer
      <4>2. CASE WatchRendered
        <5>1. PICK last : \/ server' = [server EXCEPT !.pc = "sleep"]
                          \/ server' = [server EXCEPT !.pc = "store", !.last = last]
          BY <4>2 DEF WatchRendered
        <5> QED
          BY <5>1 DEF Truthful, Watching, IsServer
      <4> QED
        BY <2>2, <4>1, <4>2
    <3> QED
      BY <3>1, <3>2, ReleasedRendering DEF Truthful, Shape, Renderers
  <2>3. CASE StoreThenBump
    <3>1. render' = render /\ server'.pc # "off" /\ IsServer(server')
      BY <2>3 DEF StoreThenBump, Truthful, Watching, IsServer
    <3> QED
      BY <3>1 DEF Truthful, Shape, RenderShape, IsRender, Watching
  <2> QED
    BY <2>1, <2>2, <2>3 DEF ServeCommand, Server, Watcher
<1>2. Watching'
  BY <1>1 DEF Watching, IsServer
<1>3. Rendering'
  BY <1>0, <1>1, RenderingKept DEF Truthful
<1>4. Shape' /\ Elementary' /\ SessionKept' /\ Inspected'
  BY <1>0, <1>1, StudioUnchanged DEF Truthful, Shape
<1> QED
  BY <1>2, <1>3, <1>4 DEF Truthful

\* People with an editor, builds, and the browser.
LEMMA OthersKeep ==
  ASSUME Truthful, studio' = studio, UNCHANGED <<driver, spans, render, server>>,
         WriteByHand \/ UNCHANGED projectVars
  PROVE  Truthful'
<1>1. /\ sources' = [f \in FileSet |-> sources'[f]]
      /\ ~byHand' => ~byHand /\ sources' = sources
  <2>1. CASE WriteByHand
    BY <2>1 DEF WriteByHand, WriteFile, Truthful, Shape
  <2>2. CASE UNCHANGED projectVars
    BY <2>2 DEF projectVars, Truthful, Shape
  <2> QED
    BY <2>1, <2>2
<1>2. RenderShape'
  BY DEF Truthful, Shape, RenderShape, IsRender
<1>3. Watching' /\ Rendering'
  BY <1>1, WatchingKept, RenderingKept DEF Truthful
<1>4. Shape' /\ Elementary' /\ SessionKept' /\ Inspected'
  BY <1>1, <1>2, StudioUnchanged
<1> QED
  BY <1>3, <1>4 DEF Truthful

-----------------------------------------------------------------------------
LEMMA TruthfulStep == Truthful /\ [Next]_vars => Truthful'
<1> SUFFICES ASSUME Truthful, [Next]_vars PROVE Truthful'
  OBVIOUS
<1>1. CASE StudioStep
  <2>1. CASE EditDone
    BY <2>1, RevertKeeps, KeptKeeps
  <2> QED
    BY <1>1, <2>1, PreviewDoneKeeps, CheckKeeps, ReplayDoneKeeps DEF StudioStep
<1>2. CASE User
  BY <1>2, ViewActions, CheckKeeps, RunPreviewKeeps, RedrawKeeps, EditKeeps, PickKeeps, ClickKeeps DEF User
<1>3. CASE Renderer
  <2>1. PICK r \in Renderers : RenderStep(r) /\ UNCHANGED <<projectVars, studio>>
    BY <1>3 DEF Renderer
  <2> QED
    BY <2>1, OwnRenderingKeeps, WatcherRenderingKeeps DEF Renderers
<1>4. CASE ServeCommand \/ Server
  BY <1>4, ServerKeeps
<1>5. CASE Person
  BY <1>5, OthersKeep DEF Person, previewVars
<1>6. CASE (\E p \in desk.terminals : Terminal(p)) \/ Compiler
  BY <1>6, OthersKeep DEF Terminal, Compiler, previewVars
<1>7. CASE Connecting \/ Streaming \/ Answering \/ Showing \/ Network
  BY <1>7, OthersKeep DEF Connecting, Streaming, Answering, Showing, Network, Elsewhere, Connect, ReadVersion,
       ReadAndPush, AnswerFetch, ShowFetched, DropStream
<1>8. CASE UNCHANGED vars
  BY <1>8, OthersKeep DEF vars, previewVars
<1> QED
  BY <1>1, <1>2, <1>3, <1>4, <1>5, <1>6, <1>7, <1>8 DEF Next

\* Before anything is shown, there is nothing to be wrong.
LEMMA TruthfulInit == Init => Truthful
<1> SUFFICES ASSUME Init PROVE Truthful
  OBVIOUS
<1>1. /\ studio.job.what = "none" /\ studio.preview = NoPreview /\ studio.session = <<>>
      /\ studio.fields = <<>> /\ IsStudio(studio)
  BY DEF Init, IsStudio, NoJob
<1>2. render = [r \in Renderers |-> AtRest] /\ server.pc = "off"
  BY DEF Init, InitPreview
<1>3. AtRest.pc = "idle" /\ ~AtRest.ids /\ IsRender(AtRest)
  BY DEF AtRest, IsRender
<1>4. Shape
  BY <1>1, <1>2, <1>3 DEF Shape, RenderShape, Init
<1>5. render["studio"] = AtRest /\ render["watcher"] = AtRest
  BY <1>2 DEF Renderers
<1>6. Watching /\ Rendering
  <2>1. IsServer(server)
    BY DEF Init, InitPreview, IsServer
  <2> QED
    BY <1>3, <1>5, <2>1 DEF Watching, Rendering, RenderingJob, ReadPage, OwnDriver
<1>7. Elementary /\ SessionKept
  BY <1>1, EmptySeq DEF Elementary, SessionKept, Replayed, NoPreview
<1>8. Inspected
  BY <1>1 DEF Inspected, Editing
<1> QED
  BY <1>4, <1>6, <1>7, <1>8 DEF Truthful

\* Whatever Studio, its server, the builds and the people beside it do, what Studio
\* shows belongs to the text it is said to belong to.
THEOREM TruthfulHolds == Spec => []Truthful
BY TruthfulInit, TruthfulStep, PTL DEF Spec

\* While only the designer changes the page, its edits land on the elements that are
\* shown (app.rs, the selection bridge).
THEOREM DesignerEditsLandAlways == Spec => []DesignerEditsLand
<1>1. Truthful => DesignerEditsLand
  <2> SUFFICES ASSUME Truthful, ~byHand, Idle, studio.preview.spans # <<>>
               PROVE  /\ Elements(studio.preview.spans) = Elements(sources[Page])
                      /\ (studio.fieldsFor = studio.selected /\ studio.fields # <<>>) =>
                           /\ HasSpan(studio.selected) /\ studio.fields[1].at = SpanOf(studio.selected)
                           /\ studio.fields[1].value \in AttrAt(sources[Page], studio.fields[1].at)
    BY DEF DesignerEditsLand
  <2>1. studio.job.what = "none" /\ Base = sources[Page]
    BY IdleFacts
  <2>2. studio.preview.spans = Base
    BY <2>1 DEF Truthful, Elementary
  <2> QED
    BY <2>1, <2>2 DEF Truthful, Inspected, HasSpan, SpanOf
<1> QED
  BY <1>1, TruthfulHolds, PTL

\* The page on the canvas is what the session gives, replayed from the start on the
\* page's file (dispatch_event, run_preview).
THEOREM SessionReplaysAlways == Spec => []SessionReplays
<1>1. Truthful => SessionReplays
  BY IdleFacts DEF SessionReplays, Truthful, SessionKept, Replayed
<1> QED
  BY <1>1, TruthfulHolds, PTL
=============================================================================
