------------------------------ MODULE Preview -------------------------------
(***************************************************************************)
(* motoview preview (src/compiler/src/main.rs, project.rs): the page is    *)
(* compiled into a driver program, .mvbuild/preview.mo, that replays a     *)
(* recorded session and prints the page; moc interprets whatever driver is *)
(* on disk by then.  preview --serve keeps a thread that renders again and *)
(* again, and pushes each new forest to the browsers over an event stream; *)
(* the browser also fetches the forest once, when it loads.                *)
(***************************************************************************)
EXTENDS MviewProject

CONSTANTS
  Trapping,   \* handlers whose code traps
  MaxDrops    \* how often the event stream is lost

VARIABLES
  driver,   \* .mvbuild/preview.mo
  spans,    \* .mvbuild/preview.srcmap.json: the text whose elements it lists
  render,   \* renderer -> [pc, events, ids, files, read, forest]; files: how many it has read
  server,   \* the server's main and watcher threads: [pc, forest, version, last]
  stream,   \* the thread of the browser's event stream: [pc, version, seen]
  browser   \* [shown, fetched, answer, overtaken, drops]

previewVars == <<driver, spans, render, server, stream, browser>>

Renderers == {"studio", "watcher"}
NoForest == [of |-> <<>>, events |-> <<>>]
Forest(text, events) == [of |-> text, events |-> events]
NothingRead == [f \in FileSet |-> <<>>]
AtRest == [pc |-> "idle", events |-> <<>>, ids |-> FALSE, files |-> 0, read |-> NothingRead, forest |-> NoForest]
NoDriver == [read |-> NothingRead, events |-> <<>>]

InitPreview ==
  /\ driver = NoDriver
  /\ spans = <<>>
  /\ render = [r \in Renderers |-> AtRest]
  /\ server = [pc |-> "off", forest |-> NoForest, version |-> 0, last |-> NoForest]
  /\ stream = [pc |-> "closed", version |-> 0, seen |-> 0]
  /\ browser = [shown |-> NoForest, fetched |-> "no", answer |-> NoForest, overtaken |-> FALSE, drops |-> 0]

-----------------------------------------------------------------------------
(* One rendering, by Studio's command or by the server's thread.           *)

AtRender(r, pc) == render[r].pc = pc
Rendered(r, forest) == render' = [render EXCEPT ![r].pc = "done", ![r].forest = forest]
Failed == NoForest

StartRender(r, events, ids) ==
  /\ AtRender(r, "idle")
  /\ render' = [render EXCEPT ![r] = [AtRest EXCEPT !.pc = "read", !.events = events, !.ids = ids]]

\* One file is read and parsed; the first that does not parse ends the rendering.
ReadFile(r) ==
  LET file == Files[render[r].files + 1]
      read == [f \in FileSet |-> IF f = file THEN sources[f] ELSE render[r].read[f]]
  IN  /\ AtRender(r, "read") /\ render[r].files < Len(Files)
      /\ IF Parses(sources[file]) THEN render' = [render EXCEPT ![r].files = @ + 1, ![r].read = read]
         ELSE Rendered(r, Failed)
      /\ UNCHANGED <<driver, spans, server, stream, browser>>

\* The same gate as a build's, on what was read.
GateRead(r) ==
  /\ AtRender(r, "read") /\ render[r].files = Len(Files)
  /\ IF \E f \in FileSet : LintErrors(render[r].read[f]) THEN Rendered(r, Failed)
     ELSE render' = [render EXCEPT ![r].pc = "driver"]
  /\ UNCHANGED <<driver, spans, server, stream, browser>>

WriteDriver(r) ==
  /\ AtRender(r, "driver")
  /\ driver' = [read |-> render[r].read, events |-> render[r].events]
  /\ render' = [render EXCEPT ![r].pc = IF render[r].ids THEN "spans" ELSE "moc"]
  /\ UNCHANGED <<spans, server, stream, browser>>

WriteSpans(r) ==
  /\ AtRender(r, "spans")
  /\ spans' = render[r].read[Page]
  /\ render' = [render EXCEPT ![r].pc = "moc"]
  /\ UNCHANGED <<driver, server, stream, browser>>

\* A type error in any file, or a trap of a replayed handler, leaves no forest.
Interpret(r) ==
  /\ AtRender(r, "moc")
  /\ Rendered(r, IF (\E f \in FileSet : TypeErrors(driver.read[f]))
                    \/ (\E k \in DOMAIN driver.events : driver.events[k] \in Trapping)
                 THEN Failed ELSE Forest(driver.read[Page], driver.events))
  /\ UNCHANGED <<driver, spans, server, stream, browser>>

RenderStep(r) == ReadFile(r) \/ GateRead(r) \/ WriteDriver(r) \/ WriteSpans(r) \/ Interpret(r)
Released(r) == render' = [render EXCEPT ![r] = AtRest]

-----------------------------------------------------------------------------
(* The server: a first rendering before it listens, then its watcher.      *)

Serve ==
  /\ server.pc = "off"
  /\ StartRender("watcher", <<>>, FALSE)
  /\ server' = [server EXCEPT !.pc = "first"]
  /\ UNCHANGED <<driver, spans, stream, browser>>

FirstRendered ==
  /\ server.pc = "first" /\ AtRender("watcher", "done")
  /\ LET f == render["watcher"].forest
     IN  server' = [pc |-> "sleep", forest |-> f, version |-> IF f = Failed THEN 0 ELSE 1, last |-> f]
  /\ Released("watcher")
  /\ UNCHANGED <<driver, spans, stream, browser>>

WatchAgain ==
  /\ server.pc = "sleep"
  /\ StartRender("watcher", <<>>, FALSE)
  /\ server' = [server EXCEPT !.pc = "rendering"]
  /\ UNCHANGED <<driver, spans, stream, browser>>

WatchRendered ==
  /\ server.pc = "rendering" /\ AtRender("watcher", "done")
  /\ LET f == render["watcher"].forest
     IN  server' = IF f \in {Failed, server.last} THEN [server EXCEPT !.pc = "sleep"]
                   ELSE [server EXCEPT !.pc = "store", !.last = f]
  /\ Released("watcher")
  /\ UNCHANGED <<driver, spans, stream, browser>>

BumpThenStore ==  \* mutant: the version first
  \/ /\ server.pc = "store" /\ stream.pc # "reading"
     /\ server' = [server EXCEPT !.pc = "bump", !.version = @ + 1]
     /\ UNCHANGED <<driver, spans, render, stream, browser>>
  \/ /\ server.pc = "bump"
     /\ server' = [server EXCEPT !.pc = "sleep", !.forest = server.last]
     /\ UNCHANGED <<driver, spans, render, stream, browser>>
\* The forest is stored first; the version is then counted up under its own lock,
\* which a stream's thread holds while it reads the two.
StoreThenBump ==
  \/ /\ server.pc = "store"
     /\ server' = [server EXCEPT !.pc = "bump", !.forest = server.last]
     /\ UNCHANGED <<driver, spans, render, stream, browser>>
  \/ /\ server.pc = "bump" /\ stream.pc # "reading"
     /\ server' = [server EXCEPT !.pc = "sleep", !.version = @ + 1]
     /\ UNCHANGED <<driver, spans, render, stream, browser>>

Watcher == WatchAgain \/ WatchRendered \/ StoreThenBump

-----------------------------------------------------------------------------
(* The browser and the thread of its stream.                               *)

Listening == server.pc \notin {"off", "first"}

\* The page loads: it asks for the forest once and opens the stream; a stream
\* that was lost is opened again.
Connect ==
  /\ Listening /\ stream.pc = "closed"
  /\ stream' = [pc |-> "polling", version |-> 0, seen |-> 0]
  /\ browser' = IF browser.fetched = "no" THEN [browser EXCEPT !.fetched = "asked"] ELSE browser
  /\ UNCHANGED <<driver, spans, render, server>>

ReadVersion ==
  /\ stream.pc = "polling"
  /\ stream' = [stream EXCEPT !.pc = "reading", !.version = server.version]
  /\ UNCHANGED <<driver, spans, render, server, browser>>

\* A version not seen yet is pushed with the forest, and shown.
ReadAndPush ==
  /\ stream.pc = "reading"
  /\ stream' = [stream EXCEPT !.pc = "polling", !.seen = stream.version]
  /\ browser' = IF stream.version = stream.seen THEN browser
                ELSE [browser EXCEPT !.shown = server.forest, !.overtaken = @ \/ browser.fetched = "answered"]
  /\ UNCHANGED <<driver, spans, render, server>>

DropStream ==
  /\ stream.pc = "polling" /\ browser.drops < MaxDrops
  /\ stream' = [stream EXCEPT !.pc = "closed"]
  /\ browser' = [browser EXCEPT !.drops = @ + 1]
  /\ UNCHANGED <<driver, spans, render, server>>

AnswerFetch ==
  /\ browser.fetched = "asked"
  /\ browser' = [browser EXCEPT !.fetched = "answered", !.answer = server.forest]
  /\ UNCHANGED <<driver, spans, render, server, stream>>

\* The answer is shown when it arrives, over what was pushed meanwhile too.
ShowFetched ==
  /\ browser.fetched = "answered"
  /\ browser' = [browser EXCEPT !.fetched = "shown", !.shown = browser.answer]
  /\ UNCHANGED <<driver, spans, render, server, stream>>

-----------------------------------------------------------------------------
\* Once the sources stop changing, and if they compile and render, a browser
\* comes to show them and goes on showing them, however its stream was lost and
\* whatever was being rendered when they changed (preview_serve); a browser whose
\* first answer a push overtook is excepted: it shows the older forest last.
PreviewCatchesUp ==
  <>[](Listening /\ (\A f \in FileSet : Passes(sources[f]) /\ ~TypeErrors(sources[f])) =>
         browser.overtaken \/ browser.shown = Forest(sources[Page], <<>>))
=============================================================================
