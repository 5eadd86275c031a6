--------------------------- MODULE ProjectBuild ----------------------------
(***************************************************************************)
(* motoview build and motoview check (src/compiler/src/main.rs,            *)
(* project.rs).  A build reads every file, refuses the whole if one does   *)
(* not parse or has a lint error, and then writes the actor and the map of *)
(* its lines, one after the other; a check goes on to have moc check the   *)
(* actor that is on disk by then.  Builds of several terminals, and the    *)
(* checks Studio starts, run at once, and one may be interrupted.          *)
(***************************************************************************)
EXTENDS MviewProject

CONSTANTS Builders

VARIABLES
  actor,     \* .mvbuild/main.mo: file -> the text it was generated from
  actorMap,  \* .mvbuild/main.mo.map: the same
  build      \* builder -> [command, pc, read, outcome]

buildVars == <<actor, actorMap, build>>

Finished == [command |-> "", pc |-> "idle", read |-> <<>>, outcome |-> ""]
InitBuild == actor = <<>> /\ actorMap = <<>> /\ build = [p \in Builders |-> Finished]

\* The files read so far, as a function of their names.
ReadBy(p) ==
  [f \in {Files[k] : k \in DOMAIN build[p].read} |-> build[p].read[CHOOSE k \in DOMAIN build[p].read : Files[k] = f]]
AtBuild(p, pc) == build[p].pc = pc
Continue(p, pc) == build' = [build EXCEPT ![p].pc = pc]
Finish(p, outcome) == build' = [build EXCEPT ![p].pc = "done", ![p].outcome = outcome]

StartBuild(p, command) ==
  /\ AtBuild(p, "idle")
  /\ build' = [build EXCEPT ![p] = [Finished EXCEPT !.command = command, !.pc = "read"]]

\* One file is read and parsed; the first that does not parse ends the build.
ReadSource(p) ==
  LET text == sources[Files[Len(build[p].read) + 1]]
  IN  /\ AtBuild(p, "read") /\ Len(build[p].read) < Len(Files)
      /\ IF Parses(text) THEN build' = [build EXCEPT ![p].read = Append(@, text)] ELSE Finish(p, "parse")
      /\ UNCHANGED <<actor, actorMap>>

\* Nothing is written when the lint found an error in what was read.
GateOnDisk(p) ==  \* mutant: the gate lints the files again
  /\ AtBuild(p, "read") /\ Len(build[p].read) = Len(Files)
  /\ IF \E f \in FileSet : LintErrors(sources[f]) THEN Finish(p, "lint") ELSE Continue(p, "actor")
  /\ UNCHANGED <<actor, actorMap>>
Gate(p) ==
  /\ AtBuild(p, "read") /\ Len(build[p].read) = Len(Files)
  /\ IF \E k \in DOMAIN Files : LintErrors(build[p].read[k]) THEN Finish(p, "lint") ELSE Continue(p, "actor")
  /\ UNCHANGED <<actor, actorMap>>

WriteActor(p) ==
  /\ AtBuild(p, "actor")
  /\ actor' = ReadBy(p)
  /\ Continue(p, "map")
  /\ UNCHANGED actorMap

WriteMap(p) ==
  /\ AtBuild(p, "map")
  /\ actorMap' = ReadBy(p)
  /\ IF build[p].command = "check" THEN Continue(p, "moc") ELSE Finish(p, "ok")
  /\ UNCHANGED actor

\* moc reads the actor as it is on disk; its errors are placed with the map.
TypeCheck(p) ==
  /\ AtBuild(p, "moc")
  /\ Finish(p, IF \E f \in DOMAIN actor : TypeErrors(actor[f]) THEN "type" ELSE "ok")
  /\ UNCHANGED <<actor, actorMap>>

\* A terminal's command ends, or is interrupted anywhere.
EndBuild(p) ==
  /\ ~AtBuild(p, "idle")
  /\ build' = [build EXCEPT ![p] = Finished]
  /\ UNCHANGED <<actor, actorMap>>

BuildStep(p) == ReadSource(p) \/ Gate(p) \/ WriteActor(p) \/ WriteMap(p) \/ TypeCheck(p)

\* What a check leaves in its JSON or its text: a parse error, and a command that
\* was not found, leave nothing a caller recognises as an error.
ReportsError(outcome) == outcome \in {"lint", "type"}

-----------------------------------------------------------------------------
\* The actor on disk never has a form the lint calls insecure, however builds,
\* checks and edits interleave: what is gated is what is written (project.rs, the
\* lint gate of build).
NoInsecureActor == \A f \in DOMAIN actor : Passes(actor[f])
=============================================================================
