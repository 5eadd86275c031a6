--------------------------- MODULE MviewProject ----------------------------
(***************************************************************************)
(* The source files of a project, as the processes that share them see     *)
(* them: the compiler reads them one by one, an editor, Studio's code view *)
(* and Studio's designer write them, and nobody locks anything.            *)
(*                                                                         *)
(* What the compiler makes of a text is given by constant operators.       *)
(***************************************************************************)
EXTENDS Naturals, Sequences

CONSTANTS
  Files,           \* the files in the order a build reads them
  Page,            \* the one a preview shows
  Drafts,          \* texts a person may write into a file
  Parses(_),       \* the text parses
  LintErrors(_),   \* it parses, and the lint finds an error in it
  TypeErrors(_)    \* it parses, and moc finds an error in its code

VARIABLES
  sources,  \* file -> its text on disk
  writes,   \* how often a file may still be written
  byHand    \* whether a person wrote a file (a history variable)

projectVars == <<sources, writes, byHand>>

FileSet == {Files[k] : k \in DOMAIN Files}
ASSUME ProjectAssumption == Files \in Seq(STRING) /\ Page \in FileSet

\* The gate of a build and of a preview: a text that does not parse, or that the
\* lint finds an error in, gets no further.
Passes(text) == Parses(text) /\ ~LintErrors(text)

WriteFile(file, text) == writes > 0 /\ sources' = [sources EXCEPT ![file] = text]

\* A person writes a file, in an editor of their own.
WriteByHand ==
  /\ \E f \in FileSet, t \in Drafts : t # sources[f] /\ WriteFile(f, t)
  /\ writes' = writes - 1
  /\ byHand' = TRUE
=============================================================================
