SPECIFICATION Spec
CONSTANTS
  Files <- MCFiles
  Page = "Home"
  Drafts <- MCDrafts
  Parses <- MCParses
  LintErrors <- MCLintErrors
  TypeErrors <- MCTypeErrors
  Elements <- MCElements
  Dropped <- MCDropped
  WithAttr <- MCWithAttr
  AttrAt <- MCAttrAt
  HandlersOf <- MCHandlersOf
  Values = {"c"}
  MaxDrops = 1
  Trapping = {"boom"}
  Builders = {"studio", "left", "right"}
  Desks <- MCDesks
INVARIANTS
  NoInsecureActor
  DesignerEditsLand
  SessionReplays
PROPERTIES
  PreviewCatchesUp
CHECK_DEADLOCK FALSE
