SPECIFICATION Spec
CONSTANTS
  Uris <- MCUris
  AppComponents <- MCAppComponents
  Desks <- MCDesks
  Diagnose <- DiagnosticsFor
  FixesAt <- CodeActionsFor
  Fixed <- ApplyEdit
  CompletionsAt <- CompletionAt
INVARIANTS
  DiagnosticsSettle
  InputsWired
  SubmitsCarryToken
  AnchorsTrue
  InsertIsLocal
PROPERTIES
  QuickFixClears
CHECK_DEADLOCK FALSE
