SPECIFICATION Spec
CONSTANTS
  Rpc = {Health, A, B}
  Health = Health
  TemplateRpc = {Health, A}
  MaxCopies = 2
  Options <- MCOptions
  MaxLevel = 2
  Tables <- MCTables
  NoName = NoName
  Columns <- MCColumns
  Schemas <- MCSchemas
  MaxLines = 5
INVARIANTS
  HandlersComplete
  ImportsResolve
  DocWrappedOnce
  ParseMatchesReference
  MainIsBacked
PROPERTY EditsSurvive
\* A service with an invalid name is never created, a SQL file ends at its bound.
CHECK_DEADLOCK FALSE
