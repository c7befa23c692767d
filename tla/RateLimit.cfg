SPECIFICATION Spec
CONSTANTS
  Req <- MCReq
  Rules <- MCRules
  Path <- MCPath
  Attrs <- MCAttrs
  NoAttrs <- MCNoAttrs
  MaxRefills = 1
INVARIANTS
  TokensConserved
  AllowedIsPaid
  RejectedIsExhausted
\* Every request has been decided.
CHECK_DEADLOCK FALSE
