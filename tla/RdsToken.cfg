\* The times of the code and of AWS, in units of ten seconds, and the longest
\* builds that fit into them; ages of expired tokens are told apart up to Cap.
SPECIFICATION TokenSpec
CONSTANTS
  Period = 60
  Retries = 5
  BuildTime = 4
  Validity = 90
  Cap = 100
INVARIANTS
  FreshUnlessSeriesFailed
  RenewedAfterOutage
