\* Of the two requests of each server, one never ends.
SPECIFICATION FairSpec
CONSTANTS
  Rpc = {r1, r2}
  Http = {h1, h2}
  Hung = {r2, h2}
  ShutdownTimeout = 2
INVARIANTS
  DrainedAtEnd
PROPERTY
  ShutdownEnds
\* The process has ended, or a gRPC handler never does.
CHECK_DEADLOCK FALSE
