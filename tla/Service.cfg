\* Component 2, a group with a worker pool, and component 3, the gRPC server,
\* ignore their stop context.
SPECIFICATION FairService
CONSTANTS
  N = 4
  CtxAware = {1, 4}
  StopTimeout = 1
  Req = {q1}
  GroupSize = 3
  NumOfWorker = 1
  MaxStarts = 2
INVARIANTS
  ReturnAfterEveryStop
  StopAfterAllStarted
  ReverseStopOrder
  StopIsComplete
  NothingOutlivesRun
  FailuresOnlyInShutdown
PROPERTIES
  ComponentContract
  ServiceStops
\* The process ends.
CHECK_DEADLOCK FALSE
