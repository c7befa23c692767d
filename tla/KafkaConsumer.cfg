SPECIFICATION FairSpec
CONSTANTS
  MaxOffset = 3
  MaxRestarts = 1
INVARIANTS
  CommittedWasHandled
  InFlightNotCommitted
  QuietAfterStop
PROPERTIES
  LoopEnds
  EventuallyHandled
\* The component has stopped and nothing more is produced.
CHECK_DEADLOCK FALSE
