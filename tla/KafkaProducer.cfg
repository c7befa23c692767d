\* Three messages and room for one.
SPECIFICATION FairProducerSpec
CONSTANTS
  Msg = {m1, m2, m3}
  Buffer = 1
INVARIANTS
PROPERTIES
  CloseEnds
  SendersReleased
\* Everything is closed and every message settled.
CHECK_DEADLOCK FALSE
