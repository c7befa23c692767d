\* Two requests that nest, one of each way to defer, over two connections:
\* both outer transactions open leave none for a nested one.
SPECIFICATION FairSpec
CONSTANTS
  Req = {a, b}
  Direct = {a}
  Nests = {a, b}
  MaxOpenConns = 2
INVARIANTS
  NilMeansCommitted
  NoConnectionLeaks
PROPERTY StuckOnlyByNesting
\* Every request is over.
CHECK_DEADLOCK FALSE
