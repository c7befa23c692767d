\* Two tokens every three ticks and a burst of two.
SPECIFICATION Spec
CONSTANTS
  Capacity = 2
  Num = 2
  Den = 3
  MaxTime = 14
INVARIANTS
  NeverOvergrants
  HalfRateGuaranteed
\* The clock stops at MaxTime but Take is always possible.
