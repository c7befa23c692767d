----------------------------- MODULE MCMetrics -----------------------------
EXTENDS Metrics, TLC

CONSTANT size

Symmetric == Permutations(Client) \cup Permutations(Caller)

\* Two metrics with the help text of the adapters, of either shape, and one
\* with a text of its own.
MCCustom ==
  {[name |-> "a", base |-> size, shape |-> "gauge", help |-> ""],
   [name |-> "b", base |-> size, shape |-> "summary", help |-> ""],
   [name |-> "c", base |-> size, shape |-> "gauge", help |-> "text"]}
=============================================================================
