\* Two clients, two goroutines, two spellings of one name and three custom
\* metrics that have it too.
SPECIFICATION MetricsSpec
CONSTANTS
  Client = {k1, k2}
  Caller = {c1, c2}
  size = size
  Base = {size}
  Kind = {"counter", "meter", "histogram", "timer"}
  Nil = Nil
  Custom <- MCCustom
INVARIANTS
  UpdatesExported
  LockLeaksOnForeignClash
SYMMETRY Symmetric
