---------------------------- MODULE PromRegistry ----------------------------
(***************************************************************************)
(* kafka.PromRegistry (src/kafka/metrics.go): sarama asks the registry of  *)
(* its client for metrics by name, from many goroutines, and gets adapters *)
(* around Prometheus collectors.  All registries share one map of adapters *)
(* and Prometheus' default registry, which others use as well.             *)
(*                                                                         *)
(* A name is <<base, separator>>; Prometheus knows it with underscores.    *)
(***************************************************************************)
EXTENDS Integers, FiniteSets

CONSTANTS
  Client,   \* Kafka clients, each with a registry of its own
  Caller,   \* goroutines of sarama
  Base,     \* names without their separator
  Kind,     \* what is asked for: counter, gauge, meter, histogram or timer
  Nil

Name == Base \X {"-", "_"}

\* What Prometheus exports, made by an adapter or by another part of the
\* program, and the adapters around it.
Collectors == [shape : {"gauge", "summary"}, by : {"kafka", "nobody", "custom"}]
Adapters   == [kind : Kind, col : Collectors]

\* The help text of the adapters' collectors.
NoHelp == ""

ASSUME PromAssumption ==
  /\ NoHelp \in STRING
  /\ Nil \notin STRING /\ Nil \notin Collectors /\ Nil \notin Adapters /\ Nil \notin Caller

VARIABLES
  reg,          \* Prometheus: the collector under each name
  help,         \* Prometheus: the help text of each name, kept for ever
  promMetrics,  \* the adapter of each name, shared by the registries
  registered,   \* each registry's own map
  mu,           \* who holds each registry's lock
  globalMu,     \* globalMu is locked for ever
  pc,           \* where each caller is in GetOrRegister
  call          \* what he asked for

promVars == <<promMetrics, registered, mu, globalMu, pc, call>>

sanitizeMetricName(name) == name[1]

Idle == [client |-> Nil, name |-> Nil, kind |-> Nil]

PromInit ==
  /\ reg = [b \in Base |-> Nil] /\ help = [b \in Base |-> Nil]
  /\ promMetrics = [b \in Base |-> Nil]
  /\ registered = [r \in Client |-> [m \in Name |-> Nil]]
  /\ mu = [r \in Client |-> Nil] /\ globalMu = FALSE
  /\ pc = [c \in Caller |-> "idle"] /\ call = [c \in Caller |-> Idle]

----------------------------------------------------------------------------
(* prometheus.Register and Unregister *)

\* A name keeps its help text when its collector is gone.
RegisterResult(b, h) ==
  IF help[b] \notin {Nil, h} THEN "inconsistent"
  ELSE IF reg[b] # Nil THEN "already"
  ELSE "ok"

Register(b, col, h) ==
  IF RegisterResult(b, h) = "ok"
    THEN reg' = [reg EXCEPT ![b] = col] /\ help' = [help EXCEPT ![b] = h]
    ELSE UNCHANGED <<reg, help>>

----------------------------------------------------------------------------
(* GetOrRegister *)

Return(c) == pc' = [pc EXCEPT ![c] = "idle"] /\ call' = [call EXCEPT ![c] = Idle]

\* The map is read under the read lock.  A name that is found is returned,
\* which changes nothing.
Lookup(c, r, m, k) ==
  /\ pc[c] = "idle" /\ mu[r] = Nil
  /\ registered[r][m] = Nil
  /\ call' = [call EXCEPT ![c] = [client |-> r, name |-> m, kind |-> k]]
  /\ pc' = [pc EXCEPT ![c] = "lock"]
  /\ UNCHANGED <<reg, help, promMetrics, registered, mu, globalMu>>

\* The lock is taken and the map read again.
DoubleCheck(c) ==
  LET r == call[c].client IN
  /\ pc[c] = "lock" /\ mu[r] = Nil
  /\ IF registered[r][call[c].name] # Nil
       THEN Return(c) /\ UNCHANGED mu
       ELSE /\ mu' = [mu EXCEPT ![r] = c]
            /\ pc' = [pc EXCEPT ![c] = "global"]
            /\ UNCHANGED call
  /\ UNCHANGED <<reg, help, promMetrics, registered, globalMu>>

InGlobal(c) == pc[c] = "global" /\ ~globalMu

\* Mutant: promMetrics is not asked.
KnownNever(c) == Nil

\* The adapter some registry has already made for this name, of whatever kind.
Known(c) == promMetrics[sanitizeMetricName(call[c].name)]

\* It is used, and the locks are released.
Adopt(c) ==
  /\ InGlobal(c) /\ Known(c) # Nil
  /\ registered' = [registered EXCEPT ![call[c].client][call[c].name] = Known(c)]
  /\ Return(c)
  /\ mu' = [mu EXCEPT ![call[c].client] = Nil]
  /\ UNCHANGED <<reg, help, promMetrics, globalMu>>

\* Counters, gauges and meters become gauges, histograms become summaries.
ShapeOf(kind) == IF kind = "histogram" THEN "summary" ELSE "gauge"

\* Mutant: an error of Register is not looked at.
CollectorIgnoringError(b, shape) == [shape |-> shape, by |-> IF RegisterResult(b, NoHelp) = "ok" THEN "kafka" ELSE "nobody"]

\* The collector the adapter is put around: the new one, the one that was
\* there, or, after any other error, one that is exported nowhere.
Collector(b, shape) ==
  IF RegisterResult(b, NoHelp) = "already" THEN reg[b]
  ELSE [shape |-> shape, by |-> IF RegisterResult(b, NoHelp) = "ok" THEN "kafka" ELSE "nobody"]

MakeAdapter(c) ==
  LET b == sanitizeMetricName(call[c].name)
      col == Collector(b, ShapeOf(call[c].kind))
      adapter == [kind |-> call[c].kind, col |-> col] IN
  /\ InGlobal(c) /\ Known(c) = Nil /\ call[c].kind # "timer"
  /\ col.shape = ShapeOf(call[c].kind)
  /\ Register(b, col, NoHelp)
  /\ promMetrics' = [promMetrics EXCEPT ![b] = adapter]
  /\ registered' = [registered EXCEPT ![call[c].client][call[c].name] = adapter]
  /\ Return(c)
  /\ mu' = [mu EXCEPT ![call[c].client] = Nil]
  /\ UNCHANGED globalMu

\* The existing collector is not of the type it is asserted to be: the panic
\* releases the registry's deferred lock, but not globalMu.
PanicUnderLock(c) ==
  LET shape == ShapeOf(call[c].kind) IN
  /\ InGlobal(c) /\ Known(c) = Nil /\ call[c].kind # "timer"
  /\ Collector(sanitizeMetricName(call[c].name), shape).shape # shape
  /\ globalMu' = TRUE
  /\ mu' = [mu EXCEPT ![call[c].client] = Nil]
  /\ Return(c)
  /\ UNCHANGED <<reg, help, promMetrics, registered>>

\* There is no adapter for timers and float gauges: the argument is returned.
Unsupported(c) ==
  /\ InGlobal(c) /\ Known(c) = Nil /\ call[c].kind = "timer"
  /\ Return(c)
  /\ mu' = [mu EXCEPT ![call[c].client] = Nil]
  /\ UNCHANGED <<reg, help, promMetrics, registered, globalMu>>

\* Unregister and UnregisterAll forget names of this registry only.
Unregister(r, names) ==
  /\ mu[r] = Nil
  /\ registered' = [registered EXCEPT ![r] = [m \in Name |-> IF m \in names THEN Nil ELSE @[m]]]
  /\ UNCHANGED <<reg, help, promMetrics, mu, globalMu, pc, call>>

PromStep(c) == DoubleCheck(c) \/ Adopt(c) \/ MakeAdapter(c) \/ PanicUnderLock(c) \/ Unsupported(c)
=============================================================================
