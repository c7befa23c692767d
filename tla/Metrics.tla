------------------------------ MODULE Metrics ------------------------------
(***************************************************************************)
(* The custom metrics of metrics.Metrics (src/metrics/metrics.go) in       *)
(* Prometheus' default registry, beside the adapters of PromRegistry.      *)
(* They are added and removed by one goroutine: their map has no lock.     *)
(***************************************************************************)
EXTENDS PromRegistry

CONSTANT Custom   \* custom metrics

ASSUME CustomAssumption ==
  Custom \subseteq [name : STRING, base : Base, shape : {"gauge", "summary"}, help : STRING]

VARIABLES
  customMetrics,  \* the entries of m.customMetrics
  removed         \* names whose collector RemoveCustomMetric has unregistered

customVars == <<customMetrics, removed>>
metricsVars == <<reg, help, promVars, customVars>>

MetricsTypeOK ==
  /\ reg \in [Base -> {Nil} \cup Collectors] /\ help \in [Base -> {Nil} \cup STRING]
  /\ promMetrics \in [Base -> {Nil} \cup Adapters]
  /\ registered \in [Client -> [Name -> {Nil} \cup Adapters]]
  /\ mu \in [Client -> {Nil} \cup Caller] /\ globalMu \in BOOLEAN
  /\ pc \in [Caller -> {"idle", "lock", "global"}]
  /\ call \in [Caller -> {Idle} \cup [client : Client, name : Name, kind : Kind]]
  /\ customMetrics \subseteq Custom /\ removed \subseteq Base

MetricsInit ==
  /\ PromInit
  /\ customMetrics = {} /\ removed = {}

----------------------------------------------------------------------------
(* Custom metrics *)

\* The entry is made before the registration, whose failure panics.
AddCustomMetric(x) ==
  /\ \A y \in customMetrics : y.name # x.name
  /\ customMetrics' = customMetrics \cup {x}
  /\ Register(x.base, [shape |-> x.shape, by |-> "custom"], x.help)
  /\ UNCHANGED <<removed, promVars>>

\* Prometheus unregisters whatever collector has this name.
RemoveCustomMetric(x) ==
  /\ x \in customMetrics
  /\ customMetrics' = customMetrics \ {x}
  /\ reg' = [reg EXCEPT ![x.base] = Nil]
  /\ removed' = removed \cup {x.base}
  /\ UNCHANGED <<help, promVars>>

----------------------------------------------------------------------------

Kafka ==
  /\ \/ \E c \in Caller : PromStep(c)
     \/ \E c \in Caller, r \in Client, m \in Name, k \in Kind : Lookup(c, r, m, k)
     \/ \E r \in Client, m \in Name : Unregister(r, {m}) \/ Unregister(r, Name)
  /\ UNCHANGED customVars

MetricsNext ==
  \/ Kafka
  \/ \E x \in Custom : AddCustomMetric(x) \/ RemoveCustomMetric(x)

MetricsSpec == MetricsInit /\ [][MetricsNext]_metricsVars

----------------------------------------------------------------------------
(* Properties *)

\* All clients share one adapter per sanitised name, whichever goroutine made
\* it first, and its updates reach the collector Prometheus exports, unless
\* another part of the program had the name with a help text or removed it.
UpdatesExported ==
  \A b \in Base : promMetrics[b] # Nil =>
    /\ promMetrics[b].col = reg[b] \/ b \in removed \/ help[b] # NoHelp
    /\ \A r \in Client, m \in Name :
         sanitizeMetricName(m) = b => registered[r][m] \in {Nil, promMetrics[b]}

\* globalMu stays locked, and every later call waits, only after a clash with
\* a collector of another part of the program: metrics of different kinds
\* that sarama itself has under one sanitised name never get that far.
LockLeaksOnForeignClash ==
  globalMu => \E b \in Base : help[b] = NoHelp /\ promMetrics[b] = Nil
=============================================================================
