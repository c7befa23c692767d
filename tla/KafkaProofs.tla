---------------------------- MODULE KafkaProofs ----------------------------
(***************************************************************************)
(* What holds of package kafka: what a consumer group's offset says of the *)
(* messages before it, for any number of messages, crashes, rebalances and *)
(* commits; that closing a producer flushes it, for any messages and any   *)
(* buffer; and that all clients share the metrics Prometheus exports, for  *)
(* any clients, goroutines, names and custom metrics beside them.          *)
(***************************************************************************)
EXTENDS KafkaConsumer, KafkaProducer, Metrics, FiniteSetTheorems, TLAPS

----------------------------------------------------------------------------
(* The consumer *)

Handled == processed \cup failed \cup skipped

\* A handler runs only in a session and on a message of the log.
HandlingInv == handling => loop = "session" /\ pos < leo

\* In a session everything before its position has been handled or skipped,
\* and neither what is marked nor what is committed is beyond it.
SessionInv ==
  loop = "session" =>
    /\ pos <= leo /\ marked <= pos /\ committed <= pos
    /\ \A o \in 0..(pos - 1) : o \in Handled

\* The parts of TypeOK: the Boolean ones, the control points and the offsets.
BoolOK ==
  runDone \in BOOLEAN /\ closed \in BOOLEAN /\ sessDone \in BOOLEAN /\ handling \in BOOLEAN

ControlOK ==
  /\ loop \in {"off", "top", "consuming", "session", "sleep", "exited"}
  /\ stop \in {"idle", "waiting", "ok", "late"}

OffsetOK ==
  /\ leo \in Offsets /\ committed \in Offsets \cup {-1}
  /\ pos \in Offsets /\ marked \in Offsets \cup {-1}
  /\ Handled \subseteq 0..(leo - 1)
  /\ restarts \in 0..MaxRestarts

IInv ==
  /\ BoolOK /\ ControlOK /\ OffsetOK /\ committed <= leo
  /\ HandlingInv /\ SessionInv
  /\ CommittedWasHandled
  /\ stop = "ok" => loop = "exited"

USE KafkaConsumerAssumption DEF Offsets

----------------------------------------------------------------------------

\* A larger offset has all the messages before it that a smaller one has.
LEMMA IntervalGrows ==
  \A c, p \in Int : c <= p => \A o \in 0..(c - 1) : o \in 0..(p - 1)
OBVIOUS

\* They are all of TypeOK.
LEMMA TypeParts == TypeOK <=> BoolOK /\ ControlOK /\ OffsetOK
BY DEF TypeOK, BoolOK, ControlOK, OffsetOK, Handled

\* An empty log, nothing committed and no goroutine.
LEMMA InitIInv == Init => IInv
<1> SUFFICES ASSUME Init PROVE IInv
  OBVIOUS
<1> USE DEF Init
<1>1. BoolOK
  BY DEF BoolOK
<1>2. ControlOK /\ OffsetOK
  BY DEF ControlOK, OffsetOK, Handled
<1>3. HandlingInv /\ SessionInv
  BY DEF HandlingInv, SessionInv
<1>4. CommittedWasHandled
  BY DEF CommittedWasHandled
<1> QED
  BY <1>1, <1>2, <1>3, <1>4 DEF IInv

\* Steps of the component and of its loop that neither enter nor leave a
\* session touch no offset.
LEMMA ControlIInv ==
  ASSUME IInv, UNCHANGED <<broker, pos, handling, marked, history>>,
         BoolOK', ControlOK', loop' = "session" <=> loop = "session",
         stop' = "ok" => loop' = "exited"
  PROVE  IInv'
<1> USE DEF broker, history
<1>1. OffsetOK'
  BY DEF IInv, OffsetOK, Handled
<1>2. HandlingInv'
  BY DEF IInv, HandlingInv
<1>3. SessionInv' /\ CommittedWasHandled'
  BY DEF IInv, SessionInv, CommittedWasHandled, Handled
<1> QED
  BY <1>1, <1>2, <1>3 DEF IInv, OffsetOK

\* The component's Start and Stop, the client's Close, the context and the
\* loop outside of a session.
LEMMA ComponentIInv ==
  ASSUME IInv,
         \/ Start \/ Cancel \/ CallStop \/ StopReturns \/ StopGivesUp \/ ClientClose
         \/ LoopTop \/ ConsumeFails \/ Awake \/ Rebalance \/ Shutdown
  PROVE  IInv'
<1> USE DEF Start, Cancel, CallStop, StopReturns, StopGivesUp, ClientClose,
            LoopTop, ConsumeFails, AfterError, Awake, Rebalance, Shutdown,
            SessionCtxDone, broker, component, session, history
<1>1. BoolOK'
  BY Zenon DEF IInv, BoolOK
<1>2. ControlOK'
  BY DEF IInv, ControlOK
<1>3. UNCHANGED <<broker, pos, handling, marked, history>>
  OBVIOUS
<1>4. loop' = "session" <=> loop = "session"
  OBVIOUS
<1>5. stop' = "ok" => loop' = "exited"
  BY DEF IInv
<1> QED
  BY <1>1, <1>2, <1>3, <1>4, <1>5, ControlIInv

\* A session begins where the group's offset says, or at the end of the log.
LEMMA SessionOpensIInv ==
  ASSUME IInv, SessionOpens
  PROVE  IInv'
<1> USE DEF SessionOpens, broker
<1>1. BoolOK'
  BY Zenon DEF IInv, BoolOK
<1>2. ControlOK' /\ OffsetOK'
  BY DEF IInv, ControlOK, OffsetOK, Handled
<1>3. HandlingInv'
  BY DEF HandlingInv
<1>4. Handled' = Handled \cup (IF committed = -1 THEN 0..(leo - 1) ELSE {})
  BY DEF Handled
<1>5. SessionInv'
  BY <1>4 DEF IInv, OffsetOK, SessionInv, CommittedWasHandled, Handled
<1>6. CommittedWasHandled'
  BY DEF IInv, CommittedWasHandled
<1> QED
  BY <1>1, <1>2, <1>3, <1>5, <1>6 DEF IInv

\* What is committed was marked in this session or committed before.
LEMMA CommitIInv ==
  ASSUME IInv, AutoCommit \/ SessionReleased
  PROVE  IInv'
<1> USE DEF AutoCommit, SessionReleased, Commit, AfterError, component, session, history
<1>1. loop = "session" /\ committed' \in {committed, marked} /\ leo' = leo
  OBVIOUS
<1>2. UNCHANGED <<runDone, stop, closed, sessDone, pos, handling, marked, processed, failed, skipped, restarts>>
  OBVIOUS
<1>3. BoolOK'
  BY <1>2, Zenon DEF IInv, BoolOK
<1>4. ControlOK' /\ OffsetOK' /\ committed' <= leo'
  BY DEF IInv, ControlOK, OffsetOK, SessionInv, Handled
<1>5. HandlingInv'
  BY DEF IInv, HandlingInv
<1>6. SessionInv'
  BY <1>1, <1>2 DEF IInv, SessionInv, Handled
<1>7. CommittedWasHandled'
  <2>1. committed' <= pos /\ committed' \in Int /\ pos \in Int
    BY <1>1, <1>4 DEF IInv, SessionInv, OffsetOK
  <2>2. Handled' = Handled
    BY <1>2 DEF Handled
  <2>3. \A o \in 0..(pos - 1) : o \in Handled
    BY <1>1 DEF IInv, SessionInv
  <2>4. \A o \in 0..(committed' - 1) : o \in 0..(pos - 1)
    BY <2>1, IntervalGrows
  <2> QED
    BY <2>2, <2>3, <2>4 DEF CommittedWasHandled, Handled
<1> QED
  BY <1>3, <1>4, <1>5, <1>6, <1>7 DEF IInv

\* A message is taken, and its handler returns nil or an error.
LEMMA ClaimIInv ==
  ASSUME IInv, Take \/ HandlerOk \/ HandlerErr
  PROVE  IInv'
<1> USE DEF Take, HandlerOk, HandlerErr, broker, component, history
<1>1. loop = "session" /\ UNCHANGED <<leo, committed, loop, stop, runDone, closed, sessDone, restarts>>
  BY DEF IInv, HandlingInv
<1>2. BoolOK'
  BY Zenon DEF IInv, BoolOK
<1>3. CASE Take
  <2>1. OffsetOK' /\ ControlOK' /\ HandlingInv'
    BY <1>1, <1>3 DEF IInv, ControlOK, OffsetOK, HandlingInv, Handled
  <2>2. SessionInv' /\ CommittedWasHandled'
    BY <1>1, <1>3 DEF IInv, SessionInv, CommittedWasHandled, Handled
  <2> QED
    BY <1>1, <1>2, <2>1, <2>2 DEF IInv
<1>4. CASE HandlerOk \/ HandlerErr
  <2>1. Handled' = Handled \cup {pos} /\ pos' = pos + 1 /\ handling' = FALSE
    BY <1>4 DEF Handled
  <2>2. pos < leo /\ marked' \in {marked, pos'}
    BY <1>4 DEF IInv, HandlingInv
  <2>3. OffsetOK' /\ ControlOK'
    BY <1>1, <2>1, <2>2 DEF IInv, ControlOK, OffsetOK
  <2>4. HandlingInv'
    BY <2>1 DEF HandlingInv
  <2>5. SessionInv'
    BY <1>1, <2>1, <2>2 DEF IInv, SessionInv, OffsetOK
  <2>6. CommittedWasHandled'
    BY <1>1, <2>1 DEF IInv, CommittedWasHandled, Handled
  <2> QED
    BY <1>1, <1>2, <2>3, <2>4, <2>5, <2>6 DEF IInv
<1> QED
  BY <1>3, <1>4

\* The log grows, and a process that crashes leaves the broker's state.
LEMMA EnvironmentIInv ==
  ASSUME IInv, Produce \/ Restart
  PROVE  IInv'
<1> USE DEF Produce, Restart, broker, component, session, history
<1>1. BoolOK'
  BY Zenon DEF IInv, BoolOK
<1>2. ControlOK' /\ OffsetOK' /\ committed' <= leo'
  BY DEF IInv, ControlOK, OffsetOK, Handled
<1>3. HandlingInv'
  <2>1. CASE Restart
    BY <2>1 DEF HandlingInv
  <2>2. CASE Produce
    <3>1. handling' => handling
      BY <2>2, Zenon
    <3> QED
      BY <2>2, <3>1 DEF IInv, HandlingInv, OffsetOK
  <2> QED
    BY <2>1, <2>2
<1>4. SessionInv' /\ CommittedWasHandled'
  BY DEF IInv, SessionInv, CommittedWasHandled, Handled, OffsetOK
<1> QED
  BY <1>1, <1>2, <1>3, <1>4 DEF IInv

\* Every step keeps the invariant.
LEMMA NextIInv == IInv /\ [Next]_vars => IInv'
<1> SUFFICES ASSUME IInv, [Next]_vars PROVE IInv'
  OBVIOUS
<1>1. CASE UNCHANGED vars
  <2>1. UNCHANGED <<leo, committed, loop, runDone, stop, closed, sessDone, pos, handling, marked,
                    processed, failed, skipped, restarts>>
    BY <1>1 DEF vars, broker, component, session, history
  <2>2. BoolOK'
    BY <2>1, Zenon DEF IInv, BoolOK
  <2>3. ControlOK' /\ (stop' = "ok" => loop' = "exited")
    BY <2>1 DEF IInv, ControlOK
  <2> QED
    BY <2>1, <2>2, <2>3, ControlIInv DEF broker, history
<1> QED
  BY <1>1, ComponentIInv, SessionOpensIInv, CommitIInv, ClaimIInv, EnvironmentIInv DEF Next

----------------------------------------------------------------------------

\* The invariant holds throughout every behaviour.
THEOREM Invariance == Spec => []IInv
BY InitIInv, NextIInv, PTL DEF Spec

\* Every variable keeps its type: no offset passes the end of the log, and
\* nothing is handled that was not produced.
THEOREM TypeCorrect == Spec => []TypeOK
<1>1. IInv => TypeOK
  BY TypeParts DEF IInv
<1> QED
  BY <1>1, Invariance, PTL

\* Through any crashes, rebalances and failed commits the group's offset
\* passes only messages whose handler has returned or that a session without
\* a committed offset skipped.
THEOREM CommittedCorrect == Spec => []CommittedWasHandled
<1>1. IInv => CommittedWasHandled
  BY DEF IInv
<1> QED
  BY <1>1, Invariance, PTL

\* A message is not committed while its handler runs.
THEOREM InFlightCorrect == Spec => []InFlightNotCommitted
<1>1. IInv => InFlightNotCommitted
  BY DEF IInv, HandlingInv, SessionInv, InFlightNotCommitted
<1> QED
  BY <1>1, Invariance, PTL

\* After a Stop that returned nil no handler of the component runs.
THEOREM QuietCorrect == Spec => []QuietAfterStop
<1>1. IInv => QuietAfterStop
  BY DEF IInv, HandlingInv, QuietAfterStop
<1> QED
  BY <1>1, Invariance, PTL

HIDE KafkaConsumerAssumption DEF Offsets

----------------------------------------------------------------------------
(* The asynchronous producer *)

\* The parts of ProducerTypeOK but the size of sarama's buffer.
ProducerOK ==
  /\ prod \in {"none", "open", "closing", "closed"}
  /\ comp \in {"new", "failed", "running", "waiting", "stopped", "late"}
  /\ watch \in [Outcomes -> {"off", "on", "exited"}]
  /\ msg \in [Msg -> {"new", "notFound", "blocked", "held", "logged", "drained", "refused", "panic"}]
  /\ outcome \in [Msg -> Outcomes]

\* sarama holds no more than it has room for; there may be any messages.
BufferInv == IsFiniteSet(Held) /\ Cardinality(Held) <= Buffer

\* When Stop has returned nil, both goroutines that read outcomes are gone.
WatchersGone == comp = "stopped" => \A k \in Outcomes : watch[k] = "exited"

ProducerInv ==
  runCtxDone \in BOOLEAN /\ ProducerOK /\ BufferInv /\ WatchersGone

\* Nothing is sent and nothing held.
LEMMA ProducerInitInv == ProducerInit => ProducerInv
<1> SUFFICES ASSUME ProducerInit PROVE ProducerInv
  OBVIOUS
<1>1. runCtxDone \in BOOLEAN
  BY DEF ProducerInit
<1>2. ProducerOK /\ Held = {} /\ WatchersGone
  BY DEF ProducerInit, ProducerOK, Held, WatchersGone, Outcomes
<1>3. BufferInv
  BY <1>2, FS_EmptySet, KafkaProducerAssumption DEF BufferInv
<1> QED
  BY <1>1, <1>2, <1>3 DEF ProducerInv

\* The client's calls and the component move no message out of the buffer.
LEMMA ProducerControlInv ==
  ASSUME ProducerInv,
         \/ InitAsyncProducer \/ CallClose \/ CloseReturns
         \/ StartProducer \/ CancelProducer \/ CallStopProducer
         \/ StopProducerReturns \/ StopProducerGivesUp
         \/ \E k \in Outcomes : WatchExits(k)
         \/ UNCHANGED producerVars
  PROVE  ProducerInv'
<1> USE DEF ProducerInv, InitAsyncProducer, CallClose, CloseReturns, StartProducer, CancelProducer,
            CallStopProducer, StopProducerReturns, StopProducerGivesUp, WatchExits, producerVars
<1>1. runCtxDone' \in BOOLEAN
  <2>1. runCtxDone' \in {runCtxDone, TRUE}
    BY Zenon
  <2> QED
    BY <2>1
<1>2. UNCHANGED <<msg, outcome>>
  OBVIOUS
<1>3. Held' = Held
  BY <1>2 DEF Held
<1>4. ProducerOK'
  BY DEF ProducerOK
<1>5. WatchersGone'
  BY DEF WatchersGone, ProducerOK
<1>6. BufferInv'
  BY <1>3 DEF BufferInv
<1> QED
  BY <1>1, <1>4, <1>5, <1>6

\* A message that is taken fills a place that was free.
LEMMA AcceptInv ==
  ASSUME ProducerInv, NEW m \in Msg, Accept(m)
  PROVE  ProducerInv'
<1> USE DEF ProducerInv, Accept, Moves
<1>1. runCtxDone' \in BOOLEAN
  BY Zenon
<1>2. ProducerOK' /\ WatchersGone'
  BY DEF ProducerOK, WatchersGone
<1>3. Held' = Held \cup {m} /\ m \notin Held
  BY DEF Held, ProducerOK
<1>4. IsFiniteSet(Held') /\ Cardinality(Held') = Cardinality(Held) + 1
  BY <1>3, FS_AddElement DEF BufferInv
<1>5. Cardinality(Held) \in Nat
  BY FS_CardinalityType DEF BufferInv
<1>6. BufferInv'
  BY <1>4, <1>5, KafkaProducerAssumption DEF BufferInv
<1> QED
  BY <1>1, <1>2, <1>6

\* Every other step of a message leaves at most a place in the buffer.
LEMMA MessageInv ==
  ASSUME ProducerInv, NEW m \in Msg,
         SendMessageAsync(m) \/ Refuse(m) \/ SendPanics(m) \/ Drain(m) \/ Watch(m)
  PROVE  ProducerInv'
<1> USE DEF ProducerInv, SendMessageAsync, Refuse, SendPanics, Drain, Watch, Moves
<1>1. runCtxDone' \in BOOLEAN
  <2>1. runCtxDone' = runCtxDone
    BY Zenon
  <2> QED
    BY <2>1
<1>2. ProducerOK' /\ WatchersGone'
  BY DEF ProducerOK, WatchersGone
<1>3. Held' \subseteq Held
  BY DEF Held, ProducerOK
<1>4. /\ IsFiniteSet(Held') /\ Cardinality(Held') <= Cardinality(Held)
      /\ Cardinality(Held') \in Nat /\ Cardinality(Held) \in Nat
  BY <1>3, FS_Subset, FS_CardinalityType DEF BufferInv
<1>5. BufferInv'
  BY <1>4, KafkaProducerAssumption DEF BufferInv
<1> QED
  BY <1>1, <1>2, <1>5

\* The invariant of the producer holds throughout every behaviour.
THEOREM ProducerInvariance == ProducerSpec => []ProducerInv
<1>1. ProducerInv /\ [ProducerNext]_producerVars => ProducerInv'
  BY ProducerControlInv, AcceptInv, MessageInv DEF ProducerNext
<1> QED
  BY <1>1, ProducerInitInv, PTL DEF ProducerSpec

\* For any messages and any buffer, every variable keeps its type and sarama
\* never holds more than it has room for.
THEOREM ProducerTypeCorrect == ProducerSpec => []ProducerTypeOK
<1>1. ProducerInv => ProducerTypeOK
  BY DEF ProducerInv, ProducerOK, BufferInv, ProducerTypeOK
<1> QED
  BY <1>1, ProducerInvariance, PTL

\* A Stop of the component that returned nil leaves no goroutine behind.
THEOREM WatchersCorrect == ProducerSpec => []WatchersGone
<1>1. ProducerInv => WatchersGone
  BY DEF ProducerInv
<1> QED
  BY <1>1, ProducerInvariance, PTL

----------------------------------------------------------------------------
(* The metrics registry *)

Calls == [client : Client, name : Name, kind : Kind]

\* The parts of MetricsTypeOK: Prometheus and the adapters, and the callers.
RegistryOK ==
  /\ reg \in [Base -> {Nil} \cup Collectors] /\ help \in [Base -> {Nil} \cup STRING]
  /\ promMetrics \in [Base -> {Nil} \cup Adapters]
  /\ registered \in [Client -> [Name -> {Nil} \cup Adapters]]
CallerOK ==
  /\ mu \in [Client -> {Nil} \cup Caller]
  /\ pc \in [Caller -> {"idle", "lock", "global"}]
  /\ call \in [Caller -> {Idle} \cup Calls]
  /\ \A c \in Caller : pc[c] # "idle" => call[c] \in Calls
CustomOK == customMetrics \subseteq Custom /\ removed \subseteq Base

\* The callers that hold a registry's lock are those between its Lock and
\* its deferred Unlock: no call that has ended, by a panic or otherwise, does.
LockInv ==
  /\ \A r \in Client : mu[r] # Nil => pc[mu[r]] = "global" /\ call[mu[r]].client = r
  /\ \A c \in Caller : pc[c] = "global" => mu[call[c].client] = c

\* A name that has or had a collector has a help text, which it keeps.
HelpInv == \A b \in Base : (reg[b] # Nil \/ promMetrics[b] # Nil) => help[b] # Nil

\* A registry's own map has nothing but the adapters all share.
SharedInv ==
  \A r \in Client, m \in Name : registered[r][m] \in {Nil, promMetrics[sanitizeMetricName(m)]}

\* The adapter of a name updates the collector that is exported under it.
ExportInv ==
  \A b \in Base : promMetrics[b] # Nil =>
    promMetrics[b].col = reg[b] \/ b \in removed \/ help[b] # NoHelp

MetricsInv ==
  /\ globalMu \in BOOLEAN /\ RegistryOK /\ CallerOK /\ CustomOK
  /\ LockInv /\ HelpInv /\ SharedInv /\ ExportInv
  /\ LockLeaksOnForeignClash

\* The base of a name is one.
LEMMA Sanitized ==
  ASSUME NEW m \in Name
  PROVE  sanitizeMetricName(m) \in Base
BY DEF Name, sanitizeMetricName

\* Nothing is registered and nobody asks.
LEMMA MetricsInitInv == MetricsInit => MetricsInv
<1> SUFFICES ASSUME MetricsInit PROVE MetricsInv
  OBVIOUS
<1> USE DEF MetricsInit, PromInit
<1>1. globalMu \in BOOLEAN /\ ~globalMu
  BY Zenon
<1>2. RegistryOK /\ CustomOK /\ HelpInv /\ ExportInv
  BY DEF RegistryOK, CustomOK, HelpInv, ExportInv
<1>3. CallerOK /\ LockInv
  BY DEF CallerOK, LockInv
<1>4. SharedInv
  BY DEF SharedInv
<1> QED
  BY <1>1, <1>2, <1>3, <1>4 DEF MetricsInv, LockLeaksOnForeignClash

\* Steps of the callers that touch neither Prometheus nor an adapter.
LEMMA LookupInv ==
  ASSUME MetricsInv, NEW c \in Caller, NEW r \in Client, NEW m \in Name, NEW k \in Kind,
         Lookup(c, r, m, k), UNCHANGED customVars
  PROVE  MetricsInv'
<1> USE DEF MetricsInv, Lookup, customVars
<1>1. globalMu' \in BOOLEAN
  BY Zenon
<1>2. RegistryOK' /\ CustomOK' /\ HelpInv' /\ ExportInv' /\ SharedInv'
  BY DEF RegistryOK, CustomOK, HelpInv, ExportInv, SharedInv
<1>3. CallerOK'
  BY DEF CallerOK, Calls
<1>4. LockInv'
  BY DEF LockInv, CallerOK
<1>5. LockLeaksOnForeignClash'
  BY DEF LockLeaksOnForeignClash
<1> QED
  BY <1>1, <1>2, <1>3, <1>4, <1>5

LEMMA DoubleCheckInv ==
  ASSUME MetricsInv, NEW c \in Caller, DoubleCheck(c), UNCHANGED customVars
  PROVE  MetricsInv'
<1> USE DEF MetricsInv, DoubleCheck, Return, customVars
<1>1. globalMu' \in BOOLEAN
  BY Zenon
<1>2. RegistryOK' /\ CustomOK' /\ HelpInv' /\ ExportInv' /\ SharedInv'
  BY DEF RegistryOK, CustomOK, HelpInv, ExportInv, SharedInv
<1>3. call[c] \in Calls /\ call[c].client \in Client
  BY DEF CallerOK, Calls
<1>4. CallerOK'
  BY <1>3 DEF CallerOK
<1>5. LockInv'
  <2>1. CASE registered[call[c].client][call[c].name] # Nil
    BY <1>3, <2>1, PromAssumption DEF LockInv, CallerOK
  <2>2. CASE registered[call[c].client][call[c].name] = Nil
    <3>1. mu' = [mu EXCEPT ![call[c].client] = c] /\ pc' = [pc EXCEPT ![c] = "global"] /\ call' = call
      BY <2>2
    <3>2. \A d \in Caller : pc[d] = "global" => call[d].client # call[c].client
      BY PromAssumption DEF LockInv
    <3>3. \A r \in Client : mu'[r] # Nil => pc'[mu'[r]] = "global" /\ call'[mu'[r]].client = r
      BY <1>3, <3>1 DEF LockInv, CallerOK
    <3>4. \A d \in Caller : pc'[d] = "global" => mu'[call'[d].client] = d
      <4> SUFFICES ASSUME NEW d \in Caller, pc'[d] = "global" PROVE mu'[call[d].client] = d
        BY <3>1
      <4>1. CASE d = c
        BY <1>3, <3>1, <4>1 DEF CallerOK
      <4>2. CASE d # c
        <5>1. pc[d] = "global"
          BY <3>1, <4>2 DEF CallerOK
        <5>2. call[d].client \in Client /\ call[d].client # call[c].client /\ mu[call[d].client] = d
          BY <3>2, <5>1 DEF CallerOK, Calls, LockInv
        <5> QED
          BY <3>1, <5>2 DEF CallerOK
      <4> QED
        BY <4>1, <4>2
    <3> QED
      BY <3>3, <3>4 DEF LockInv
  <2> QED
    BY <2>1, <2>2
<1>6. LockLeaksOnForeignClash'
  BY DEF LockLeaksOnForeignClash
<1> QED
  BY <1>1, <1>2, <1>4, <1>5, <1>6

\* The end of a call releases the lock of its registry.
LEMMA ReleaseInv ==
  ASSUME CallerOK, LockInv, NEW c \in Caller, pc[c] = "global", Return(c),
         mu' = [mu EXCEPT ![call[c].client] = Nil]
  PROVE  CallerOK' /\ LockInv'
<1>1. call[c] \in Calls /\ call[c].client \in Client /\ mu[call[c].client] = c
  BY DEF CallerOK, Calls, LockInv
<1>2. CallerOK'
  BY <1>1 DEF CallerOK, Return
<1>3. LockInv'
  BY <1>1, PromAssumption DEF CallerOK, LockInv, Return
<1> QED
  BY <1>2, <1>3

\* A call that adopts an adapter, or finds none for its kind, or whose type
\* assertion panics.
LEMMA AdoptInv ==
  ASSUME MetricsInv, NEW c \in Caller, Adopt(c) \/ Unsupported(c), UNCHANGED customVars
  PROVE  MetricsInv'
<1> USE DEF MetricsInv, customVars
<1>1. globalMu' \in BOOLEAN
  <2>1. globalMu' = globalMu
    BY Zenon DEF Adopt, Unsupported
  <2> QED
    BY <2>1
<1>2. call[c] \in Calls /\ call[c].client \in Client /\ call[c].name \in Name
  BY DEF Adopt, Unsupported, InGlobal, CallerOK, Calls
<1>3. CallerOK' /\ LockInv'
  BY ReleaseInv DEF Adopt, Unsupported, InGlobal
<1>4. UNCHANGED <<reg, help, promMetrics, customMetrics, removed>>
  BY DEF Adopt, Unsupported
<1>5. \/ registered' = registered
      \/ registered' = [registered EXCEPT ![call[c].client][call[c].name]
                                            = promMetrics[sanitizeMetricName(call[c].name)]]
  BY DEF Adopt, Unsupported, Known
<1>6. promMetrics[sanitizeMetricName(call[c].name)] \in {Nil} \cup Adapters
  BY <1>2, Sanitized DEF RegistryOK
<1>7. RegistryOK'
  BY <1>2, <1>4, <1>5, <1>6 DEF RegistryOK
<1>8. SharedInv'
  BY <1>2, <1>4, <1>5 DEF SharedInv, RegistryOK
<1>9. CustomOK' /\ HelpInv' /\ ExportInv' /\ LockLeaksOnForeignClash'
  <2>1. globalMu' => globalMu
    BY DEF Adopt, Unsupported
  <2> QED
    BY <1>4, <2>1 DEF CustomOK, HelpInv, ExportInv, LockLeaksOnForeignClash
<1> QED
  BY <1>1, <1>3, <1>7, <1>8, <1>9

LEMMA PanicInv ==
  ASSUME MetricsInv, NEW c \in Caller, PanicUnderLock(c), UNCHANGED customVars
  PROVE  MetricsInv'
<1> DEFINE b == sanitizeMetricName(call[c].name)
<1> USE DEF MetricsInv, customVars
<1>1. globalMu' \in BOOLEAN
  BY Zenon DEF PanicUnderLock
<1>2. call[c] \in Calls /\ call[c].name \in Name
  BY DEF PanicUnderLock, InGlobal, CallerOK, Calls
<1>3. CallerOK' /\ LockInv'
  BY ReleaseInv DEF PanicUnderLock, InGlobal
<1>4. UNCHANGED <<reg, help, promMetrics, registered, customMetrics, removed>>
  BY DEF PanicUnderLock
<1>5. RegistryOK' /\ CustomOK' /\ HelpInv' /\ ExportInv' /\ SharedInv'
  BY <1>4 DEF RegistryOK, CustomOK, HelpInv, ExportInv, SharedInv
<1>6. b \in Base /\ promMetrics[b] = Nil
  BY <1>2, Sanitized DEF PanicUnderLock, Known
<1>7. RegisterResult(b, NoHelp) = "already"
  <2>1. Collector(b, ShapeOf(call[c].kind)).shape # ShapeOf(call[c].kind)
    BY DEF PanicUnderLock
  <2> HIDE DEF b
  <2> QED
    BY <2>1 DEF Collector
<1>8. reg[b] # Nil /\ help[b] \in {Nil, NoHelp}
  BY <1>7 DEF RegisterResult
<1>9. help[b] = NoHelp
  BY <1>6, <1>8 DEF HelpInv
<1>10. LockLeaksOnForeignClash'
  BY <1>4, <1>6, <1>9 DEF LockLeaksOnForeignClash
<1> QED
  BY <1>1, <1>3, <1>5, <1>10

\* A new adapter: nobody had one under its name, so all registries see it.
LEMMA MakeAdapterInv ==
  ASSUME MetricsInv, NEW c \in Caller, MakeAdapter(c), UNCHANGED customVars
  PROVE  MetricsInv'
<1> DEFINE b == sanitizeMetricName(call[c].name)
           col == Collector(b, ShapeOf(call[c].kind))
           adapter == [kind |-> call[c].kind, col |-> col]
<1> USE DEF MetricsInv, customVars
<1>1. ~globalMu' /\ globalMu' \in BOOLEAN
  BY Zenon DEF MakeAdapter, InGlobal
<1>2. call[c] \in Calls /\ call[c].client \in Client /\ call[c].name \in Name /\ call[c].kind \in Kind
  BY DEF MakeAdapter, InGlobal, CallerOK, Calls
<1>3. CallerOK' /\ LockInv'
  BY ReleaseInv DEF MakeAdapter, InGlobal
<1>4. b \in Base /\ promMetrics[b] = Nil
  BY <1>2, Sanitized DEF MakeAdapter, Known
<1>5. /\ Register(b, col, NoHelp)
      /\ promMetrics' = [promMetrics EXCEPT ![b] = adapter]
      /\ registered' = [registered EXCEPT ![call[c].client][call[c].name] = adapter]
  BY DEF MakeAdapter
<1>6. ShapeOf(call[c].kind) \in {"gauge", "summary"}
  BY DEF ShapeOf
<1>7. col \in Collectors
  BY <1>4, <1>6 DEF Collector, RegisterResult, RegistryOK, Collectors
<1>8. adapter \in Adapters /\ adapter.col = col
  BY <1>2, <1>7 DEF Adapters
<1>9. NoHelp \in STRING
  BY PromAssumption
<1> HIDE DEF col, adapter, b
<1>10. RegistryOK'
  BY <1>2, <1>4, <1>5, <1>7, <1>8, <1>9 DEF RegistryOK, Register
<1>11. \A r \in Client, m \in Name : sanitizeMetricName(m) = b => registered[r][m] = Nil
  BY <1>4 DEF SharedInv
<1>12. SharedInv'
  <2> SUFFICES ASSUME NEW r \in Client, NEW m \in Name
               PROVE  registered'[r][m] \in {Nil, promMetrics'[sanitizeMetricName(m)]}
    BY DEF SharedInv
  <2>1. CASE r = call[c].client /\ m = call[c].name
    BY <1>2, <1>4, <1>5, <2>1 DEF RegistryOK, b
  <2>2. CASE ~(r = call[c].client /\ m = call[c].name)
    <3>1. registered'[r][m] = registered[r][m]
      BY <1>2, <1>5, <2>2 DEF RegistryOK
    <3>2. sanitizeMetricName(m) # b => promMetrics'[sanitizeMetricName(m)] = promMetrics[sanitizeMetricName(m)]
      BY <1>5, Sanitized DEF RegistryOK
    <3> QED
      BY <1>11, <3>1, <3>2 DEF SharedInv
  <2> QED
    BY <2>1, <2>2
<1>13. \A a \in Base \ {b} : /\ reg'[a] = reg[a] /\ help'[a] = help[a]
                             /\ promMetrics'[a] = promMetrics[a]
  BY <1>4, <1>5 DEF RegistryOK, Register
<1>14. promMetrics'[b] = adapter
  BY <1>4, <1>5 DEF RegistryOK
<1>15. help'[b] # Nil /\ (col = reg'[b] \/ help'[b] # NoHelp)
  <2>1. CASE RegisterResult(b, NoHelp) = "ok"
    BY <1>4, <1>5, <1>9, <2>1, PromAssumption DEF Register, RegistryOK
  <2>2. CASE RegisterResult(b, NoHelp) = "already"
    <3>1. reg'[b] = reg[b] /\ help'[b] = help[b] /\ reg[b] # Nil
      BY <1>5, <2>2 DEF Register, RegisterResult
    <3>2. col = reg[b]
      BY <2>2 DEF col, Collector
    <3> QED
      BY <1>4, <3>1, <3>2 DEF HelpInv
  <2>3. CASE RegisterResult(b, NoHelp) \notin {"ok", "already"}
    <3>1. help'[b] = help[b] /\ help[b] \notin {Nil, NoHelp}
      BY <1>5, <2>3 DEF Register, RegisterResult
    <3> QED
      BY <3>1
  <2> QED
    BY <2>1, <2>2, <2>3
<1>16. HelpInv'
  BY <1>13, <1>15 DEF HelpInv
<1>17. ExportInv'
  BY <1>8, <1>13, <1>14, <1>15 DEF ExportInv
<1>18. CustomOK' /\ LockLeaksOnForeignClash'
  BY <1>1 DEF CustomOK, LockLeaksOnForeignClash
<1> QED
  BY <1>1, <1>3, <1>10, <1>12, <1>16, <1>17, <1>18

\* Unregister forgets names of one registry: the adapters stay.
LEMMA UnregisterInv ==
  ASSUME MetricsInv, NEW r \in Client, NEW names \in SUBSET Name,
         Unregister(r, names), UNCHANGED customVars
  PROVE  MetricsInv'
<1> USE DEF MetricsInv, Unregister, customVars
<1>1. globalMu' \in BOOLEAN
  BY Zenon
<1>2. RegistryOK'
  BY DEF RegistryOK
<1>3. SharedInv'
  BY DEF SharedInv, RegistryOK
<1>4. CallerOK' /\ LockInv'
  BY DEF CallerOK, LockInv
<1>5. CustomOK' /\ HelpInv' /\ ExportInv' /\ LockLeaksOnForeignClash'
  BY DEF CustomOK, HelpInv, ExportInv, LockLeaksOnForeignClash
<1> QED
  BY <1>1, <1>2, <1>3, <1>4, <1>5

\* The callers do not notice the custom metrics.
LEMMA PromUnchanged ==
  ASSUME MetricsInv, UNCHANGED promVars
  PROVE  globalMu' \in BOOLEAN /\ CallerOK' /\ LockInv' /\ SharedInv'
<1> USE DEF MetricsInv, promVars
<1>1. globalMu' \in BOOLEAN
  BY Zenon
<1>2. CallerOK' /\ LockInv' /\ SharedInv'
  BY DEF CallerOK, LockInv, SharedInv
<1> QED
  BY <1>1, <1>2

\* A name an adapter or an earlier collector has had is not given a new
\* help text, so AddCustomMetric takes the name of no adapter over.
LEMMA AddInv ==
  ASSUME MetricsInv, NEW x \in Custom, AddCustomMetric(x)
  PROVE  MetricsInv'
<1> DEFINE col == [shape |-> x.shape, by |-> "custom"]
<1> USE DEF MetricsInv
<1>1. x.base \in Base /\ x.help \in STRING /\ x.help # Nil /\ col \in Collectors /\ col # Nil
  BY CustomAssumption, PromAssumption DEF Collectors
<1>2. /\ Register(x.base, col, x.help)
      /\ UNCHANGED <<promMetrics, registered, removed>> /\ customMetrics' = customMetrics \cup {x}
      /\ globalMu' => globalMu
  BY DEF AddCustomMetric, promVars
<1> HIDE DEF col
<1>3. RegistryOK' /\ CustomOK'
  BY <1>1, <1>2 DEF RegistryOK, CustomOK, Register
<1>4. \A b \in Base : help[b] # Nil => help'[b] = help[b]
  BY <1>1, <1>2 DEF RegistryOK, Register, RegisterResult
<1>5. \A b \in Base : \/ reg'[b] = reg[b] /\ help'[b] = help[b]
                      \/ reg[b] = Nil /\ help[b] \in {Nil, x.help} /\ help'[b] = x.help
  BY <1>1, <1>2 DEF RegistryOK, Register, RegisterResult
<1>6. HelpInv'
  BY <1>1, <1>2, <1>5 DEF HelpInv
<1>7. ExportInv'
  <2> SUFFICES ASSUME NEW b \in Base, promMetrics[b] # Nil
               PROVE  promMetrics[b].col = reg'[b] \/ b \in removed \/ help'[b] # NoHelp
    BY <1>2 DEF ExportInv
  <2>1. help'[b] = help[b]
    BY <1>4 DEF HelpInv
  <2>2. promMetrics[b].col # Nil
    BY PromAssumption DEF RegistryOK, Adapters
  <2> QED
    BY <1>5, <2>1, <2>2 DEF ExportInv
<1>8. LockLeaksOnForeignClash'
  <2>1. help' \in [Base -> {Nil} \cup STRING] /\ NoHelp # Nil
    <3>1. NoHelp \in STRING
      BY PromAssumption
    <3> QED
      BY <1>3, <3>1, PromAssumption DEF RegistryOK
  <2> QED
    BY <1>2, <1>4, <2>1 DEF LockLeaksOnForeignClash
<1> QED
  BY <1>3, <1>6, <1>7, <1>8, PromUnchanged DEF AddCustomMetric

\* A removal takes the collector away, whoever had it, and is remembered.
LEMMA RemoveInv ==
  ASSUME MetricsInv, NEW x \in Custom, RemoveCustomMetric(x)
  PROVE  MetricsInv'
<1> USE DEF MetricsInv
<1>1. x.base \in Base
  BY CustomAssumption
<1>2. /\ reg' = [reg EXCEPT ![x.base] = Nil] /\ removed' = removed \cup {x.base}
      /\ UNCHANGED <<help, promMetrics, registered>> /\ customMetrics' = customMetrics \ {x}
      /\ globalMu' => globalMu
  BY DEF RemoveCustomMetric, promVars
<1>3. RegistryOK' /\ CustomOK'
  BY <1>1, <1>2 DEF RegistryOK, CustomOK
<1>4. HelpInv' /\ ExportInv'
  BY <1>1, <1>2 DEF HelpInv, ExportInv, RegistryOK
<1>5. LockLeaksOnForeignClash'
  BY <1>2 DEF LockLeaksOnForeignClash
<1> QED
  BY <1>3, <1>4, <1>5, PromUnchanged DEF RemoveCustomMetric

\* Metrics's inductive invariant.
THEOREM MetricsInvariance == MetricsSpec => []MetricsInv
<1>1. ASSUME MetricsInv, [MetricsNext]_metricsVars
      PROVE  MetricsInv'
  <2>1. CASE Kafka
    <3>1. CASE \E c \in Caller : PromStep(c)
      BY <1>1, <2>1, <3>1, DoubleCheckInv, AdoptInv, MakeAdapterInv, PanicInv DEF Kafka, PromStep
    <3>2. CASE \E c \in Caller, r \in Client, m \in Name, k \in Kind : Lookup(c, r, m, k)
      BY <1>1, <2>1, <3>2, LookupInv DEF Kafka
    <3>3. CASE \E r \in Client, m \in Name : Unregister(r, {m}) \/ Unregister(r, Name)
      <4>1. PICK r \in Client, names \in SUBSET Name : Unregister(r, names)
        BY <3>3
      <4> QED
        BY <1>1, <2>1, <4>1, UnregisterInv DEF Kafka
    <3> QED
      BY <2>1, <3>1, <3>2, <3>3 DEF Kafka
  <2>2. CASE \E x \in Custom : AddCustomMetric(x) \/ RemoveCustomMetric(x)
    BY <1>1, <2>2, AddInv, RemoveInv
  <2>3. CASE UNCHANGED metricsVars
    <3>1. UNCHANGED promVars /\ UNCHANGED customVars /\ reg' = reg /\ help' = help
      BY <2>3 DEF metricsVars
    <3>2. promMetrics' = promMetrics /\ registered' = registered /\ (globalMu' => globalMu)
      BY <3>1 DEF promVars
    <3>3. RegistryOK' /\ CustomOK' /\ HelpInv' /\ ExportInv' /\ LockLeaksOnForeignClash'
      BY <1>1, <3>1, <3>2 DEF MetricsInv, RegistryOK, CustomOK, HelpInv, ExportInv,
                              LockLeaksOnForeignClash, customVars
    <3> QED
      BY <1>1, <3>1, <3>3, PromUnchanged DEF MetricsInv
  <2> QED
    BY <1>1, <2>1, <2>2, <2>3 DEF MetricsNext
<1> QED
  BY <1>1, MetricsInitInv, PTL DEF MetricsSpec

\* The state of the metrics keeps its types.
THEOREM MetricsTypeCorrect == MetricsSpec => []MetricsTypeOK
<1>1. MetricsInv => MetricsTypeOK
  <2> SUFFICES ASSUME MetricsInv PROVE MetricsTypeOK
    OBVIOUS
  <2>1. globalMu \in BOOLEAN
    BY Zenon DEF MetricsInv
  <2> QED
    BY <2>1 DEF MetricsInv, MetricsTypeOK, RegistryOK, CallerOK, CustomOK, Calls
<1> QED
  BY <1>1, MetricsInvariance, PTL

\* Whichever goroutine of whichever client asks first for a sanitised name,
\* all registries of kafka.PromRegistry share its adapter, and the adapter's
\* updates reach what Prometheus exports, for any clients, callers, names
\* and custom metrics.
THEOREM ExportedCorrect == MetricsSpec => []UpdatesExported
<1>1. MetricsInv => UpdatesExported
  BY DEF MetricsInv, UpdatesExported, SharedInv, ExportInv
<1> QED
  BY <1>1, MetricsInvariance, PTL

\* A panic of GetOrRegister leaks globalMu only after a clash with a collector
\* that another part of the program registered.
THEOREM LeakCorrect == MetricsSpec => []LockLeaksOnForeignClash
<1>1. MetricsInv => LockLeaksOnForeignClash
  BY DEF MetricsInv
<1> QED
  BY <1>1, MetricsInvariance, PTL

\* No call of GetOrRegister that has ended, by a panic or otherwise, holds its
\* registry's lock: the deferred Unlock is reached on every path.
THEOREM LockCorrect == MetricsSpec => []LockInv
<1>1. MetricsInv => LockInv
  BY DEF MetricsInv
<1> QED
  BY <1>1, MetricsInvariance, PTL
=============================================================================
