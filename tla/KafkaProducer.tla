--------------------------- MODULE KafkaProducer ---------------------------
(***************************************************************************)
(* The asynchronous producer of package kafka: InitAsyncProducer,          *)
(* SendMessageAsync and Close of KafkaClient (src/kafka/kafka.go) and the  *)
(* AsyncProducerComponent, whose two goroutines read the outcomes          *)
(* (src/kafka/producer_component.go).  sarama's producer is external: it   *)
(* holds up to Buffer messages, and keeps each until somebody reads its    *)
(* outcome from Successes or Errors, which only the two goroutines and     *)
(* Close do.                                                               *)
(***************************************************************************)
EXTENDS Integers, FiniteSets

CONSTANTS
  Msg,     \* the messages that are sent
  Buffer   \* how many sarama holds

ASSUME KafkaProducerAssumption == Buffer \in Nat \ {0}

Outcomes == {"success", "error"}

VARIABLES
  prod,       \* the producer: not made, open, being closed, closed
  comp,       \* where the component is
  watch,      \* the goroutine that reads each kind of outcome
  runCtxDone, \* runCtx is cancelled
  msg,        \* where each message is
  outcome     \* what the broker says of each

producerVars == <<prod, comp, watch, runCtxDone, msg, outcome>>

Held == {m \in Msg : msg[m] = "held"}

ProducerTypeOK ==
  /\ prod \in {"none", "open", "closing", "closed"}
  /\ comp \in {"new", "failed", "running", "waiting", "stopped", "late"}
  /\ watch \in [Outcomes -> {"off", "on", "exited"}]
  /\ runCtxDone \in BOOLEAN
  /\ msg \in [Msg -> {"new", "notFound", "blocked", "held", "logged", "drained", "refused", "panic"}]
  /\ outcome \in [Msg -> Outcomes]
  /\ Cardinality(Held) <= Buffer

ProducerInit ==
  /\ prod = "none" /\ comp = "new" /\ runCtxDone = FALSE
  /\ watch = [k \in Outcomes |-> "off"]
  /\ msg = [m \in Msg |-> "new"]
  /\ outcome \in [Msg -> Outcomes]

----------------------------------------------------------------------------
(* KafkaClient *)

InitAsyncProducer ==
  /\ prod = "none"
  /\ prod' = "open"
  /\ UNCHANGED <<comp, watch, runCtxDone, msg, outcome>>

\* The producer is looked up, and the message handed to its input channel,
\* which blocks the caller whatever his context says.
SendMessageAsync(m) ==
  /\ msg[m] = "new"
  /\ msg' = [msg EXCEPT ![m] = IF prod = "none" THEN "notFound" ELSE "blocked"]
  /\ UNCHANGED <<prod, comp, watch, runCtxDone, outcome>>

CallClose ==
  /\ prod = "open"
  /\ prod' = "closing"
  /\ UNCHANGED <<comp, watch, runCtxDone, msg, outcome>>

\* Close returns when every message has an outcome that was read.
CloseReturns ==
  /\ prod = "closing" /\ Held = {}
  /\ prod' = "closed"
  /\ UNCHANGED <<comp, watch, runCtxDone, msg, outcome>>

----------------------------------------------------------------------------
(* sarama, external *)

Moves(m, from, to) ==
  /\ msg[m] = from
  /\ msg' = [msg EXCEPT ![m] = to]
  /\ UNCHANGED <<prod, comp, watch, runCtxDone, outcome>>

Accept(m) ==
  /\ prod \in {"open", "closing"} /\ Cardinality(Held) < Buffer
  /\ Moves(m, "blocked", "held")

\* A message that arrives during Close is answered with ErrShuttingDown.
Refuse(m) == prod = "closing" /\ Moves(m, "blocked", "refused")

\* The input channel is closed under the sender, or before it sends.
SendPanics(m) == prod = "closed" /\ Moves(m, "blocked", "panic")

\* Mutant: Close waits for the outcomes without reading them.
DrainNothing(m) == FALSE /\ Moves(m, "held", "drained")

\* Close reads the outcomes itself, beside the component's goroutines.
Drain(m) == prod = "closing" /\ Moves(m, "held", "drained")

----------------------------------------------------------------------------
(* AsyncProducerComponent *)

StartProducer ==
  /\ comp = "new"
  /\ IF prod = "none"
       THEN comp' = "failed" /\ UNCHANGED watch
       ELSE comp' = "running" /\ watch' = [k \in Outcomes |-> "on"]
  /\ UNCHANGED <<prod, runCtxDone, msg, outcome>>

\* Mutant: a goroutine returns after the first outcome it has logged.
WatchOnce(m) ==
  /\ msg[m] = "held" /\ watch[outcome[m]] = "on"
  /\ msg' = [msg EXCEPT ![m] = "logged"]
  /\ watch' = [watch EXCEPT ![outcome[m]] = "exited"]
  /\ UNCHANGED <<prod, comp, runCtxDone, outcome>>

\* The select may take an outcome although the context is done.
Watch(m) == watch[outcome[m]] = "on" /\ Moves(m, "held", "logged")

\* The context is done or the channel closed.
WatchExits(k) ==
  /\ watch[k] = "on" /\ (runCtxDone \/ prod = "closed")
  /\ watch' = [watch EXCEPT ![k] = "exited"]
  /\ UNCHANGED <<prod, comp, runCtxDone, msg, outcome>>

\* runCtx ends with the context that Lifecycle.Run was given.
CancelProducer ==
  /\ comp = "running" /\ ~runCtxDone
  /\ runCtxDone' = TRUE
  /\ UNCHANGED <<prod, comp, watch, msg, outcome>>

CallStopProducer ==
  /\ comp = "running"
  /\ comp' = "waiting" /\ runCtxDone' = TRUE
  /\ UNCHANGED <<prod, watch, msg, outcome>>

StopProducerReturns ==
  /\ comp = "waiting" /\ \A k \in Outcomes : watch[k] = "exited"
  /\ comp' = "stopped"
  /\ UNCHANGED <<prod, watch, runCtxDone, msg, outcome>>

\* The stop context is done first.
StopProducerGivesUp ==
  /\ comp = "waiting"
  /\ comp' = "late"
  /\ UNCHANGED <<prod, watch, runCtxDone, msg, outcome>>

ProducerNext ==
  \/ InitAsyncProducer \/ CallClose \/ CloseReturns
  \/ StartProducer \/ CancelProducer \/ CallStopProducer \/ StopProducerReturns \/ StopProducerGivesUp
  \/ \E k \in Outcomes : WatchExits(k)
  \/ \E m \in Msg : \/ SendMessageAsync(m) \/ Accept(m) \/ Refuse(m) \/ SendPanics(m)
                    \/ Drain(m) \/ Watch(m)

ProducerSpec == ProducerInit /\ [][ProducerNext]_producerVars

\* Goroutines that can run do.  Lifecycle stops the client when it stops the
\* component, and both when its context is cancelled, so that a Close follows;
\* nothing makes either begin.
FairProducerSpec ==
  /\ ProducerSpec
  /\ WF_producerVars(runCtxDone /\ CallClose) /\ WF_producerVars(CloseReturns)
  /\ WF_producerVars(StopProducerReturns) /\ WF_producerVars(StopProducerGivesUp)
  /\ \A k \in Outcomes : WF_producerVars(WatchExits(k))
  /\ \A m \in Msg : /\ SF_producerVars(Accept(m)) /\ WF_producerVars(Refuse(m)) /\ WF_producerVars(SendPanics(m))
                    /\ WF_producerVars(Drain(m)) /\ WF_producerVars(Watch(m))

----------------------------------------------------------------------------
(* Properties *)

\* Close returns: the goroutines that stop reading do not block it.
CloseEnds == prod = "closing" ~> prod = "closed"

\* A sender waits for ever only if the producer is open and nobody reads one
\* of the outcomes, because the component was never started: with it running,
\* stopping or stopped, every call of SendMessageAsync ends.
SendersReleased ==
  \A m \in Msg :
    msg[m] = "blocked" ~> (msg[m] # "blocked" \/ [](prod = "open" /\ comp \in {"new", "failed"}))
=============================================================================
