--------------------------- MODULE KafkaConsumer ---------------------------
(***************************************************************************)
(* kafka.ConsumerComponent, KafkaClient.consumeLoop and ConsumeClaim of    *)
(* the default handler (src/kafka), for one partition of one consumer      *)
(* group.  The broker and sarama's group session are external: a session   *)
(* begins at the committed offset or, without one, at the end of the log,  *)
(* ends on a rebalance, a cancelled context or Close, and commits what was *)
(* marked now and then and when it is released.                            *)
(***************************************************************************)
EXTENDS Integers

CONSTANTS
  MaxOffset,    \* bound: how many messages are produced
  MaxRestarts   \* bound: how often the process crashes or is redeployed

ASSUME KafkaConsumerAssumption == MaxOffset \in Nat /\ MaxRestarts \in Nat

VARIABLES
  \* the broker
  leo,         \* the log's end: messages 0..leo-1 exist
  committed,   \* the group's committed offset, -1 without one
  \* the component
  loop,        \* where the goroutine of consumeLoop is
  runDone,     \* runCtx is cancelled
  stop,        \* where ConsumerComponent.Stop is
  closed,      \* KafkaClient.Close has closed the consumer group
  \* the session and its claim
  sessDone,    \* session.Context() is done
  pos,         \* the offset of the message taken last or to be taken next
  handling,    \* the handler is running on message pos
  marked,      \* the offset marked in this session, -1 without one
  \* history
  processed,   \* messages whose handler returned nil
  failed,      \* messages whose handler returned an error
  skipped,     \* messages that were in the log when a session began at its end
  restarts

broker    == <<leo, committed>>
component == <<loop, runDone, stop, closed>>
session   == <<sessDone, pos, handling, marked>>
history   == <<processed, failed, skipped, restarts>>
vars      == <<broker, component, session, history>>

Offsets == 0..MaxOffset

TypeOK ==
  /\ leo \in Offsets /\ committed \in Offsets \cup {-1}
  /\ loop \in {"off", "top", "consuming", "session", "sleep", "exited"}
  /\ stop \in {"idle", "waiting", "ok", "late"}
  /\ runDone \in BOOLEAN /\ closed \in BOOLEAN
  /\ sessDone \in BOOLEAN /\ handling \in BOOLEAN
  /\ pos \in Offsets /\ marked \in Offsets \cup {-1}
  /\ processed \cup failed \cup skipped \subseteq 0..(leo - 1)
  /\ restarts \in 0..MaxRestarts

Init ==
  /\ leo = 0 /\ committed = -1
  /\ loop = "off" /\ stop = "idle" /\ runDone = FALSE /\ closed = FALSE
  /\ sessDone = FALSE /\ pos = 0 /\ handling = FALSE /\ marked = -1
  /\ processed = {} /\ failed = {} /\ skipped = {} /\ restarts = 0

----------------------------------------------------------------------------
(* ConsumerComponent *)

\* The goroutine looks the consumer up; a name that was never initialised
\* ends it with an error that is only logged.
Start ==
  /\ loop = "off"
  /\ loop' \in {"top", "exited"}
  /\ UNCHANGED <<runDone, stop, closed, broker, session, history>>

\* runCtx ends with the context that Lifecycle.Run was given.
Cancel ==
  /\ loop # "off" /\ ~runDone
  /\ runDone' = TRUE
  /\ UNCHANGED <<loop, stop, closed, broker, session, history>>

CallStop ==
  /\ loop # "off" /\ stop = "idle"
  /\ stop' = "waiting"
  /\ runDone' = TRUE
  /\ UNCHANGED <<loop, closed, broker, session, history>>

\* Mutant: Stop returns without waiting for the goroutine.
StopReturnsAtOnce ==
  /\ stop = "waiting"
  /\ stop' = "ok"
  /\ UNCHANGED <<loop, runDone, closed, broker, session, history>>

StopReturns ==
  /\ stop = "waiting" /\ loop = "exited"
  /\ stop' = "ok"
  /\ UNCHANGED <<loop, runDone, closed, broker, session, history>>

\* The stop context is done first: the goroutine is left running.
StopGivesUp ==
  /\ stop = "waiting"
  /\ stop' = "late"
  /\ UNCHANGED <<loop, runDone, closed, broker, session, history>>

\* KafkaClient.Stop, which Lifecycle runs beside the Stop of this component.
ClientClose ==
  /\ ~closed
  /\ closed' = TRUE
  /\ UNCHANGED <<loop, runDone, stop, broker, session, history>>

----------------------------------------------------------------------------
(* consumeLoop *)

\* Mutant: the loop does not look at its context.
LoopTopUnchecked ==
  /\ loop = "top"
  /\ loop' = "consuming"
  /\ UNCHANGED <<runDone, stop, closed, broker, session, history>>

LoopTop ==
  /\ loop = "top"
  /\ loop' = IF runDone THEN "exited" ELSE "consuming"
  /\ UNCHANGED <<runDone, stop, closed, broker, session, history>>

\* After an error of Consume the loop ends if its context is done, and
\* otherwise sleeps for two seconds.
AfterError == IF runDone THEN "exited" ELSE "sleep"

\* Consume returns an error before a session is established; a closed group
\* gives nothing else.
ConsumeFails ==
  /\ loop = "consuming"
  /\ loop' = AfterError
  /\ UNCHANGED <<runDone, stop, closed, broker, session, history>>

Awake ==
  /\ loop = "sleep"
  /\ loop' = "top"
  /\ UNCHANGED <<runDone, stop, closed, broker, session, history>>

----------------------------------------------------------------------------
(* The group session, external, as Offsets.Initial = OffsetNewest sets it up *)

SessionOpens ==
  /\ loop = "consuming" /\ ~closed
  /\ loop' = "session"
  /\ pos' = IF committed = -1 THEN leo ELSE committed
  /\ skipped' = IF committed = -1 THEN skipped \cup (0..(leo - 1)) ELSE skipped
  /\ sessDone' = runDone /\ handling' = FALSE /\ marked' = -1
  /\ UNCHANGED <<runDone, stop, closed, broker, processed, failed, restarts>>

SessionCtxDone(cause) ==
  /\ loop = "session" /\ ~sessDone
  /\ cause
  /\ sessDone' = TRUE
  /\ UNCHANGED <<pos, handling, marked, broker, component, history>>

Rebalance == SessionCtxDone(TRUE)
Shutdown  == SessionCtxDone(runDone \/ closed)

Commit == IF marked > committed THEN marked ELSE committed

AutoCommit ==
  /\ loop = "session"
  /\ committed' = Commit /\ committed' # committed
  /\ UNCHANGED <<leo, component, session, history>>

\* The claim has returned: what is marked is committed, unless the group has
\* moved on without this member, and Consume returns nil or an error.
SessionReleased ==
  /\ loop = "session" /\ sessDone /\ ~handling
  /\ committed' \in {Commit, committed}
  /\ loop' \in {"top", AfterError}
  /\ UNCHANGED <<leo, runDone, stop, closed, session, history>>

----------------------------------------------------------------------------
(* ConsumeClaim *)

\* Mutant: the message is marked before its handler is called.
TakeAndMark ==
  /\ loop = "session" /\ ~handling /\ pos < leo
  /\ handling' = TRUE
  /\ marked' = pos + 1
  /\ UNCHANGED <<sessDone, pos, broker, component, history>>

\* The select may take a message although the session is done.
Take ==
  /\ loop = "session" /\ ~handling /\ pos < leo
  /\ handling' = TRUE
  /\ UNCHANGED <<sessDone, pos, marked, broker, component, history>>

\* Mutant: MarkMessage also covers the message after this one.
HandlerOkMarksNext ==
  /\ handling
  /\ processed' = processed \cup {pos}
  /\ marked' = pos + 2
  /\ pos' = pos + 1 /\ handling' = FALSE
  /\ UNCHANGED <<sessDone, failed, skipped, restarts, broker, component>>

HandlerOk ==
  /\ handling
  /\ processed' = processed \cup {pos}
  /\ marked' = pos + 1
  /\ pos' = pos + 1 /\ handling' = FALSE
  /\ UNCHANGED <<sessDone, failed, skipped, restarts, broker, component>>

\* The error is logged, the message is not marked and the loop continues.
HandlerErr ==
  /\ handling
  /\ failed' = failed \cup {pos}
  /\ pos' = pos + 1 /\ handling' = FALSE
  /\ UNCHANGED <<sessDone, marked, processed, skipped, restarts, broker, component>>

----------------------------------------------------------------------------
(* The environment *)

Produce ==
  /\ leo < MaxOffset
  /\ leo' = leo + 1
  /\ UNCHANGED <<committed, component, session, history>>

\* A crash at any point, or a redeployment: only the broker's state is left.
Restart ==
  /\ restarts < MaxRestarts /\ loop # "off"
  /\ restarts' = restarts + 1
  /\ loop' = "off" /\ stop' = "idle" /\ runDone' = FALSE /\ closed' = FALSE
  /\ sessDone' = FALSE /\ pos' = 0 /\ handling' = FALSE /\ marked' = -1
  /\ UNCHANGED <<broker, processed, failed, skipped>>

Next ==
  \/ Start \/ Cancel \/ CallStop \/ StopReturns \/ StopGivesUp \/ ClientClose
  \/ LoopTop \/ ConsumeFails \/ Awake
  \/ SessionOpens \/ Rebalance \/ Shutdown \/ AutoCommit \/ SessionReleased
  \/ Take \/ HandlerOk \/ HandlerErr
  \/ Produce \/ Restart

Spec == Init /\ [][Next]_vars

\* Goroutines that can run do, the stop context expires, the two seconds pass
\* and a session that must end ends.  A group that is open is joined now and
\* then, and rebalances do not for ever strike before the same message is
\* taken.  Nothing makes a handler return.
FairSpec ==
  /\ Spec
  /\ WF_vars(Start) /\ WF_vars(StopReturns) /\ WF_vars(StopGivesUp)
  /\ WF_vars(LoopTop) /\ WF_vars(ConsumeFails) /\ WF_vars(Awake)
  /\ WF_vars(Shutdown) /\ WF_vars(SessionReleased)
  /\ SF_vars(SessionOpens)
  /\ \A o \in Offsets : SF_vars(Take /\ pos = o)

----------------------------------------------------------------------------
(* Properties *)

\* Whatever crashes, rebalances and failed commits happen, the group's offset
\* passes a message only if its handler was called for it and returned, or if
\* the message was older than a session that had no committed offset to begin
\* at.  (It does pass messages whose handler failed: they are not redelivered
\* once a later one succeeds.)
CommittedWasHandled ==
  \A o \in 0..(committed - 1) : o \in processed \cup failed \cup skipped

\* A message whose handler is still running is not committed, so that a crash
\* has it delivered again.
InFlightNotCommitted == handling => committed <= pos

\* When Stop returns nil the consumer goroutine is gone: no handler is running
\* that could use what the other components have closed.
QuietAfterStop == stop = "ok" => loop = "exited" /\ ~handling

\* A cancelled loop ends, in whichever of its states the cancellation found
\* it, unless a handler runs for ever.
LoopEnds == runDone ~> (loop \in {"off", "exited"} \/ []handling)

\* Once the group has a committed offset, every message from there on reaches
\* a handler unless its context ends, the client is closed, the consumer
\* unknown or a handler never returns: crashes and rebalances lose nothing.
EventuallyHandled ==
  \A o \in 0..(MaxOffset - 1) :
    (0 <= committed /\ committed <= o /\ o < leo) ~>
      \/ o \in processed \cup failed
      \/ closed \/ loop = "exited" \/ runDone
      \/ []handling
=============================================================================
