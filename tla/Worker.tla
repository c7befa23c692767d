------------------------------- MODULE Worker -------------------------------
(***************************************************************************)
(* worker.Worker (src/worker/main.go): a pool of goroutines, each running  *)
(* the handler once.  Stop cancels the context of the pool and waits for   *)
(* every goroutine, without a deadline.  A second Start, which Run or a    *)
(* second registration makes, adds a batch of goroutines under a context   *)
(* of its own and replaces w.cancel.                                       *)
(***************************************************************************)
EXTENDS Integers, FiniteSets

CONSTANTS
  NumOfWorker,   \* goroutines per Start
  Heedful,       \* the indexes whose handler returns once its context is done
  MaxStarts      \* bound: how often Start is called

Index == 1..NumOfWorker
Batch == 1..MaxStarts

VARIABLES
  starts,    \* how many Starts were made; w.cancel belongs to the last one
  run,       \* each goroutine of each batch
  ctxDone,   \* the batches whose runCtx is done
  wg,        \* the wait group's counter
  stop       \* where Stop is

vars == <<starts, run, ctxDone, wg, stop>>

Running == {g \in Batch \X Index : run[g] = "running"}

TypeOK ==
  /\ starts \in 0..MaxStarts
  /\ run \in [Batch \X Index -> {"none", "running", "done"}]
  /\ ctxDone \subseteq Batch
  /\ wg \in Nat
  /\ stop \in {"idle", "waiting", "returned"}

Init ==
  /\ starts = 0
  /\ run = [g \in Batch \X Index |-> "none"]
  /\ ctxDone = {}
  /\ wg = 0
  /\ stop = "idle"

Start ==
  /\ stop = "idle"
  /\ starts < MaxStarts
  /\ starts' = starts + 1
  /\ run' = [g \in Batch \X Index |-> IF g[1] = starts' THEN "running" ELSE run[g]]
  /\ wg' = wg + NumOfWorker
  /\ UNCHANGED <<ctxDone, stop>>

\* The owner of w.Ctx cancels it, and with it the context of every batch.
CancelBase ==
  /\ ctxDone # 1..starts
  /\ ctxDone' = 1..starts
  /\ UNCHANGED <<starts, run, wg, stop>>

\* Handle returns, whatever its result: the error is logged, the worker is
\* not restarted.
HandlerEnds(g) ==
  /\ run[g] = "running"
  /\ run' = [run EXCEPT ![g] = "done"]
  /\ wg' = wg - 1
  /\ UNCHANGED <<starts, ctxDone, stop>>

\* Handle returns because its context is done.
HandlerHeeds(g) == g[2] \in Heedful /\ g[1] \in ctxDone /\ HandlerEnds(g)

\* w.cancel is nil before the first Start.
CallStop ==
  /\ stop = "idle"
  /\ stop' = "waiting"
  /\ ctxDone' = ctxDone \cup (IF starts = 0 THEN {} ELSE {starts})
  /\ UNCHANGED <<starts, run, wg>>

StopReturns ==
  /\ stop = "waiting"
  /\ wg = 0
  /\ stop' = "returned"
  /\ UNCHANGED <<starts, run, ctxDone, wg>>

Next ==
  \/ Start \/ CancelBase \/ CallStop \/ StopReturns
  \/ \E g \in Batch \X Index : HandlerEnds(g) \/ HandlerHeeds(g)

Spec == Init /\ [][Next]_vars

----------------------------------------------------------------------------
(* Properties *)

\* When Stop has returned, no handler of any batch is running: Stop never
\* gives up, so what it waited for has ended.
NothingRunsAfterStop == stop = "returned" => Running = {}

\* The handlers that can keep Stop waiting for ever: the ones that ignore
\* their context, and the ones of a batch whose cancel function a later
\* Start has overwritten.
Unstoppable == {g \in Running : g[2] \notin Heedful \/ (g[1] # starts /\ g[1] \notin ctxDone)}
=============================================================================
