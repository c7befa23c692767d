----------------------------- MODULE Lifecycle -----------------------------
(***************************************************************************)
(* lifecycle.Lifecycle: Register and Run (src/lifecycle/lifecycle.go).     *)
(*                                                                         *)
(* Run starts the components one after the other, waits for SIGINT,        *)
(* SIGTERM or the cancellation of its context, and then stops all of them, *)
(* each in a goroutine of its own, within one common deadline.             *)
(***************************************************************************)
EXTENDS Integers, FiniteSets

CONSTANTS
  N,            \* how many components may be registered
  CtxAware,     \* those whose Stop returns once its context is done
  StopTimeout   \* lc.stopTimeout, in ticks

Comp == 1..N

ASSUME LifecycleAssumption ==
  /\ N \in Nat
  /\ CtxAware \subseteq Comp
  /\ StopTimeout \in Nat

VARIABLES
  pc,         \* where Run is
  n,          \* len(lc.components): components 1..n are registered
  i,          \* the index of the loop Run is in
  comp,       \* what has happened to each component
  wg,         \* the wait group's counter
  cancelled,  \* the context given to Run is cancelled
  signalled,  \* a signal has reached the handler NotifyContext installs
  clock       \* ticks since stopCtx was made

vars == <<pc, n, i, comp, wg, cancelled, signalled, clock>>

StopResults == {"stopped", "stopErr", "late"}
CompState   == {"new", "started", "failed", "spawned", "stopping"} \cup StopResults

TypeOK ==
  /\ pc \in {"new", "starting", "waiting", "stopping", "returned", "failed", "killed"}
  /\ n \in 0..N
  /\ i \in 0..(N + 1)
  /\ comp \in [Comp -> CompState]
  /\ wg \in Nat
  /\ cancelled \in BOOLEAN
  /\ signalled \in BOOLEAN
  /\ clock \in 0..StopTimeout

Init ==
  /\ pc = "new"
  /\ n = 0
  /\ i = 0
  /\ comp = [c \in Comp |-> "new"]
  /\ wg = 0
  /\ cancelled = FALSE
  /\ signalled = FALSE
  /\ clock = 0

----------------------------------------------------------------------------
(* Register and the start loop *)

\* Register appends one more component; the program registers before it runs.
Register ==
  /\ pc = "new"
  /\ n < N
  /\ n' = n + 1
  /\ UNCHANGED <<pc, i, comp, wg, cancelled, signalled, clock>>

CallRun ==
  /\ pc = "new"
  /\ pc' = "starting"
  /\ i' = 1
  /\ UNCHANGED <<n, comp, wg, cancelled, signalled, clock>>

StartOk ==
  /\ pc = "starting"
  /\ i <= n
  /\ comp' = [comp EXCEPT ![i] = "started"]
  /\ i' = i + 1
  /\ UNCHANGED <<pc, n, wg, cancelled, signalled, clock>>

\* Mutant: the error of Start is logged and the loop goes on.
StartErrIgnored ==
  /\ pc = "starting"
  /\ i <= n
  /\ comp' = [comp EXCEPT ![i] = "failed"]
  /\ i' = i + 1
  /\ UNCHANGED <<pc, n, wg, cancelled, signalled, clock>>

\* The first error ends Run: what was already started is left as it is.
StartErr ==
  /\ pc = "starting"
  /\ i <= n
  /\ comp' = [comp EXCEPT ![i] = "failed"]
  /\ pc' = "failed"
  /\ UNCHANGED <<n, i, wg, cancelled, signalled, clock>>

\* Only now is a signal handler installed.
NotifyContext ==
  /\ pc = "starting"
  /\ i > n
  /\ pc' = "waiting"
  /\ UNCHANGED <<n, i, comp, wg, cancelled, signalled, clock>>

----------------------------------------------------------------------------
(* The environment: signals, the caller's context, time *)

\* Before NotifyContext a signal has its default effect.
KilledBySignal ==
  /\ pc \in {"new", "starting"}
  /\ pc' = "killed"
  /\ UNCHANGED <<n, i, comp, wg, cancelled, signalled, clock>>

Signal ==
  /\ pc = "waiting"
  /\ ~signalled
  /\ signalled' = TRUE
  /\ UNCHANGED <<pc, n, i, comp, wg, cancelled, clock>>

Cancel ==
  /\ pc \in {"starting", "waiting", "stopping"}
  /\ ~cancelled
  /\ cancelled' = TRUE
  /\ UNCHANGED <<pc, n, i, comp, wg, signalled, clock>>

Tick ==
  /\ pc = "stopping"
  /\ clock < StopTimeout
  /\ clock' = clock + 1
  /\ UNCHANGED <<pc, n, i, comp, wg, cancelled, signalled>>

----------------------------------------------------------------------------
(* The stop phase *)

SignalCtxDone == signalled \/ cancelled

\* stopCtx is made from ctx without its cancellation, so only time ends it.
StopCtxDone == clock = StopTimeout

\* Mutant: the stop loop begins one too low.
WakeOffByOne ==
  /\ pc = "waiting"
  /\ SignalCtxDone
  /\ pc' = "stopping"
  /\ i' = IF n = 0 THEN 0 ELSE n - 1
  /\ UNCHANGED <<n, comp, wg, cancelled, signalled, clock>>

Wake ==
  /\ pc = "waiting"
  /\ SignalCtxDone
  /\ pc' = "stopping"
  /\ i' = n
  /\ UNCHANGED <<n, comp, wg, cancelled, signalled, clock>>

\* One turn of the loop: wg.Add(1) and the go statement.
SpawnStop ==
  /\ pc = "stopping"
  /\ i > 0
  /\ wg' = wg + 1
  /\ comp' = [comp EXCEPT ![i] = "spawned"]
  /\ i' = i - 1
  /\ UNCHANGED <<pc, n, cancelled, signalled, clock>>

\* A goroutine is scheduled and calls Stop.
CallStop(c) ==
  /\ comp[c] = "spawned"
  /\ comp' = [comp EXCEPT ![c] = "stopping"]
  /\ UNCHANGED <<pc, n, i, wg, cancelled, signalled, clock>>

\* Mutant: wg.Done is skipped when Stop returns an error.
StopDoneUnlessError(c, r) ==
  /\ comp[c] = "stopping"
  /\ comp' = [comp EXCEPT ![c] = r]
  /\ wg' = IF r = "stopped" THEN wg - 1 ELSE wg
  /\ UNCHANGED <<pc, n, i, cancelled, signalled, clock>>

\* Stop has returned r; an error is only logged; wg.Done is deferred.
StopDone(c, r) ==
  /\ comp[c] = "stopping"
  /\ comp' = [comp EXCEPT ![c] = r]
  /\ wg' = wg - 1
  /\ UNCHANGED <<pc, n, i, cancelled, signalled, clock>>

StopReturns(c) == \E r \in {"stopped", "stopErr"} : StopDone(c, r)

\* Stop gives up because its context is done.
StopLate(c) == c \in CtxAware /\ StopCtxDone /\ StopDone(c, "late")

\* wg.Wait is passed and Run returns nil.
Return ==
  /\ pc = "stopping"
  /\ i = 0
  /\ wg = 0
  /\ pc' = "returned"
  /\ UNCHANGED <<n, i, comp, wg, cancelled, signalled, clock>>

Next ==
  \/ Register \/ CallRun \/ StartOk \/ StartErr \/ NotifyContext
  \/ KilledBySignal \/ Signal \/ Cancel \/ Tick
  \/ Wake \/ SpawnStop \/ Return
  \/ \E c \in Comp : CallStop(c) \/ StopReturns(c) \/ StopLate(c)

Spec == Init /\ [][Next]_vars

----------------------------------------------------------------------------
(* Properties *)

Registered  == 1..n
StopPending == {c \in Comp : comp[c] \in {"spawned", "stopping"}}

\* The wait group counts exactly the goroutines whose Stop has not returned:
\* wg.Add precedes the go statement and wg.Done follows every Stop.
WaitGroupExact == wg = Cardinality(StopPending)

\* Run returns nil only when the Stop of every registered component was
\* called and has returned: no goroutine of Run outlives it.
ReturnAfterEveryStop ==
  pc = "returned" => \A c \in Registered : comp[c] \in StopResults

\* No component is asked to stop before every registered one has started: a
\* failed Start, a signal or a cancellation during the start loop stop nothing.
StopAfterAllStarted ==
  (\E c \in Comp : comp[c] \in {"spawned", "stopping"} \cup StopResults)
    => \A c \in Registered : comp[c] \notin {"new", "failed"}

\* Every component receives only calls the Component contract allows: to its
\* component a spawned goroutine is invisible until it calls Stop.
Phase == [c \in Comp |-> IF comp[c] = "spawned" THEN "started" ELSE comp[c]]
Contract == INSTANCE Component WITH phase <- Phase
ComponentContract == Contract!Spec
=============================================================================
