------------------------------- MODULE Group -------------------------------
(***************************************************************************)
(* lifecycle.Group (src/lifecycle/group.go): a component made of others.   *)
(* It starts them in order, stopping at the first error, and stops them    *)
(* one after the other in reverse order, going on after an error.          *)
(***************************************************************************)
EXTENDS Integers

CONSTANTS
  N,         \* len(g.components)
  CtxAware   \* the children whose Stop returns once its context is done

Child == 1..N

VARIABLES
  phase,    \* what has happened to the group as a component
  k,        \* the index of the loop Start or Stop is in
  child,    \* what has happened to each child
  errs      \* len(errs) # 0, in Stop

vars == <<phase, k, child, errs>>

Results == {"stopped", "stopErr", "late"}
Unstopped == {"new", "started", "failed"}
Phases  == Unstopped \cup {"stopping"} \cup Results

TypeOK ==
  /\ phase \in {"new", "started", "failed", "stopping", "stopped", "stopErr"}
  /\ k \in 0..(N + 1)
  /\ child \in [Child -> Phases]
  /\ errs \in BOOLEAN

Init ==
  /\ phase = "new" /\ k = 1 /\ errs = FALSE
  /\ child = [c \in Child |-> "new"]

\* One turn of the loop of Start, in which the child's Start returns r.
StartChild(r) ==
  /\ phase = "new" /\ k <= N
  /\ child' = [child EXCEPT ![k] = r]
  /\ IF r = "failed" THEN phase' = "failed" /\ k' = k
                     ELSE phase' = phase /\ k' = k + 1
  /\ UNCHANGED errs

StartReturns ==
  /\ phase = "new" /\ k > N
  /\ phase' = "started"
  /\ UNCHANGED <<k, child, errs>>

CallStop ==
  /\ phase = "started"
  /\ phase' = "stopping"
  /\ k' = N
  /\ UNCHANGED <<child, errs>>

\* Mutant: the loop of Stop runs in registration order.
StopForwards ==
  /\ phase = "stopping" /\ k > 0 /\ child[N + 1 - k] \in Unstopped
  /\ child' = [child EXCEPT ![N + 1 - k] = "stopping"]
  /\ UNCHANGED <<phase, k, errs>>

\* The loop of Stop calls the Stop of the next child and waits for it.
StopChild ==
  /\ phase = "stopping" /\ k > 0 /\ child[k] \in Unstopped
  /\ child' = [child EXCEPT ![k] = "stopping"]
  /\ UNCHANGED <<phase, k, errs>>

ChildResult(r, k_, errs_) ==
  /\ phase = "stopping" /\ k > 0 /\ child[k] = "stopping"
  /\ child' = [child EXCEPT ![k] = r]
  /\ errs' = errs_
  /\ k' = k_
  /\ UNCHANGED phase

\* Mutant: the first error ends the loop.
ChildErrorAborts(r) ==
  ChildResult(r, IF r = "stopped" THEN k - 1 ELSE 0, errs \/ r # "stopped")

\* The child's Stop returns r; an error is kept and the loop goes on.
ChildStopped(r) == ChildResult(r, k - 1, errs \/ r # "stopped")

\* It does so, if it watches its context, when that is done.
ChildLate(expired) == expired /\ k \in CtxAware /\ ChildStopped("late")

StopReturns ==
  /\ phase = "stopping" /\ k = 0
  /\ phase' = IF errs THEN "stopErr" ELSE "stopped"
  /\ UNCHANGED <<k, child, errs>>

Next ==
  \/ \E r \in {"started", "failed"} : StartChild(r)
  \/ StartReturns \/ CallStop \/ StopChild
  \/ \E r \in {"stopped", "stopErr"} : ChildStopped(r)
  \/ ChildLate(TRUE) \/ StopReturns

Spec == Init /\ [][Next]_vars

----------------------------------------------------------------------------
(* Properties *)

\* A child is asked to stop only when all the children after it have stopped:
\* a group keeps the order that Lifecycle only documents.
ReverseStopOrder ==
  \A c, d \in Child : (c < d /\ child[c] \in {"stopping"} \cup Results) => child[d] \in Results

\* When Stop returns, the Stop of every child has been called and has
\* returned, the errors of some of them notwithstanding, and the group
\* reports an error exactly when one of them did.
StopIsComplete ==
  phase \in Results =>
    /\ \A c \in Child : child[c] \in Results
    /\ phase = "stopErr" <=> \E c \in Child : child[c] # "stopped"
=============================================================================
