----------------------------- MODULE Component -----------------------------
(***************************************************************************)
(* The calls a set of lifecycle.Components may receive, as an abstract     *)
(* specification: each is started at most once, and stopped at most once   *)
(* and only after its Start succeeded.  It is the contract between what    *)
(* drives components (Lifecycle, Group) and what they are.                 *)
(***************************************************************************)
CONSTANT Comp

VARIABLE phase

\* A Stop returns nil, an error of its own or the error of its context.
Results == {"stopped", "stopErr", "late"}

Init == phase = [c \in Comp |-> "new"]

Start(c, r) ==
  phase[c] = "new" /\ phase' = [phase EXCEPT ![c] = r]

CallStop(c) ==
  phase[c] = "started" /\ phase' = [phase EXCEPT ![c] = "stopping"]

StopReturns(c, r) ==
  phase[c] = "stopping" /\ phase' = [phase EXCEPT ![c] = r]

Next ==
  \E c \in Comp :
    \/ \E r \in {"started", "failed"} : Start(c, r)
    \/ CallStop(c)
    \/ \E r \in Results : StopReturns(c, r)

Spec == Init /\ [][Next]_phase
=============================================================================
