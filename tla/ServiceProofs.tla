--------------------------- MODULE ServiceProofs ---------------------------
(***************************************************************************)
(* Lifecycle is correct for every number of components, every subset of    *)
(* them that watches its stop context and every stop timeout.  The service *)
(* implements it, and so inherits its theorems; its group, its worker pool *)
(* and its metrics server keep their invariants in it; and together these  *)
(* give what the service as a whole promises, for any size of the group    *)
(* and of the pool and for any requests.                                   *)
(***************************************************************************)
EXTENDS Service, FiniteSetTheorems, TLAPS

----------------------------------------------------------------------------
(* Lifecycle *)

\* The states a registered component can be in once its Stop is under way.
AfterSpawn == {"spawned", "stopping"} \cup StopResults

\* What the two loops of Run have done so far, at each of its control points.
LoopInv ==
  /\ pc = "new" => \A c \in Comp : comp[c] = "new"
  /\ pc = "starting" =>
       /\ 1 <= i /\ i <= n + 1
       /\ \A c \in Comp : comp[c] = IF c < i THEN "started" ELSE "new"
  /\ pc = "waiting" =>
       \A c \in Comp : comp[c] = IF c <= n THEN "started" ELSE "new"
  /\ pc \in {"stopping", "returned"} =>
       /\ i <= n
       /\ \A c \in Comp : /\ c <= i => comp[c] = "started"
                          /\ i < c /\ c <= n => comp[c] \in AfterSpawn
                          /\ n < c => comp[c] = "new"
  /\ pc = "returned" => i = 0 /\ wg = 0
  /\ pc \in {"failed", "killed"} =>
       \A c \in Comp : comp[c] \in {"new", "started", "failed"}

IInv == TypeOK /\ WaitGroupExact /\ LoopInv

\* The set the wait group counts is finite and, empty, has a zero counter.
LEMMA PendingFinite ==
  /\ IsFiniteSet(StopPending)
  /\ Cardinality(StopPending) \in Nat
  /\ Cardinality(StopPending) = 0 <=> StopPending = {}
<1>1. IsFiniteSet(Comp)
  BY FS_Interval, LifecycleAssumption DEF Comp
<1>2. StopPending \in SUBSET Comp
  BY DEF StopPending
<1>3. IsFiniteSet(StopPending)
  BY <1>1, <1>2, FS_Subset
<1> QED
  BY <1>3, FS_CardinalityType, FS_EmptySet

\* Before anything is registered nothing is pending and IInv holds.
LEMMA InitInv == Init => IInv
<1> SUFFICES ASSUME Init PROVE IInv
  OBVIOUS
<1>1. StopPending = {}
  BY DEF Init, StopPending
<1>2. Cardinality(StopPending) = 0
  BY <1>1, FS_EmptySet
<1>3. cancelled \in BOOLEAN /\ signalled \in BOOLEAN
  BY DEF Init
<1>4. TypeOK
  BY <1>3, LifecycleAssumption DEF Init, TypeOK, CompState
<1> QED
  BY <1>2, <1>4, LifecycleAssumption
  DEF Init, IInv, TypeOK, WaitGroupExact, LoopInv, Comp

\* Every step of Run, of a stop goroutine and of the environment keeps IInv.
LEMMA NextInv == IInv /\ [Next]_vars => IInv'
<1> SUFFICES ASSUME IInv, [Next]_vars PROVE IInv'
  OBVIOUS
<1> USE LifecycleAssumption DEF IInv, TypeOK, CompState, StopResults, Comp
<1>0. IsFiniteSet(StopPending) /\ Cardinality(StopPending) \in Nat
  BY PendingFinite
<1>a. ASSUME comp' = comp, wg' = wg PROVE WaitGroupExact'
  <2>1. StopPending' = StopPending
    BY <1>a DEF StopPending
  <2> QED
    BY <1>a, <2>1 DEF WaitGroupExact
<1>b. ASSUME NEW c \in Comp, NEW s, comp' = [comp EXCEPT ![c] = s], wg' = wg,
             s \in {"spawned", "stopping"} <=> comp[c] \in {"spawned", "stopping"}
      PROVE  WaitGroupExact'
  <2>1. StopPending' = StopPending
    BY <1>b DEF StopPending
  <2> QED
    BY <1>b, <2>1 DEF WaitGroupExact
<1>1. CASE Register
  BY <1>1, <1>a DEF Register, LoopInv
<1>2. CASE CallRun
  BY <1>2, <1>a DEF CallRun, LoopInv
<1>3. CASE StartOk
  <2>1. i \in Comp /\ comp[i] = "new"
    BY <1>3 DEF StartOk, LoopInv
  <2>2. WaitGroupExact'
    BY <1>3, <1>b, <2>1 DEF StartOk
  <2> QED
    BY <1>3, <2>1, <2>2 DEF StartOk, LoopInv
<1>4. CASE StartErr
  <2>1. i \in Comp /\ comp[i] = "new"
    BY <1>4 DEF StartErr, LoopInv
  <2>2. WaitGroupExact'
    BY <1>4, <1>b, <2>1 DEF StartErr
  <2> QED
    BY <1>4, <2>1, <2>2 DEF StartErr, LoopInv
<1>5. CASE NotifyContext
  BY <1>5, <1>a DEF NotifyContext, LoopInv
<1>6. CASE KilledBySignal
  BY <1>6, <1>a DEF KilledBySignal, LoopInv
<1>7. CASE Signal
  BY <1>7, <1>a DEF Signal, LoopInv
<1>8. CASE Cancel
  BY <1>8, <1>a DEF Cancel, LoopInv
<1>9. CASE Tick
  BY <1>9, <1>a DEF Tick, LoopInv
<1>10. CASE Wake
  BY <1>10, <1>a DEF Wake, LoopInv, AfterSpawn
<1>11. CASE SpawnStop
  <2>1. i \in Comp /\ comp[i] = "started"
    BY <1>11 DEF SpawnStop, LoopInv
  <2>2. StopPending' = StopPending \cup {i} /\ i \notin StopPending
    BY <1>11, <2>1 DEF SpawnStop, StopPending
  <2>3. Cardinality(StopPending') = Cardinality(StopPending) + 1
    BY <1>0, <2>2, FS_AddElement
  <2>4. WaitGroupExact'
    BY <1>11, <2>3 DEF SpawnStop, WaitGroupExact
  <2> QED
    BY <1>11, <2>1, <2>4 DEF SpawnStop, LoopInv, AfterSpawn
<1>12. CASE Return
  BY <1>12, <1>a DEF Return, LoopInv
<1>13. ASSUME NEW c \in Comp, CallStop(c) PROVE IInv'
  <2>1. WaitGroupExact'
    BY <1>13, <1>b DEF CallStop
  <2> QED
    BY <1>13, <2>1 DEF CallStop, LoopInv, AfterSpawn
<1>14. ASSUME NEW c \in Comp, NEW r \in StopResults, StopDone(c, r)
       PROVE  IInv'
  <2>1. StopPending' = StopPending \ {c} /\ c \in StopPending
    BY <1>14 DEF StopDone, StopPending
  <2>2. Cardinality(StopPending') = Cardinality(StopPending) - 1
    BY <1>0, <2>1, FS_RemoveElement
  <2>3. StopPending # {}
    BY <2>1
  <2>4. wg # 0 /\ WaitGroupExact' /\ wg' \in Nat
    BY <1>14, <1>0, <2>2, <2>3, PendingFinite DEF StopDone, WaitGroupExact
  <2>5. pc # "returned"
    BY <2>4 DEF LoopInv
  <2> QED
    BY <1>14, <2>4, <2>5 DEF StopDone, LoopInv, AfterSpawn
<1>15. ASSUME NEW c \in Comp, StopReturns(c) PROVE IInv'
  BY <1>14, <1>15 DEF StopReturns
<1>16. ASSUME NEW c \in Comp, StopLate(c) PROVE IInv'
  BY <1>14, <1>16 DEF StopLate
<1>17. CASE UNCHANGED vars
  BY <1>17, <1>a DEF vars, LoopInv
<1> QED
  BY <1>1, <1>2, <1>3, <1>4, <1>5, <1>6, <1>7, <1>8, <1>9, <1>10, <1>11,
     <1>12, <1>13, <1>15, <1>16, <1>17 DEF Next

\* IInv holds throughout every behaviour of Run.
THEOREM Invariance == Spec => []IInv
  BY InitInv, NextInv, PTL DEF Spec

\* The variables of Run keep their types; in particular the wait group's
\* counter never becomes negative, which would panic.
THEOREM TypeCorrect == Spec => []TypeOK
<1>1. IInv => TypeOK
  BY DEF IInv
<1> QED
  BY <1>1, Invariance, PTL

\* wg counts exactly the Stops that have not returned.
THEOREM WaitGroupCorrect == Spec => []WaitGroupExact
<1>1. IInv => WaitGroupExact
  BY DEF IInv
<1> QED
  BY <1>1, Invariance, PTL

\* Run returns nil only after the Stop of every registered component returned.
THEOREM ReturnCorrect == Spec => []ReturnAfterEveryStop
<1>1. IInv => ReturnAfterEveryStop
  <2> SUFFICES ASSUME IInv, pc = "returned", NEW c \in Registered
               PROVE  comp[c] \in StopResults
    BY DEF ReturnAfterEveryStop
  <2>1. c \in Comp /\ i < c /\ c <= n
    BY LifecycleAssumption DEF IInv, LoopInv, TypeOK, Registered, Comp
  <2>2. comp[c] \in AfterSpawn
    BY <2>1 DEF IInv, LoopInv
  <2>3. StopPending = {}
    BY PendingFinite DEF IInv, LoopInv, WaitGroupExact
  <2> QED
    BY <2>1, <2>2, <2>3 DEF AfterSpawn, StopPending
<1> QED
  BY <1>1, Invariance, PTL

\* No Stop is called before every registered component has started.
THEOREM StopOrderCorrect == Spec => []StopAfterAllStarted
<1>1. IInv => StopAfterAllStarted
  <2> SUFFICES ASSUME IInv, NEW d \in Comp, comp[d] \in AfterSpawn,
                      NEW c \in Registered
               PROVE  comp[c] \notin {"new", "failed"}
    BY DEF StopAfterAllStarted, AfterSpawn
  <2>1. c \in Comp /\ c <= n
    BY LifecycleAssumption DEF IInv, TypeOK, Registered, Comp
  <2>2. pc \in {"stopping", "returned"}
    BY LifecycleAssumption
    DEF IInv, TypeOK, LoopInv, AfterSpawn, StopResults, Comp
  <2>3. comp[c] = "started" \/ comp[c] \in AfterSpawn
    BY <2>1, <2>2, LifecycleAssumption DEF IInv, TypeOK, LoopInv, Comp
  <2> QED
    BY <2>3 DEF AfterSpawn, StopResults
<1> QED
  BY <1>1, Invariance, PTL

\* Lifecycle implements the contract its components are written against.
THEOREM ContractImplemented == Spec => ComponentContract
<1> USE DEF Phase
<1>1. Init => Contract!Init
  BY DEF Init, Contract!Init
<1>2. IInv /\ [Next]_vars => [Contract!Next]_Phase
  <2> SUFFICES ASSUME IInv, [Next]_vars PROVE Contract!Next \/ Phase' = Phase
    OBVIOUS
  <2> USE LifecycleAssumption DEF IInv, TypeOK, CompState, StopResults, Comp
  <2>1. ASSUME comp' = comp PROVE Phase' = Phase
    BY <2>1
  <2>2. ASSUME StartOk \/ StartErr PROVE Contract!Next
    <3>1. i \in Comp /\ comp[i] = "new"
      BY <2>2 DEF StartOk, StartErr, LoopInv
    <3>2. PICK r \in {"started", "failed"} : comp' = [comp EXCEPT ![i] = r]
      BY <2>2 DEF StartOk, StartErr
    <3>3. Phase' = [Phase EXCEPT ![i] = r]
      BY <3>1, <3>2
    <3> QED
      BY <3>1, <3>3 DEF Contract!Next, Contract!Start
  <2>3. ASSUME SpawnStop PROVE Phase' = Phase
    <3>1. i \in Comp /\ comp[i] = "started"
      BY <2>3 DEF SpawnStop, LoopInv
    <3> QED
      BY <2>3, <3>1 DEF SpawnStop
  <2>4. ASSUME NEW c \in Comp, CallStop(c) PROVE Contract!Next
    <3>1. Phase[c] = "started" /\ Phase' = [Phase EXCEPT ![c] = "stopping"]
      BY <2>4 DEF CallStop
    <3> QED
      BY <3>1 DEF Contract!Next, Contract!CallStop
  <2>5. ASSUME NEW c \in Comp, StopReturns(c) \/ StopLate(c) PROVE Contract!Next
    <3>1. PICK r \in StopResults : StopDone(c, r)
      BY <2>5 DEF StopReturns, StopLate
    <3>2. Phase[c] = "stopping" /\ Phase' = [Phase EXCEPT ![c] = r]
      BY <3>1 DEF StopDone
    <3> QED
      BY <3>2 DEF Contract!Next, Contract!StopReturns, Contract!Results
  <2> QED
    BY <2>1, <2>2, <2>3, <2>4, <2>5
    DEF Next, vars, Register, CallRun, NotifyContext, KilledBySignal, Signal,
        Cancel, Tick, Wake, Return
<1> QED
  BY <1>1, <1>2, Invariance, PTL DEF Spec, ComponentContract, Contract!Spec

----------------------------------------------------------------------------
(* The service implements Lifecycle *)

\* main registers the four components that Service describes.
FourRegistered == N = 4

\* Every step of the service is a step of Run, of a component that Run knows,
\* or none of its business.
LEMMA LifecycleStep ==
  ASSUME FourRegistered, [ServiceNext]_allVars
  PROVE  [Next]_vars
<1> USE DEF FourRegistered, lifecycleVars
<1>0. {1, 2, 3, 4} \subseteq Comp
  BY DEF Comp
<1>1. CASE RunControl
  BY <1>1 DEF RunControl, Next
<1>2. CASE StartDb \/ StartGroup \/ StartGrpc \/ StartHttp
  BY <1>2 DEF StartDb, StartGroup, StartGrpc, StartHttp, Next
<1>3. CASE StopDb
  BY <1>0, <1>3 DEF StopDb, Next
<1>4. CASE StopGroup
  <2>1. CASE CallStop(2)
    BY <1>0, <2>1 DEF Next
  <2>2. CASE Grp!StopReturns /\ StopDone(2, phase')
    <3>1. phase' \in {"stopped", "stopErr"}
      BY <2>2 DEF Grp!StopReturns
    <3> QED
      BY <1>0, <2>2, <3>1 DEF Next, StopReturns
  <2> QED
    BY <1>4, <2>1, <2>2 DEF StopGroup
<1>5. CASE CallStopGrpc \/ StopGrpc
  BY <1>0, <1>5 DEF CallStopGrpc, StopGrpc, Next, StopReturns
<1>6. CASE CallStopHttp \/ StopHttp
  BY <1>0, <1>6 DEF CallStopHttp, StopHttp, Next, StopReturns
<1>7. CASE Connect \/ ConnectFails \/ StopChild \/ MetricsGoroutine \/ RunWorker
           \/ WorkerGoroutine(TRUE) \/ WorkerGoroutine(FALSE) \/ ServeGrpc \/ ServeHttp
  BY <1>7 DEF Connect, ConnectFails, StopChild, MetricsGoroutine, RunWorker,
              WorkerGoroutine, ServeGrpc, ServeHttp
<1>8. ASSUME NEW r \in Req, ArriveRpc(r) \/ ArriveHttp(r) \/ Forward(r) \/ Handle(r)
      PROVE  UNCHANGED vars
  BY <1>8 DEF ArriveRpc, ArriveHttp, Forward, Handle, RequestStep
<1>9. CASE UNCHANGED allVars
  BY <1>9 DEF allVars
<1> QED
  BY <1>1, <1>2, <1>3, <1>4, <1>5, <1>6, <1>7, <1>8, <1>9 DEF ServiceNext

\* The service implements Lifecycle.
THEOREM ServiceIsLifecycle ==
  ASSUME FourRegistered
  PROVE  ServiceSpec => Spec
<1>1. ServiceInit => Init
  BY DEF ServiceInit
<1>2. [ServiceNext]_allVars => [Next]_vars
  BY LifecycleStep
<1> QED
  BY <1>1, <1>2, PTL DEF ServiceSpec, Spec

----------------------------------------------------------------------------
(* Group *)

\* Nobody has been asked to stop before Stop is called; in its loop exactly
\* the children after the index have results.
GroupLoopInv ==
  /\ phase \in {"new", "started", "failed"} =>
       ~errs /\ \A c \in Grp!Child : child[c] \in Grp!Unstopped
  /\ phase = "new" => k > 0
  /\ phase = "stopping" =>
       /\ k \in 0..GroupSize
       /\ \A c \in Grp!Child : c > k => child[c] \in Grp!Results
       /\ \A c \in Grp!Child : c < k => child[c] \in Grp!Unstopped
       /\ \A c \in Grp!Child : c = k => child[c] \in Grp!Unstopped \cup {"stopping"}

\* errs is set exactly when a child has returned an error.
GroupErrsInv ==
  phase = "stopping" => (errs <=> \E c \in Grp!Child : child[c] \in {"stopErr", "late"})

GroupInv == Grp!TypeOK /\ GroupLoopInv /\ GroupErrsInv /\ Grp!StopIsComplete

\* Before the first step of Start the invariant holds.
LEMMA GroupInitInv ==
  ASSUME Grp!Init
  PROVE  GroupInv
<1> USE ServiceAssumption DEF Grp!Init, Grp!Results, Grp!Unstopped
<1>1. Grp!TypeOK
  <2>1. errs \in BOOLEAN
    OBVIOUS
  <2>2. k \in 0..(GroupSize + 1)
    OBVIOUS
  <2>3. child \in [Grp!Child -> Grp!Phases]
    BY DEF Grp!Phases
  <2> QED
    BY <2>1, <2>2, <2>3 DEF Grp!TypeOK
<1>2. ~errs
  BY Zenon
<1>3. phase = "new" /\ k = 1 /\ \A c \in Grp!Child : child[c] = "new"
  OBVIOUS
<1>4. GroupLoopInv
  BY <1>2, <1>3 DEF GroupLoopInv
<1> QED
  BY <1>1, <1>3, <1>4 DEF GroupInv, GroupErrsInv, Grp!StopIsComplete

\* One turn of the loop of Start, its return, and the call of Stop.
LEMMA GroupStartInv ==
  ASSUME GroupInv,
         (\E r \in {"started", "failed"} : Grp!StartChild(r)) \/ Grp!StartReturns \/ Grp!CallStop
  PROVE  GroupInv'
<1> USE ServiceAssumption DEF GroupInv, Grp!TypeOK, Grp!Child, Grp!Unstopped, Grp!Results, Grp!Phases
<1>1. ASSUME NEW r \in {"started", "failed"}, Grp!StartChild(r) PROVE GroupInv'
  <2>1. Grp!TypeOK'
    <3>1. k \in Grp!Child /\ phase' \in {"new", "failed"} /\ k' \in {k, k + 1} /\ r \in Grp!Phases
      BY <1>1 DEF Grp!StartChild, GroupLoopInv
    <3>2. child' \in [Grp!Child -> Grp!Phases]
      BY <1>1, <3>1 DEF Grp!StartChild
    <3>3. errs' \in BOOLEAN
      BY <1>1, Zenon DEF Grp!StartChild
    <3> QED
      BY <3>1, <3>2, <3>3
  <2>2. errs' = errs /\ phase = "new" /\ phase' \in {"new", "failed"} /\ k' \in {k, k + 1}
    BY <1>1 DEF Grp!StartChild
  <2>3. \A c \in Grp!Child : child'[c] \in Grp!Unstopped
    BY <1>1 DEF Grp!StartChild, GroupLoopInv
  <2>4. ~errs'
    <3>1. ~errs
      BY <2>2, Zenon DEF GroupLoopInv
    <3> QED
      BY <2>2, <3>1, Zenon
  <2>5. GroupLoopInv'
    BY <2>2, <2>3, <2>4 DEF GroupLoopInv
  <2> QED
    BY <2>1, <2>2, <2>5 DEF GroupErrsInv, Grp!StopIsComplete
<1>2. CASE Grp!StartReturns
  BY <1>2 DEF Grp!StartReturns, GroupLoopInv, GroupErrsInv, Grp!StopIsComplete
<1>3. CASE Grp!CallStop
  BY <1>3 DEF Grp!CallStop, GroupLoopInv, GroupErrsInv, Grp!StopIsComplete
<1> QED
  BY <1>1, <1>2, <1>3

\* The loop of Stop asks the child at its index, which nobody has asked yet.
LEMMA GroupStopChildInv ==
  ASSUME GroupInv, Grp!StopChild
  PROVE  GroupInv'
<1> USE ServiceAssumption DEF GroupInv, Grp!TypeOK, Grp!Child, Grp!Unstopped, Grp!Results, Grp!Phases
<1>1. Grp!TypeOK'
  BY DEF Grp!StopChild
<1>2. GroupLoopInv'
  BY DEF Grp!StopChild, GroupLoopInv
<1>3. GroupErrsInv'
  BY DEF Grp!StopChild, GroupLoopInv, GroupErrsInv
<1> QED
  BY <1>1, <1>2, <1>3 DEF Grp!StopChild, Grp!StopIsComplete

\* A child's Stop returns, whatever its result.
LEMMA GroupChildStoppedInv ==
  ASSUME GroupInv, NEW r \in Grp!Results, Grp!ChildStopped(r)
  PROVE  GroupInv'
<1> USE ServiceAssumption DEF GroupInv, Grp!TypeOK, Grp!Child, Grp!Unstopped, Grp!Results, Grp!Phases
<1> USE ServiceAssumption DEF Grp!ChildStopped, Grp!ChildResult
<1>1. Grp!TypeOK'
  <2>1. errs' \in BOOLEAN
    BY Zenon
  <2>2. k' \in 0..(GroupSize + 1)
    BY DEF GroupLoopInv
  <2>3. child' \in [Grp!Child -> Grp!Phases]
    <3>1. r \in Grp!Phases
      OBVIOUS
    <3> HIDE DEF Grp!Phases
    <3> QED
      BY <3>1
  <2> QED
    BY <2>1, <2>2, <2>3
<1>2. GroupLoopInv'
  BY DEF GroupLoopInv
<1>3. GroupErrsInv'
  <2>1. k \in Grp!Child /\ child[k] = "stopping" /\ child'[k] = r /\ phase = "stopping"
    BY DEF GroupLoopInv
  <2>2. \A c \in Grp!Child : c # k => child'[c] = child[c]
    OBVIOUS
  <2>3. errs' <=> errs \/ r # "stopped"
    OBVIOUS
  <2>4. errs <=> \E c \in Grp!Child : child[c] \in {"stopErr", "late"}
    BY <2>1 DEF GroupErrsInv
  <2>5. (\E c \in Grp!Child : child'[c] \in {"stopErr", "late"})
          <=> ((\E c \in Grp!Child : child[c] \in {"stopErr", "late"}) \/ r # "stopped")
    BY <2>1, <2>2
  <2> QED
    BY <2>3, <2>4, <2>5, Zenon DEF GroupErrsInv
<1> QED
  BY <1>1, <1>2, <1>3 DEF Grp!StopIsComplete

\* Stop returns an error exactly when it has kept one.
LEMMA GroupStopReturnsInv ==
  ASSUME GroupInv, Grp!StopReturns
  PROVE  GroupInv'
<1> USE ServiceAssumption DEF GroupInv, Grp!TypeOK, Grp!Child, Grp!Unstopped, Grp!Results, Grp!Phases
<1>1. Grp!TypeOK' /\ GroupLoopInv' /\ GroupErrsInv'
  BY DEF Grp!StopReturns, GroupLoopInv, GroupErrsInv
<1>2. \A c \in Grp!Child : child[c] \in Grp!Results
  BY DEF Grp!StopReturns, GroupLoopInv
<1>3. errs <=> \E c \in Grp!Child : child[c] # "stopped"
  BY <1>2 DEF Grp!StopReturns, GroupErrsInv
<1> QED
  BY <1>1, <1>2, <1>3 DEF Grp!StopReturns, Grp!StopIsComplete

\* Every step of the group keeps its invariant.
LEMMA GroupNextInv ==
  ASSUME GroupInv, [Grp!Next]_groupVars
  PROVE  GroupInv'
<1>1. CASE (\E r \in {"started", "failed"} : Grp!StartChild(r)) \/ Grp!StartReturns \/ Grp!CallStop
  BY <1>1, GroupStartInv
<1>2. CASE Grp!StopChild
  BY <1>2, GroupStopChildInv
<1>3. CASE (\E r \in {"stopped", "stopErr"} : Grp!ChildStopped(r)) \/ Grp!ChildLate(TRUE)
  BY <1>3, GroupChildStoppedInv DEF Grp!ChildLate, Grp!Results
<1>4. CASE Grp!StopReturns
  BY <1>4, GroupStopReturnsInv
<1>5. CASE UNCHANGED groupVars
  BY <1>5 DEF groupVars, GroupInv, Grp!TypeOK, GroupLoopInv, GroupErrsInv, Grp!StopIsComplete, Grp!Child, Grp!Unstopped, Grp!Results, Grp!Phases
<1> QED
  BY <1>1, <1>2, <1>3, <1>4, <1>5 DEF Grp!Next

\* Every step of the service is a step of the group or leaves it alone.
LEMMA GroupStep == [ServiceNext]_allVars => [Grp!Next]_groupVars
<1> SUFFICES ASSUME [ServiceNext]_allVars PROVE [Grp!Next]_groupVars
  OBVIOUS
<1>1. CASE StartGroup
  BY <1>1 DEF StartGroup, Grp!Next
<1>2. CASE StopGroup
  BY <1>2 DEF StopGroup, Grp!Next
<1>3. CASE StopChild
  <2>1. Grp!ChildLate(StopCtxDone) => Grp!ChildLate(TRUE)
    BY DEF Grp!ChildLate
  <2> QED
    BY <1>3, <2>1 DEF StopChild, Grp!Next
<1>4. CASE Connect \/ ConnectFails \/ RunControl \/ StartDb \/ StopDb \/ MetricsGoroutine
           \/ RunWorker \/ WorkerGoroutine(TRUE) \/ WorkerGoroutine(FALSE)
           \/ StartGrpc \/ ServeGrpc \/ CallStopGrpc \/ StopGrpc
           \/ StartHttp \/ ServeHttp \/ CallStopHttp \/ StopHttp
  BY <1>4 DEF Connect, ConnectFails, RunControl, StartDb, StopDb, MetricsGoroutine,
              RunWorker, WorkerGoroutine, StartGrpc, ServeGrpc, CallStopGrpc, StopGrpc,
              StartHttp, ServeHttp, CallStopHttp, StopHttp
<1>5. ASSUME NEW r \in Req, ArriveRpc(r) \/ ArriveHttp(r) \/ Forward(r) \/ Handle(r)
      PROVE  UNCHANGED groupVars
  BY <1>5 DEF ArriveRpc, ArriveHttp, Forward, Handle, RequestStep
<1>6. CASE UNCHANGED allVars
  BY <1>6 DEF allVars
<1> QED
  BY <1>1, <1>2, <1>3, <1>4, <1>5, <1>6 DEF ServiceNext

\* The invariant of the group holds in the service, whatever its children do.
THEOREM GroupInvariance == ServiceSpec => []GroupInv
<1>1. ServiceInit => GroupInv
  BY GroupInitInv DEF ServiceInit
<1>2. GroupInv /\ [ServiceNext]_allVars => GroupInv'
  BY GroupStep, GroupNextInv
<1> QED
  BY <1>1, <1>2, PTL DEF ServiceSpec

\* Group.Stop asks a child to stop only when every child after it has
\* returned, for any number of children and any results.
THEOREM OrderCorrect == ServiceSpec => []ReverseStopOrder
<1>1. GroupInv => ReverseStopOrder
  BY ServiceAssumption
  DEF GroupInv, GroupLoopInv, ReverseStopOrder, Grp!ReverseStopOrder, Grp!TypeOK,
      Grp!StopIsComplete, Grp!Child, Grp!Unstopped, Grp!Results, Grp!Phases
<1> QED
  BY <1>1, GroupInvariance, PTL

\* When Group.Stop returns, every child has been stopped, and the error it
\* reports is there exactly when one of them failed.
THEOREM CompletenessCorrect == ServiceSpec => []StopIsComplete
<1>1. GroupInv => StopIsComplete
  BY DEF GroupInv, StopIsComplete
<1> QED
  BY <1>1, GroupInvariance, PTL

----------------------------------------------------------------------------
(* Worker *)

\* The wait group counts the goroutines that run, of every batch, none of a
\* batch that is still to come; and none is left when Stop has returned.
WorkerInv ==
  /\ Wrk!TypeOK
  /\ workers = Cardinality(Wrk!Running)
  /\ \A g \in Wrk!Batch \X Wrk!Index : g[1] > starts => run[g] = "none"
  /\ Wrk!NothingRunsAfterStop

\* The goroutines that run are finitely many.
LEMMA RunningFinite ==
  /\ IsFiniteSet(Wrk!Running) /\ Cardinality(Wrk!Running) \in Nat
  /\ Cardinality(Wrk!Running) = 0 <=> Wrk!Running = {}
<1>1. IsFiniteSet(Wrk!Batch) /\ IsFiniteSet(Wrk!Index)
  BY ServiceAssumption, FS_Interval DEF Wrk!Batch, Wrk!Index
<1>2. IsFiniteSet(Wrk!Batch \X Wrk!Index)
  BY <1>1, FS_Product
<1>3. Wrk!Running \in SUBSET (Wrk!Batch \X Wrk!Index)
  BY DEF Wrk!Running
<1>4. IsFiniteSet(Wrk!Running)
  BY <1>2, <1>3, FS_Subset
<1> QED
  BY <1>4, FS_CardinalityType, FS_EmptySet

\* A batch has as many goroutines as the pool has workers.
LEMMA BatchSize ==
  ASSUME NEW b
  PROVE  IsFiniteSet({b} \X Wrk!Index) /\ Cardinality({b} \X Wrk!Index) = NumOfWorker
<1>1. IsFiniteSet({b}) /\ Cardinality({b}) = 1
  BY FS_Singleton
<1>2. IsFiniteSet(Wrk!Index) /\ Cardinality(Wrk!Index) = NumOfWorker
  BY ServiceAssumption, FS_Interval DEF Wrk!Index
<1>3. /\ IsFiniteSet({b} \X Wrk!Index)
      /\ Cardinality({b} \X Wrk!Index) = Cardinality({b}) * Cardinality(Wrk!Index)
  BY <1>1, <1>2, FS_Product
<1> QED
  BY <1>1, <1>2, <1>3, ServiceAssumption

\* No goroutine exists before the first Start.
LEMMA WorkerInitInv ==
  ASSUME Wrk!Init
  PROVE  WorkerInv
<1> USE ServiceAssumption DEF Wrk!Init
<1>1. Wrk!Running = {}
  BY DEF Wrk!Running
<1>2. workers = Cardinality(Wrk!Running)
  BY <1>1, FS_EmptySet
<1> QED
  BY <1>1, <1>2 DEF WorkerInv, Wrk!TypeOK, Wrk!NothingRunsAfterStop

\* Start adds a batch and w.Wg.Add its size.
LEMMA WorkerStartInv ==
  ASSUME WorkerInv, Wrk!Start
  PROVE  WorkerInv'
<1> DEFINE batch == {starts + 1} \X Wrk!Index
<1> USE ServiceAssumption
<1>1. /\ wstop = "idle" /\ wstop' = wstop /\ starts < MaxStarts /\ starts' = starts + 1
      /\ run' = [g \in Wrk!Batch \X Wrk!Index |-> IF g[1] = starts + 1 THEN "running" ELSE run[g]]
      /\ workers' = workers + NumOfWorker /\ ctxDone' = ctxDone
  BY DEF Wrk!Start
<1>2. starts \in Nat /\ starts + 1 \in Wrk!Batch
  BY <1>1 DEF WorkerInv, Wrk!TypeOK, Wrk!Batch
<1>3. batch \subseteq Wrk!Batch \X Wrk!Index /\ \A g \in batch : g[1] = starts + 1
  BY <1>2
<1>4. \A g \in Wrk!Batch \X Wrk!Index : g[1] = starts + 1 => g \in batch
  OBVIOUS
<1>5. Wrk!Running' = Wrk!Running \cup batch
  <2> HIDE DEF batch
  <2> QED
    BY <1>1, <1>3, <1>4 DEF Wrk!Running
<1>6. Wrk!Running \cap batch = {}
  <2>1. \A g \in batch : run[g] = "none"
    BY <1>2, <1>3 DEF WorkerInv
  <2> QED
    BY <2>1 DEF Wrk!Running
<1>7. IsFiniteSet(batch) /\ Cardinality(batch) = NumOfWorker
  BY BatchSize
<1>8. Cardinality(Wrk!Running') = Cardinality(Wrk!Running) + NumOfWorker
  <2>1. Cardinality(Wrk!Running \cup batch)
          = Cardinality(Wrk!Running) + Cardinality(batch) - Cardinality(Wrk!Running \cap batch)
    BY <1>7, RunningFinite, FS_Union
  <2>2. Cardinality(Wrk!Running \cap batch) = 0
    BY <1>6, FS_EmptySet
  <2> QED
    BY <1>5, <1>7, <2>1, <2>2, RunningFinite
<1>9. workers' = Cardinality(Wrk!Running') /\ workers' \in Nat
  BY <1>1, <1>8, RunningFinite DEF WorkerInv
<1>10. Wrk!TypeOK'
  BY <1>1, <1>2, <1>9 DEF WorkerInv, Wrk!TypeOK, Wrk!Batch
<1>11. \A g \in Wrk!Batch \X Wrk!Index : g[1] > starts' => run'[g] = "none"
  <2> SUFFICES ASSUME NEW g \in Wrk!Batch \X Wrk!Index, g[1] > starts + 1
               PROVE  run'[g] = "none"
    BY <1>1
  <2>1. g[1] \in Int
    BY DEF Wrk!Batch
  <2>2. g[1] > starts /\ g[1] # starts + 1
    BY <1>2, <2>1
  <2> QED
    BY <1>1, <2>2 DEF WorkerInv
<1> QED
  BY <1>1, <1>9, <1>10, <1>11 DEF WorkerInv, Wrk!NothingRunsAfterStop

\* A goroutine calls w.Wg.Done when its handler has returned.
LEMMA HandlerEndsInv ==
  ASSUME WorkerInv, NEW g \in Wrk!Batch \X Wrk!Index, Wrk!HandlerEnds(g)
  PROVE  WorkerInv'
<1>1. /\ run[g] = "running" /\ run' = [run EXCEPT ![g] = "done"]
      /\ workers' = workers - 1 /\ UNCHANGED <<starts, ctxDone, wstop>>
  BY DEF Wrk!HandlerEnds
<1>2. Wrk!Running' = Wrk!Running \ {g} /\ g \in Wrk!Running
  BY <1>1 DEF WorkerInv, Wrk!TypeOK, Wrk!Running
<1>3. Cardinality(Wrk!Running') = Cardinality(Wrk!Running) - 1
  BY <1>2, RunningFinite, FS_RemoveElement
<1>4. Cardinality(Wrk!Running) # 0 /\ Cardinality(Wrk!Running) \in Nat
  BY <1>2, RunningFinite
<1>5. workers' = Cardinality(Wrk!Running') /\ workers' \in Nat
  BY <1>1, <1>3, <1>4 DEF WorkerInv
<1>6. Wrk!TypeOK'
  BY <1>1, <1>5 DEF WorkerInv, Wrk!TypeOK
<1>7. Wrk!NothingRunsAfterStop'
  BY <1>1, <1>2 DEF WorkerInv, Wrk!NothingRunsAfterStop
<1>8. \A h \in Wrk!Batch \X Wrk!Index : h[1] > starts' => run'[h] = "none"
  BY <1>1 DEF WorkerInv, Wrk!TypeOK
<1> QED
  BY <1>5, <1>6, <1>7, <1>8 DEF WorkerInv

\* Every step of the pool keeps its invariant.
LEMMA WorkerNextInv ==
  ASSUME WorkerInv, [Wrk!Next]_workerVars
  PROVE  WorkerInv'
<1>1. CASE Wrk!Start
  BY <1>1, WorkerStartInv
<1>2. CASE \E g \in Wrk!Batch \X Wrk!Index : Wrk!HandlerEnds(g) \/ Wrk!HandlerHeeds(g)
  BY <1>2, HandlerEndsInv DEF Wrk!HandlerHeeds
<1>3. CASE Wrk!CancelBase \/ Wrk!CallStop \/ Wrk!StopReturns \/ UNCHANGED workerVars
  <2>1. UNCHANGED <<starts, run, workers>>
    BY <1>3 DEF Wrk!CancelBase, Wrk!CallStop, Wrk!StopReturns, workerVars
  <2>2. Wrk!Running' = Wrk!Running
    BY <2>1 DEF Wrk!Running
  <2>3. workers' = Cardinality(Wrk!Running')
    BY <2>1, <2>2 DEF WorkerInv
  <2>4. Wrk!TypeOK'
    <3>1. starts \in 0..MaxStarts /\ ctxDone \subseteq Wrk!Batch /\ wstop \in {"idle", "waiting", "returned"}
      BY DEF WorkerInv, Wrk!TypeOK
    <3>2. 1..starts \subseteq Wrk!Batch /\ (starts # 0 => starts \in Wrk!Batch)
      BY <3>1, ServiceAssumption DEF Wrk!Batch
    <3>3. ctxDone' \subseteq Wrk!Batch
      BY <1>3, <3>1, <3>2 DEF Wrk!CancelBase, Wrk!CallStop, Wrk!StopReturns, workerVars
    <3>4. wstop' \in {"idle", "waiting", "returned"}
      BY <1>3, <3>1 DEF Wrk!CancelBase, Wrk!CallStop, Wrk!StopReturns, workerVars
    <3> QED
      BY <2>1, <3>3, <3>4 DEF WorkerInv, Wrk!TypeOK
  <2>5. Wrk!NothingRunsAfterStop'
    BY <1>3, <2>2, RunningFinite
    DEF Wrk!CancelBase, Wrk!CallStop, Wrk!StopReturns, workerVars, WorkerInv, Wrk!NothingRunsAfterStop
  <2> QED
    BY <2>1, <2>3, <2>4, <2>5 DEF WorkerInv
<1> QED
  BY <1>1, <1>2, <1>3 DEF Wrk!Next

\* Every step of the service is a step of the pool or leaves it alone.
LEMMA WorkerStep == [ServiceNext]_allVars => [Wrk!Next]_workerVars
<1> SUFFICES ASSUME [ServiceNext]_allVars PROVE [Wrk!Next]_workerVars
  OBVIOUS
<1>1. CASE StartGroup \/ StopGroup \/ StopChild \/ RunWorker
  BY <1>1 DEF StartGroup, StopGroup, StopChild, RunWorker, Wrk!Next
<1>2. CASE WorkerGoroutine(TRUE) \/ WorkerGoroutine(FALSE)
  BY <1>2 DEF WorkerGoroutine, Wrk!Next
<1>3. CASE Connect \/ ConnectFails \/ RunControl \/ StartDb \/ StopDb \/ MetricsGoroutine
           \/ StartGrpc \/ ServeGrpc \/ CallStopGrpc \/ StopGrpc
           \/ StartHttp \/ ServeHttp \/ CallStopHttp \/ StopHttp
  BY <1>3 DEF Connect, ConnectFails, RunControl, StartDb, StopDb, MetricsGoroutine,
              StartGrpc, ServeGrpc, CallStopGrpc, StopGrpc, StartHttp, ServeHttp, CallStopHttp, StopHttp
<1>4. ASSUME NEW r \in Req, ArriveRpc(r) \/ ArriveHttp(r) \/ Forward(r) \/ Handle(r)
      PROVE  UNCHANGED workerVars
  BY <1>4 DEF ArriveRpc, ArriveHttp, Forward, Handle, RequestStep
<1>5. CASE UNCHANGED allVars
  BY <1>5 DEF allVars
<1> QED
  BY <1>1, <1>2, <1>3, <1>4, <1>5 DEF ServiceNext

\* The invariant of the pool holds in the service, however often it is started.
THEOREM WorkerInvariance == ServiceSpec => []WorkerInv
<1>1. ServiceInit => WorkerInv
  BY WorkerInitInv DEF ServiceInit
<1>2. WorkerInv /\ [ServiceNext]_allVars => WorkerInv'
  BY WorkerStep, WorkerNextInv
<1> QED
  BY <1>1, <1>2, PTL DEF ServiceSpec

----------------------------------------------------------------------------
(* MetricsServer *)

\* Until Stop is called a goroutine that has not ended has a server; after
\* that it is one that was shut down, so that it cannot serve any more.
MetricsInv ==
  /\ (serve \in {"spawned", "called", "serving"} /\ mstop = "no") => server = "set"
  /\ mstop # "no" => serve # "serving" /\ ~up
  /\ (mstop # "no" /\ serve \in {"spawned", "called"}) => shut

\* What the metrics server does in a step of the service.
MetricsNext == Met!Start \/ Met!ReadServer \/ Met!ListenAndServe \/ Met!CallStop \/ Met!StopReturns

\* Every step of the metrics server keeps its invariant.
LEMMA MetricsNextInv ==
  ASSUME MetricsInv, [MetricsNext]_metricsVars
  PROVE  MetricsInv'
<1> USE DEF MetricsInv
<1>1. CASE Met!Start
  BY <1>1 DEF Met!Start
<1>2. CASE Met!ReadServer
  BY <1>2 DEF Met!ReadServer
<1>3. CASE Met!ListenAndServe
  BY <1>3 DEF Met!ListenAndServe
<1>4. CASE Met!CallStop
  <2>1. ~up'
    BY <1>4, Zenon DEF Met!CallStop, Met!SetServiceUp
  <2> QED
    BY <1>4, <2>1 DEF Met!CallStop
<1>5. CASE Met!StopReturns
  BY <1>5 DEF Met!StopReturns
<1>6. CASE UNCHANGED metricsVars
  BY <1>6 DEF metricsVars
<1> QED
  BY <1>1, <1>2, <1>3, <1>4, <1>5, <1>6 DEF MetricsNext

\* Every step of the service is a step of the metrics server or leaves it alone.
LEMMA MetricsStep == [ServiceNext]_allVars => [MetricsNext]_metricsVars
<1> SUFFICES ASSUME [ServiceNext]_allVars PROVE [MetricsNext]_metricsVars
  OBVIOUS
<1>1. CASE StartGroup \/ StopGroup \/ StopChild \/ MetricsGoroutine
  BY <1>1 DEF StartGroup, StopGroup, StopChild, MetricsGoroutine, MetricsNext
<1>2. CASE Connect \/ ConnectFails \/ RunControl \/ StartDb \/ StopDb
           \/ RunWorker \/ WorkerGoroutine(TRUE) \/ WorkerGoroutine(FALSE)
           \/ StartGrpc \/ ServeGrpc \/ CallStopGrpc \/ StopGrpc
           \/ StartHttp \/ ServeHttp \/ CallStopHttp \/ StopHttp
  BY <1>2 DEF Connect, ConnectFails, RunControl, StartDb, StopDb, RunWorker, WorkerGoroutine,
              StartGrpc, ServeGrpc, CallStopGrpc, StopGrpc, StartHttp, ServeHttp, CallStopHttp, StopHttp
<1>3. ASSUME NEW r \in Req, ArriveRpc(r) \/ ArriveHttp(r) \/ Forward(r) \/ Handle(r)
      PROVE  UNCHANGED metricsVars
  BY <1>3 DEF ArriveRpc, ArriveHttp, Forward, Handle, RequestStep
<1>4. CASE UNCHANGED allVars
  BY <1>4 DEF allVars
<1> QED
  BY <1>1, <1>2, <1>3, <1>4 DEF ServiceNext

\* The invariant of the metrics server holds in the service.
THEOREM MetricsInvariance == ServiceSpec => []MetricsInv
<1>1. ServiceInit => MetricsInv
  BY DEF ServiceInit, Met!Init, MetricsInv
<1>2. MetricsInv /\ [ServiceNext]_allVars => MetricsInv'
  BY MetricsStep, MetricsNextInv
<1> QED
  BY <1>1, <1>2, PTL DEF ServiceSpec

----------------------------------------------------------------------------
(* The servers, the requests and what joins the components *)

\* The Stop of a component has been called; it has returned.
Asked(c)      == comp[c] \in {"stopping"} \cup StopResults
HasStopped(c) == comp[c] \in StopResults

RequestOK ==
  /\ db \in {"open", "closed"}
  /\ grpc \in {"off", "listening", "serving", "draining", "unserved"}
  /\ http \in {"off", "spawned", "serving", "exited"}
  /\ req \in [Req -> {"new", "proxied", "behind", "handling", "ok", "failed"}]

\* The gRPC server is down exactly while it was not started or is asked to
\* stop, and serves nothing once its Stop has returned.
GrpcInv ==
  /\ grpc = "off" => comp[3] \in {"new", "failed"}
  /\ grpc \in {"draining", "unserved"} <=> Asked(3)
  /\ HasStopped(3) => Handling = {}

\* What depends on the gRPC server comes after it, and the HTTP server takes
\* no request once it is asked to stop.
HttpInv ==
  /\ http # "off" => grpc # "off"
  /\ InHttp # {} => grpc # "off"
  /\ Asked(4) => http # "serving"
  /\ HasStopped(4) => comp[4] = "late" \/ InHttp = {}

\* The group's Stop returns with that of its last child, and the children
\* that are modelled return from theirs when the parts they stand for do.
GroupLink ==
  /\ HasStopped(2) => phase \in {"stopped", "stopErr"}
  /\ child[MetricsChild] \in Grp!Results => mstop = "returned"
  /\ child[WorkerChild] \in Grp!Results => wstop = "returned"

\* Run is called when everything is registered.
RegisteredAll == pc \in {"starting", "waiting", "stopping", "returned"} => n = N

\* The pool is closed by the Stop of its client.
DbInv == db = "closed" => HasStopped(1)

\* What is said of the servers and the requests, and of the whole service.
ServersInv == RequestOK /\ GrpcInv /\ HttpInv /\ DbInv /\ FailuresOnlyInShutdown
ServiceInv == ServersInv /\ GroupLink /\ RegisteredAll

\* Before the first step nothing is started, asked to stop or requested.
LEMMA ServiceInitInv ==
  ASSUME FourRegistered, ServiceInit
  PROVE  ServiceInv
<1> USE ServiceAssumption DEF FourRegistered, ServiceInit, Init, StopResults, Asked, HasStopped
<1>1. comp[1] = "new" /\ comp[2] = "new" /\ comp[3] = "new" /\ comp[4] = "new"
  BY DEF Comp
<1>2. RequestOK /\ RegisteredAll /\ DbInv /\ FailuresOnlyInShutdown
  BY DEF RequestOK, RegisteredAll, DbInv, FailuresOnlyInShutdown
<1>3. Handling = {} /\ InHttp = {}
  BY DEF Handling, InHttp
<1>4. GrpcInv /\ HttpInv
  BY <1>1, <1>3 DEF GrpcInv, HttpInv
<1>5. GroupLink
  <2>1. child[MetricsChild] = "new" /\ child[WorkerChild] = "new"
    BY DEF Grp!Init, Grp!Child, MetricsChild, WorkerChild
  <2> QED
    BY <1>1, <2>1 DEF GroupLink, Grp!Results
<1> QED
  BY <1>2, <1>4, <1>5 DEF ServiceInv, ServersInv

\* What IInv says of a component: it is asked to stop only in the shutdown,
\* and when Run starts it, exactly those before it have been started.
LEMMA Stages ==
  ASSUME IInv
  PROVE  /\ comp \in [Comp -> CompState]
         /\ \A c \in Comp : Asked(c) => pc \in {"stopping", "returned"}
         /\ \A c \in Comp : Starting(c) =>
              comp[c] = "new" /\ \A d \in Comp : d < c => comp[d] = "started"
<1> USE LifecycleAssumption DEF IInv, TypeOK, LoopInv, Comp
<1>1. \A c \in Comp : Asked(c) => pc \in {"stopping", "returned"}
  BY DEF Asked, StopResults
<1>2. \A c \in Comp : Starting(c) => comp[c] = "new" /\ \A d \in Comp : d < c => comp[d] = "started"
  BY DEF Starting
<1> QED
  BY <1>1, <1>2

\* A Stop that was called stays called and its result stays what it is, and
\* the shutdown is not left.
LEMMA Forwards ==
  ASSUME IInv, [Next]_vars
  PROVE  /\ \A c \in Comp : Asked(c) => Asked(c)'
         /\ \A c \in Comp : HasStopped(c) => comp'[c] = comp[c]
         /\ pc \in {"stopping", "returned"} => pc' \in {"stopping", "returned"}
<1> USE LifecycleAssumption DEF IInv, TypeOK, Asked, HasStopped, StopResults, CompState, Comp
<1>1. CASE StartOk \/ StartErr
  BY <1>1 DEF StartOk, StartErr, LoopInv
<1>2. CASE SpawnStop
  BY <1>2 DEF SpawnStop, LoopInv
<1>3. ASSUME NEW c \in Comp, CallStop(c) \/ StopReturns(c) \/ StopLate(c)
      PROVE  /\ \A d \in Comp : Asked(d) => Asked(d)'
             /\ \A d \in Comp : HasStopped(d) => comp'[d] = comp[d]
             /\ pc' = pc
  <2>1. PICK r \in {"stopping"} \cup StopResults :
          pc' = pc /\ comp' = [comp EXCEPT ![c] = r] /\ ~HasStopped(c)
    BY <1>3 DEF CallStop, StopReturns, StopLate, StopDone
  <2> QED
    BY <2>1
<1>4. CASE Register \/ CallRun \/ NotifyContext \/ KilledBySignal \/ Signal \/ Cancel \/ Tick
           \/ Wake \/ Return \/ UNCHANGED vars
  BY <1>4 DEF Register, CallRun, NotifyContext, KilledBySignal, Signal, Cancel, Tick, Wake, Return, vars
<1> QED
  BY <1>1, <1>2, <1>3, <1>4 DEF Next

\* Everything is registered before Run is called, and nothing after that.
LEMMA RegisteredStep ==
  ASSUME RegisteredAll, [ServiceNext]_allVars
  PROVE  RegisteredAll'
<1> USE DEF RegisteredAll, lifecycleVars, vars
<1>1. CASE RunControl
  BY <1>1 DEF RunControl, Register, CallRun, NotifyContext, KilledBySignal, Signal, Tick, Wake, SpawnStop, Return
<1>2. CASE StartDb \/ StartGroup \/ StartGrpc \/ StartHttp
  BY <1>2 DEF StartDb, StartGroup, StartGrpc, StartHttp, StartOk, StartErr
<1>3. CASE StopDb \/ StopGroup \/ CallStopGrpc \/ StopGrpc \/ CallStopHttp \/ StopHttp
  BY <1>3 DEF StopDb, StopGroup, CallStopGrpc, StopGrpc, CallStopHttp, StopHttp,
              CallStop, StopReturns, StopLate, StopDone
<1>4. CASE Connect \/ ConnectFails \/ StopChild \/ MetricsGoroutine \/ RunWorker
           \/ WorkerGoroutine(TRUE) \/ WorkerGoroutine(FALSE) \/ ServeGrpc \/ ServeHttp
  BY <1>4 DEF Connect, ConnectFails, StopChild, MetricsGoroutine, RunWorker,
              WorkerGoroutine, ServeGrpc, ServeHttp
<1>5. ASSUME NEW r \in Req, ArriveRpc(r) \/ ArriveHttp(r) \/ Forward(r) \/ Handle(r)
      PROVE  UNCHANGED vars
  BY <1>5 DEF ArriveRpc, ArriveHttp, Forward, Handle, RequestStep
<1>6. CASE UNCHANGED allVars
  BY <1>6 DEF allVars
<1> QED
  BY <1>1, <1>2, <1>3, <1>4, <1>5, <1>6 DEF ServiceNext

\* The parts a child stands for have stopped when the child has, and the
\* group when all of them have.
LEMMA GroupLinkStep ==
  ASSUME FourRegistered, GroupLink, GroupInv, IInv, [ServiceNext]_allVars
  PROVE  GroupLink'
<1> USE ServiceAssumption DEF FourRegistered
<1>0. 2 \in Comp /\ comp \in [Comp -> CompState]
  BY Stages DEF Comp
<1>1. /\ MetricsChild \in Grp!Child /\ WorkerChild \in Grp!Child
      /\ MetricsChild < WorkerChild
      /\ child \in [Grp!Child -> Grp!Phases] /\ k \in Int
  BY DEF GroupInv, Grp!TypeOK, Grp!Child, MetricsChild, WorkerChild
<1>2. ASSUME UNCHANGED groupVars PROVE child' = child /\ phase' = phase
  BY <1>2 DEF groupVars
<1>3. mstop = "returned" => mstop' = "returned"
  BY MetricsStep DEF MetricsNext, Met!Start, Met!ReadServer, Met!ListenAndServe, Met!CallStop,
                     Met!StopReturns, metricsVars
<1>4. wstop = "returned" => wstop' = "returned"
  BY WorkerStep DEF Wrk!Next, Wrk!Start, Wrk!CancelBase, Wrk!CallStop, Wrk!StopReturns,
                    Wrk!HandlerEnds, Wrk!HandlerHeeds, workerVars
<1>5. ASSUME UNCHANGED child
      PROVE  /\ child'[MetricsChild] \in Grp!Results => mstop' = "returned"
             /\ child'[WorkerChild] \in Grp!Results => wstop' = "returned"
  BY <1>3, <1>4, <1>5 DEF GroupLink
<1>6. ASSUME comp'[2] = comp[2] \/ ~HasStopped(2)'
      PROVE  HasStopped(2)' => phase' \in {"stopped", "stopErr"}
  <2> SUFFICES ASSUME HasStopped(2)' PROVE phase' \in {"stopped", "stopErr"}
    OBVIOUS
  <2>1. phase \in {"stopped", "stopErr"}
    BY <1>6 DEF HasStopped, GroupLink
  <2> QED
    BY <2>1, GroupStep DEF Grp!Next, Grp!StartChild, Grp!StartReturns, Grp!CallStop, Grp!StopChild,
       Grp!ChildStopped, Grp!ChildResult, Grp!ChildLate, Grp!StopReturns, groupVars
<1>7. CASE StartGroup
  <2>1. comp'[2] = comp[2] \/ ~HasStopped(2)'
    BY <1>0, <1>7 DEF StartGroup, lifecycleVars, vars, StartOk, StartErr, Starting, HasStopped, StopResults
  <2>2. CASE \E r \in {"started", "failed"} : Grp!StartChild(r)
    <3>1. \A c \in Grp!Child : child'[c] \in Grp!Results => child'[c] = child[c]
      BY <1>1, <2>2 DEF Grp!StartChild, Grp!Results
    <3> QED
      BY <1>1, <1>3, <1>4, <1>6, <2>1, <3>1 DEF GroupLink
  <2>3. CASE Grp!StartReturns \/ UNCHANGED groupVars
    BY <1>5, <1>6, <2>1, <2>3 DEF GroupLink, Grp!StartReturns, groupVars
  <2> QED
    BY <1>7, <2>2, <2>3 DEF StartGroup
<1>8. CASE StopGroup
  <2>1. CASE CallStop(2) /\ Grp!CallStop
    <3>1. ~HasStopped(2)'
      BY <1>0, <2>1 DEF CallStop, HasStopped, StopResults
    <3> QED
      BY <1>5, <1>6, <2>1, <3>1 DEF GroupLink, Grp!CallStop
  <2>2. CASE Grp!StopReturns
    BY <1>5, <2>2 DEF GroupLink, Grp!StopReturns
  <2> QED
    BY <1>8, <2>1, <2>2 DEF StopGroup
<1>9. CASE StopChild
  <2>1. comp' = comp
    BY <1>9 DEF StopChild, lifecycleVars, vars
  <2>2. CASE Grp!StopChild
    <3>1. \A c \in Grp!Child : child'[c] \in Grp!Results => child'[c] = child[c]
      BY <1>1, <2>2 DEF Grp!StopChild, Grp!Results
    <3> QED
      BY <1>1, <1>3, <1>4, <1>6, <2>1, <3>1 DEF GroupLink
  <2>3. ASSUME NEW r \in Grp!Results, Grp!ChildStopped(r)
        PROVE  \A c \in Grp!Child : c # k => child'[c] = child[c]
    BY <1>1, <2>3 DEF Grp!ChildStopped, Grp!ChildResult
  <2>4. CASE k < MetricsChild /\ \E r \in {"stopped", "stopErr"} : Grp!ChildStopped(r)
    <3>1. child'[MetricsChild] = child[MetricsChild] /\ child'[WorkerChild] = child[WorkerChild]
      BY <1>1, <2>3, <2>4 DEF Grp!Results, MetricsChild, WorkerChild
    <3> QED
      BY <1>3, <1>4, <1>6, <2>1, <3>1 DEF GroupLink
  <2>5. CASE k = MetricsChild /\ (Grp!ChildStopped("stopped") \/ Grp!ChildLate(StopCtxDone)) /\ Met!StopReturns
    <3>1. mstop' = "returned"
      BY <2>5 DEF Met!StopReturns
    <3>2. child'[WorkerChild] = child[WorkerChild]
      BY <1>1, <2>3, <2>5 DEF Grp!Results, Grp!ChildLate
    <3> QED
      BY <1>4, <1>6, <2>1, <3>1, <3>2 DEF GroupLink
  <2>6. CASE k = WorkerChild /\ Grp!ChildStopped("stopped") /\ Wrk!StopReturns
    <3>1. wstop' = "returned"
      BY <2>6 DEF Wrk!StopReturns
    <3>2. child'[MetricsChild] = child[MetricsChild]
      BY <1>1, <2>3, <2>6 DEF Grp!Results
    <3> QED
      BY <1>3, <1>6, <2>1, <3>1, <3>2 DEF GroupLink
  <2> QED
    BY <1>9, <2>2, <2>4, <2>5, <2>6 DEF StopChild
<1>10. CASE RunControl
  <2>1. comp'[2] = comp[2] \/ ~HasStopped(2)'
    BY <1>0, <1>10 DEF RunControl, Register, CallRun, NotifyContext, KilledBySignal, Signal, Tick, Wake,
       SpawnStop, Return, HasStopped, StopResults
  <2> QED
    BY <1>2, <1>5, <1>6, <1>10, <2>1 DEF RunControl, GroupLink
<1>11. CASE StartDb \/ StartGrpc \/ StartHttp
  <2>1. comp'[2] = comp[2] \/ ~HasStopped(2)'
    BY <1>0, <1>11 DEF StartDb, StartGrpc, StartHttp, Starting, StartOk, StartErr, HasStopped, StopResults
  <2> QED
    BY <1>2, <1>5, <1>6, <1>11, <2>1 DEF StartDb, StartGrpc, StartHttp, GroupLink
<1>12. CASE StopDb \/ CallStopGrpc \/ StopGrpc \/ CallStopHttp \/ StopHttp
  <2>1. comp'[2] = comp[2]
    BY <1>0, <1>12 DEF StopDb, CallStopGrpc, StopGrpc, CallStopHttp, StopHttp,
                       CallStop, StopReturns, StopLate, StopDone
  <2> QED
    BY <1>2, <1>5, <1>6, <1>12, <2>1 DEF StopDb, CallStopGrpc, StopGrpc, CallStopHttp, StopHttp, GroupLink
<1>13. CASE Connect \/ ConnectFails \/ MetricsGoroutine \/ RunWorker
           \/ WorkerGoroutine(TRUE) \/ WorkerGoroutine(FALSE) \/ ServeGrpc \/ ServeHttp
  <2>1. UNCHANGED groupVars /\ UNCHANGED comp
    BY <1>13 DEF Connect, ConnectFails, MetricsGoroutine, RunWorker,
                 WorkerGoroutine, ServeGrpc, ServeHttp, lifecycleVars, vars
  <2> QED
    BY <1>2, <1>5, <1>6, <2>1 DEF GroupLink
<1>14. ASSUME NEW r \in Req, ArriveRpc(r) \/ ArriveHttp(r) \/ Forward(r) \/ Handle(r)
       PROVE  GroupLink'
  <2>1. UNCHANGED groupVars /\ UNCHANGED comp
    BY <1>14 DEF ArriveRpc, ArriveHttp, Forward, Handle, RequestStep, lifecycleVars, vars
  <2> QED
    BY <1>2, <1>5, <1>6, <2>1 DEF GroupLink
<1>15. CASE UNCHANGED allVars
  <2>1. UNCHANGED groupVars /\ UNCHANGED comp
    BY <1>15 DEF allVars, lifecycleVars, vars
  <2> QED
    BY <1>2, <1>5, <1>6, <2>1 DEF GroupLink
<1> QED
  BY <1>7, <1>8, <1>9, <1>10, <1>11, <1>12, <1>13, <1>14, <1>15 DEF ServiceNext

\* A step that touches neither server, no request and no component these
\* depend on, other than to spawn its stop goroutine, keeps what is said of
\* them.
LEMMA ServersFrame ==
  ASSUME ServersInv, UNCHANGED requestVars,
         HasStopped(1) => HasStopped(1)',
         \A c \in {3, 4} : comp'[c] = comp[c] \/ (comp[c] = "started" /\ comp'[c] = "spawned"),
         pc \in {"stopping", "returned"} => pc' \in {"stopping", "returned"}
  PROVE  ServersInv'
<1> USE DEF ServersInv, requestVars
<1>1. Handling' = Handling /\ InHttp' = InHttp
  BY DEF Handling, InHttp
<1>2. RequestOK' /\ DbInv'
  BY DEF RequestOK, DbInv
<1>3. GrpcInv'
  BY <1>1 DEF GrpcInv, Asked, HasStopped, StopResults
<1>4. HttpInv'
  BY <1>1 DEF HttpInv, Asked, HasStopped, StopResults
<1>5. FailuresOnlyInShutdown'
  BY DEF FailuresOnlyInShutdown
<1> QED
  BY <1>2, <1>3, <1>4, <1>5

\* A request moves on: it fails for want of the gRPC server only once that is
\* asked to stop, and for want of the database only once that has stopped.
LEMMA RequestMoves ==
  ASSUME FourRegistered, ServersInv, IInv, NEW r \in Req, ArriveRpc(r) \/ ArriveHttp(r) \/ Forward(r) \/ Handle(r)
  PROVE  ServersInv'
<1> USE DEF FourRegistered, ServersInv
<1>1. PICK s \in {"proxied", "behind", "handling", "ok", "failed"} : RequestStep(r, s)
  BY DEF ArriveRpc, ArriveHttp, Forward, Handle
<1>2. /\ req' = [req EXCEPT ![r] = s]
      /\ comp' = comp /\ pc' = pc /\ db' = db /\ grpc' = grpc /\ http' = http
  BY <1>1 DEF RequestStep, lifecycleVars, vars
<1>3. RequestOK' /\ DbInv'
  BY <1>2 DEF RequestOK, DbInv, HasStopped
<1>4. req'[r] = s /\ \A q \in Req : q # r => req'[q] = req[q]
  BY <1>2 DEF RequestOK
<1>5. CASE ArriveRpc(r)
  <2>1. grpc = "serving" /\ s = "handling"
    BY <1>2, <1>4, <1>5 DEF ArriveRpc, RequestStep, RequestOK
  <2>2. InHttp' \subseteq InHttp
    BY <1>4, <2>1 DEF InHttp
  <2>3. ~HasStopped(3)
    BY <2>1 DEF GrpcInv, Asked, HasStopped
  <2>4. GrpcInv'
    BY <1>2, <2>1, <2>3 DEF GrpcInv, Asked, HasStopped
  <2>5. HttpInv'
    BY <1>2, <2>2 DEF HttpInv, Asked, HasStopped
  <2> QED
    BY <1>2, <1>3, <1>4, <2>1, <2>4, <2>5 DEF FailuresOnlyInShutdown
<1>6. CASE ArriveHttp(r)
  <2>1. http = "serving" /\ s = "proxied" /\ req[r] = "new"
    BY <1>2, <1>4, <1>6 DEF ArriveHttp, RequestStep, RequestOK
  <2>2. Handling' \subseteq Handling
    BY <1>4, <2>1 DEF Handling
  <2>3. ~HasStopped(4) /\ grpc # "off"
    BY <2>1 DEF HttpInv, Asked, HasStopped
  <2>4. GrpcInv'
    BY <1>2, <2>2 DEF GrpcInv, Asked, HasStopped
  <2>5. HttpInv'
    BY <1>2, <2>1, <2>3 DEF HttpInv, Asked, HasStopped
  <2> QED
    BY <1>2, <1>3, <1>4, <2>1, <2>4, <2>5 DEF FailuresOnlyInShutdown
<1>7. CASE Forward(r)
  <2>1. /\ req[r] = "proxied" /\ r \in InHttp /\ grpc # "listening"
        /\ s = IF grpc = "serving" THEN "behind" ELSE "failed"
    BY <1>2, <1>4, <1>7 DEF Forward, RequestStep, RequestOK, InHttp
  <2>2. InHttp' \subseteq InHttp
    BY <1>4, <2>1 DEF InHttp
  <2>3. grpc # "off"
    BY <2>1 DEF HttpInv
  <2>4. grpc # "serving" => Asked(3)
    BY <2>1, <2>3 DEF RequestOK, GrpcInv
  <2>5. grpc # "serving" => pc \in {"stopping", "returned"}
    BY <2>4, Stages DEF Comp
  <2>6. grpc # "serving" => Handling' \subseteq Handling
    BY <1>4, <2>1 DEF Handling
  <2>7. grpc = "serving" => ~HasStopped(3)
    BY DEF GrpcInv, Asked, HasStopped
  <2>8. GrpcInv'
    BY <1>2, <2>6, <2>7 DEF GrpcInv, Asked, HasStopped
  <2>9. HttpInv'
    BY <1>2, <2>2 DEF HttpInv, Asked, HasStopped
  <2>10. FailuresOnlyInShutdown'
    BY <1>2, <1>4, <2>1, <2>5 DEF FailuresOnlyInShutdown
  <2> QED
    BY <1>3, <2>8, <2>9, <2>10
<1>8. CASE Handle(r)
  <2>1. s = IF db = "open" THEN "ok" ELSE "failed"
    BY <1>2, <1>4, <1>8 DEF Handle, RequestStep, RequestOK
  <2>2. InHttp' \subseteq InHttp /\ Handling' \subseteq Handling
    BY <1>4, <2>1 DEF InHttp, Handling
  <2>3. db # "open" => Asked(1)
    BY DEF DbInv, RequestOK, Asked, HasStopped
  <2>4. db # "open" => pc \in {"stopping", "returned"}
    BY <2>3, Stages DEF Comp
  <2>5. GrpcInv' /\ HttpInv'
    BY <1>2, <2>2 DEF GrpcInv, HttpInv, Asked, HasStopped
  <2>6. FailuresOnlyInShutdown'
    BY <1>2, <1>4, <2>1, <2>4 DEF FailuresOnlyInShutdown
  <2> QED
    BY <1>3, <2>5, <2>6
<1> QED
  BY <1>5, <1>6, <1>7, <1>8

\* The gRPC server is started, serves, is asked to stop and stops.
LEMMA GrpcMoves ==
  ASSUME FourRegistered, ServersInv, IInv, StartGrpc \/ ServeGrpc \/ CallStopGrpc \/ StopGrpc
  PROVE  ServersInv'
<1> USE DEF FourRegistered, ServersInv
<1>0. {1, 3, 4} \subseteq Comp /\ comp \in [Comp -> CompState]
  BY Stages DEF Comp
<1>1. db' = db /\ http' = http /\ req' = req
  BY DEF StartGrpc, ServeGrpc, CallStopGrpc, StopGrpc, requestVars
<1>2. Handling' = Handling /\ InHttp' = InHttp
  BY <1>1 DEF Handling, InHttp
<1>3. comp'[1] = comp[1] /\ comp'[4] = comp[4]
  BY <1>0 DEF StartGrpc, ServeGrpc, CallStopGrpc, StopGrpc, Starting, StartOk, StartErr,
              CallStop, StopDone, lifecycleVars, vars
<1>4. pc' = pc \/ pc = "starting"
  BY DEF StartGrpc, ServeGrpc, CallStopGrpc, StopGrpc, Starting, StartOk, StartErr,
         CallStop, StopDone, lifecycleVars, vars
<1>5. grpc' \in {"off", "listening", "serving", "draining", "unserved"} /\ (grpc' = "off" => grpc = "off")
  BY DEF StartGrpc, ServeGrpc, CallStopGrpc, StopGrpc, requestVars, RequestOK
<1>6. RequestOK' /\ DbInv' /\ FailuresOnlyInShutdown'
  BY <1>1, <1>3, <1>4, <1>5 DEF RequestOK, DbInv, HasStopped, FailuresOnlyInShutdown
<1>7. HttpInv'
  BY <1>1, <1>2, <1>3, <1>5 DEF HttpInv, Asked, HasStopped
<1>8. GrpcInv'
  <2>1. CASE StartGrpc
    <3>1. comp[3] = "new"
      BY <1>0, <2>1, Stages DEF StartGrpc
    <3> QED
      BY <1>0, <1>2, <2>1, <3>1
      DEF StartGrpc, Starting, StartOk, StartErr, GrpcInv, Asked, HasStopped, StopResults
  <2>2. CASE ServeGrpc
    BY <1>2, <2>2 DEF ServeGrpc, lifecycleVars, vars, GrpcInv, Asked, HasStopped
  <2>3. CASE CallStopGrpc
    BY <1>0, <1>2, <2>3 DEF CallStopGrpc, CallStop, GrpcInv, Asked, HasStopped, StopResults
  <2>4. CASE StopGrpc
    BY <1>0, <1>2, <2>4 DEF StopGrpc, StopDone, requestVars, GrpcInv, Asked, HasStopped, StopResults
  <2> QED
    BY <2>1, <2>2, <2>3, <2>4
<1> QED
  BY <1>6, <1>7, <1>8

\* The HTTP server is started, serves, is asked to stop and stops.
LEMMA HttpMoves ==
  ASSUME FourRegistered, ServersInv, IInv, StartHttp \/ ServeHttp \/ CallStopHttp \/ StopHttp
  PROVE  ServersInv'
<1> USE DEF FourRegistered, ServersInv
<1>0. {1, 3, 4} \subseteq Comp /\ comp \in [Comp -> CompState]
  BY Stages DEF Comp
<1>1. db' = db /\ grpc' = grpc /\ req' = req
  BY DEF StartHttp, ServeHttp, CallStopHttp, StopHttp, requestVars
<1>2. Handling' = Handling /\ InHttp' = InHttp
  BY <1>1 DEF Handling, InHttp
<1>3. comp'[1] = comp[1] /\ comp'[3] = comp[3]
  BY <1>0 DEF StartHttp, ServeHttp, CallStopHttp, StopHttp, Starting, StartOk, StartErr,
              CallStop, StopLate, StopDone, lifecycleVars, vars
<1>4. pc' = pc \/ pc = "starting"
  BY DEF StartHttp, ServeHttp, CallStopHttp, StopHttp, Starting, StartOk, StartErr,
         CallStop, StopLate, StopDone, lifecycleVars, vars
<1>5. http' \in {"off", "spawned", "serving", "exited"}
  BY DEF StartHttp, ServeHttp, CallStopHttp, StopHttp, requestVars, RequestOK
<1>6. RequestOK' /\ DbInv' /\ FailuresOnlyInShutdown'
  BY <1>1, <1>3, <1>4, <1>5 DEF RequestOK, DbInv, HasStopped, FailuresOnlyInShutdown
<1>7. GrpcInv'
  BY <1>1, <1>2, <1>3 DEF GrpcInv, Asked, HasStopped
<1>8. HttpInv'
  <2>1. CASE StartHttp
    <3>1. comp[4] = "new" /\ comp[3] = "started"
      BY <1>0, <2>1, Stages DEF StartHttp
    <3>2. grpc # "off"
      BY <3>1 DEF GrpcInv
    <3> QED
      BY <1>0, <1>1, <1>2, <2>1, <3>1, <3>2
      DEF StartHttp, Starting, StartOk, StartErr, HttpInv, Asked, HasStopped, StopResults
  <2>2. CASE ServeHttp
    BY <1>2, <2>2 DEF ServeHttp, lifecycleVars, vars, HttpInv, Asked, HasStopped, StopResults
  <2>3. CASE CallStopHttp
    BY <1>0, <1>2, <2>3 DEF CallStopHttp, CallStop, HttpInv, Asked, HasStopped, StopResults
  <2>4. CASE StopHttp
    BY <1>0, <1>2, <2>4 DEF StopHttp, StopLate, StopDone, requestVars, HttpInv, Asked, HasStopped, StopResults
  <2> QED
    BY <2>1, <2>2, <2>3, <2>4
<1> QED
  BY <1>6, <1>7, <1>8

\* Every step of the service keeps what is said of the servers and requests.
LEMMA ServersStep ==
  ASSUME FourRegistered, ServersInv, IInv, [ServiceNext]_allVars
  PROVE  ServersInv'
<1> USE DEF FourRegistered
<1>0. {1, 2, 3, 4} \subseteq Comp /\ comp \in [Comp -> CompState]
  BY Stages DEF Comp
<1>1. [Next]_vars
  BY LifecycleStep
<1>2. /\ HasStopped(1) => HasStopped(1)'
      /\ pc \in {"stopping", "returned"} => pc' \in {"stopping", "returned"}
  BY <1>0, <1>1, Forwards DEF HasStopped
<1>3. CASE RunControl
  <2>1. \A c \in {3, 4} : comp'[c] = comp[c] \/ (comp[c] = "started" /\ comp'[c] = "spawned")
    <3>1. SpawnStop => comp[i] = "started"
      BY LifecycleAssumption DEF SpawnStop, IInv, TypeOK, LoopInv, Comp
    <3> QED
      BY <1>0, <1>3, <3>1 DEF RunControl, Register, CallRun, NotifyContext, KilledBySignal, Signal,
                              Tick, Wake, SpawnStop, Return
  <2> QED
    BY <1>2, <1>3, <2>1, ServersFrame DEF RunControl
<1>4. CASE StartDb \/ StartGroup \/ StopGroup
  <2>1. \A c \in {3, 4} : comp'[c] = comp[c]
    BY <1>0, <1>4 DEF StartDb, StartGroup, StopGroup, Starting, StartOk, StartErr, CallStop, StopDone,
                      lifecycleVars, vars
  <2> QED
    BY <1>2, <1>4, <2>1, ServersFrame DEF StartDb, StartGroup, StopGroup
<1>5. CASE StopDb
  <2>1. /\ \A c \in {3, 4} : comp'[c] = comp[c]
        /\ db' = db \/ HasStopped(1)'
    BY <1>0, <1>5 DEF StopDb, CallStop, StopReturns, StopDone, HasStopped, StopResults
  <2>2. grpc' = grpc /\ http' = http /\ req' = req /\ pc' = pc /\ db' \in {db, "closed"}
    BY <1>5 DEF StopDb, CallStop, StopReturns, StopDone
  <2>3. Handling' = Handling /\ InHttp' = InHttp
    BY <2>2 DEF Handling, InHttp
  <2>4. RequestOK' /\ DbInv' /\ FailuresOnlyInShutdown'
    BY <1>2, <2>1, <2>2 DEF ServersInv, RequestOK, DbInv, FailuresOnlyInShutdown
  <2>5. GrpcInv' /\ HttpInv'
    BY <2>1, <2>2, <2>3 DEF ServersInv, GrpcInv, HttpInv, Asked, HasStopped
  <2> QED
    BY <2>4, <2>5 DEF ServersInv
<1>6. CASE StartGrpc \/ ServeGrpc \/ CallStopGrpc \/ StopGrpc
  BY <1>6, GrpcMoves
<1>7. CASE StartHttp \/ ServeHttp \/ CallStopHttp \/ StopHttp
  BY <1>7, HttpMoves
<1>8. CASE Connect \/ ConnectFails \/ StopChild \/ MetricsGoroutine \/ RunWorker
           \/ WorkerGoroutine(TRUE) \/ WorkerGoroutine(FALSE) \/ UNCHANGED allVars
  <2>1. UNCHANGED requestVars /\ UNCHANGED comp
    BY <1>8 DEF Connect, ConnectFails, StopChild, MetricsGoroutine, RunWorker,
                WorkerGoroutine, allVars, lifecycleVars, vars
  <2> QED
    BY <1>2, <2>1, ServersFrame
<1>9. ASSUME NEW r \in Req, ArriveRpc(r) \/ ArriveHttp(r) \/ Forward(r) \/ Handle(r)
      PROVE  ServersInv'
  BY <1>9, RequestMoves
<1> QED
  BY <1>3, <1>4, <1>5, <1>6, <1>7, <1>8, <1>9 DEF ServiceNext

\* The invariant of the composition, with those of its parts, holds
\* throughout every behaviour of the service.
THEOREM ServiceInvariance ==
  ASSUME FourRegistered
  PROVE  ServiceSpec => []ServiceInv
<1>1. IInv /\ GroupInv /\ ServiceInv /\ [ServiceNext]_allVars => ServiceInv'
  BY ServersStep, GroupLinkStep, RegisteredStep DEF ServiceInv
<1>2. ServiceSpec => []IInv
  BY ServiceIsLifecycle, Invariance, PTL
<1> QED
  BY <1>1, <1>2, ServiceInitInv, GroupInvariance, PTL DEF ServiceSpec

\* A request fails for want of the gRPC server or the database only in the
\* shutdown, for any requests to either server.
THEOREM FailuresCorrect ==
  ASSUME FourRegistered
  PROVE  ServiceSpec => []FailuresOnlyInShutdown
<1>1. ServiceInv => FailuresOnlyInShutdown
  BY DEF ServiceInv, ServersInv
<1> QED
  BY <1>1, ServiceInvariance, PTL

\* When Run has returned nil nothing it started still works, for any group,
\* worker pool, requests and stop timeout.
THEOREM NothingOutlivesCorrect ==
  ASSUME FourRegistered
  PROVE  ServiceSpec => []NothingOutlivesRun
<1>1. ReturnAfterEveryStop /\ GroupInv /\ WorkerInv /\ MetricsInv /\ ServiceInv => NothingOutlivesRun
  <2> SUFFICES ASSUME ReturnAfterEveryStop, GroupInv, WorkerInv, MetricsInv, ServiceInv, pc = "returned"
               PROVE  NothingOutlivesRun!2
    BY DEF NothingOutlivesRun
  <2> USE ServiceAssumption DEF FourRegistered
  <2>1. HasStopped(2) /\ HasStopped(3) /\ HasStopped(4)
    BY DEF ReturnAfterEveryStop, Registered, ServiceInv, RegisteredAll, HasStopped
  <2>2. Handling = {} /\ (InHttp = {} \/ comp[4] = "late")
    BY <2>1 DEF ServiceInv, ServersInv, GrpcInv, HttpInv
  <2>3. \A c \in Grp!Child : child[c] \in Grp!Results
    BY <2>1 DEF ServiceInv, GroupLink, GroupInv, Grp!StopIsComplete, Grp!Results
  <2>4. DOMAIN child = Grp!Child
    BY DEF GroupInv, Grp!TypeOK
  <2>5. mstop = "returned" /\ wstop = "returned"
    BY <2>3 DEF ServiceInv, GroupLink, Grp!Child, MetricsChild, WorkerChild
  <2>6. Wrk!NothingRunsAfterStop
    BY DEF WorkerInv
  <2>7. Met!Down
    BY <2>5 DEF MetricsInv, Met!Down
  <2> QED
    BY <2>2, <2>3, <2>4, <2>5, <2>6, <2>7
<1>2. ServiceSpec => []ReturnAfterEveryStop
  BY ServiceIsLifecycle, ReturnCorrect, PTL
<1> QED
  BY <1>1, <1>2, GroupInvariance, WorkerInvariance, MetricsInvariance, ServiceInvariance, PTL

\* The service inherits what Lifecycle promises: Run returns after every
\* Stop, stops nothing before all have started and keeps to the contract of
\* its components.
THEOREM LifecycleInherited ==
  ASSUME FourRegistered
  PROVE  ServiceSpec => /\ []ReturnAfterEveryStop /\ []StopAfterAllStarted /\ ComponentContract
  BY ServiceIsLifecycle, ReturnCorrect, StopOrderCorrect, ContractImplemented, PTL
=============================================================================
