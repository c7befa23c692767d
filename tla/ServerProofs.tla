---------------------------- MODULE ServerProofs ----------------------------
(***************************************************************************)
(* Server drains its requests for any requests, any of them hung, and any  *)
(* timeout.                                                                *)
(***************************************************************************)
EXTENDS Server, TLAPS

\* TypeOK without its Boolean part.
StateOK ==
  /\ run \in {"grpc", "http", "wait", "returned", "ending", "ended"}
  /\ grpc \in {"off", "listening", "serving", "exited"}
  /\ http \in {"off", "started", "serving", "exited"}
  /\ stops \in [Servers -> {"no", "spawned", "going", "over"}]
  /\ wg \in 0..2
  /\ clock \in 0..ShutdownTimeout
  /\ req \in [Rpc \cup Http -> {"new", "active", "done"}]
  /\ fresh \in {"none", "open"}
  /\ fatal \in {"no", "grpcPort", "httpPort", "serve", "shutdown"}

Pending(s) == IF stops[s] \in {"spawned", "going"} THEN 1 ELSE 0

\* The wait group counts the shutdowns that are not over; they begin together
\* and the end function returns after both.
WaitGroupInv ==
  /\ run \notin {"ending", "ended"} => \A s \in Servers : stops[s] = "no"
  /\ run \in {"ending", "ended"} => \A s \in Servers : stops[s] # "no"
  /\ wg = Pending("grpc") + Pending("http")
  /\ run = "ended" => \A s \in Servers : stops[s] = "over"

\* A server whose shutdown has begun serves no new connection, and one whose
\* shutdown is over has no request left.
DrainInv ==
  /\ stops["grpc"] \in {"going", "over"} => grpc # "serving"
  /\ stops["http"] \in {"going", "over"} => http # "serving"
  /\ stops["grpc"] = "over" => Active(Rpc) = {}
  /\ stops["http"] = "over" => Active(Http) = {}

IInv == signalled \in BOOLEAN /\ StateOK /\ WaitGroupInv /\ DrainInv

----------------------------------------------------------------------------

\* Before Run nothing is served and IInv holds.
LEMMA InitInv == Init => IInv
<1> SUFFICES ASSUME Init PROVE IInv
  OBVIOUS
<1> USE ServerAssumption DEF Init
<1>1. signalled \in BOOLEAN
  OBVIOUS
<1>2. StateOK
  BY DEF StateOK
<1>3. WaitGroupInv
  BY DEF WaitGroupInv, Pending, Servers
<1>4. DrainInv
  BY DEF DrainInv, Servers
<1> QED
  BY <1>1, <1>2, <1>3, <1>4 DEF IInv

\* l.Fatal stops everything where it is.
LEMMA FatalInv ==
  ASSUME IInv, ListenGrpcFails \/ StartHttpFails \/ (ServeGrpc /\ fatal' # "no") \/ ServeFails
               \/ ListenHttpFails \/ HttpTimesOut
  PROVE  IInv'
<1> USE ServerAssumption DEF IInv
<1>1. /\ UNCHANGED <<run, grpc, http, stops, wg, clock, req, fresh>>
      /\ fatal' \in {"grpcPort", "httpPort", "serve", "shutdown"}
  BY DEF ListenGrpcFails, StartHttpFails, ServeGrpc, ServeFails, ListenHttpFails, HttpTimesOut, Fatal, Alive
<1>2. signalled' \in BOOLEAN
  <2>1. signalled' = signalled
    BY DEF ListenGrpcFails, StartHttpFails, ServeGrpc, ServeFails, ListenHttpFails, HttpTimesOut, Fatal
  <2> QED
    BY <2>1, Zenon
<1>3. StateOK'
  BY <1>1 DEF StateOK
<1>4. WaitGroupInv'
  BY <1>1 DEF WaitGroupInv, Pending
<1>5. Active(Http)' = Active(Http) /\ Active(Rpc)' = Active(Rpc)
  BY <1>1 DEF Active
<1>6. DrainInv'
  BY <1>1, <1>5 DEF DrainInv
<1> QED
  BY <1>2, <1>3, <1>4, <1>6

\* Run and the goroutines that serve.
LEMMA RunInv ==
  ASSUME IInv, ListenGrpc \/ StartHttp \/ Signal \/ Wait
               \/ (ServeGrpc /\ fatal' = "no") \/ ServeHttp \/ Tick \/ Connect \/ ConnectionUsed
  PROVE  IInv'
<1> USE ServerAssumption DEF IInv
<1>1. UNCHANGED <<stops, wg, req, fatal>> /\ fatal = "no"
  BY DEF ListenGrpc, StartHttp, Signal, Wait, ServeGrpc, ServeHttp, Tick, Connect, ConnectionUsed, Fatal, Alive
<1>2. signalled' \in BOOLEAN
  <2>1. signalled' \in {signalled, TRUE}
    BY DEF ListenGrpc, StartHttp, Signal, Wait, ServeGrpc, ServeHttp, Tick, Connect, ConnectionUsed, Fatal, Alive
  <2> QED
    BY <2>1, Zenon
<1>3. StateOK'
  BY <1>1 DEF ListenGrpc, StartHttp, Signal, Wait, ServeGrpc, ServeHttp, Tick, Connect, ConnectionUsed, Fatal, Alive, StateOK
<1>4. run' = run \/ (run \notin {"ending", "ended"} /\ run' \notin {"ending", "ended"})
  BY DEF ListenGrpc, StartHttp, Signal, Wait, ServeGrpc, ServeHttp, Tick, Connect, ConnectionUsed, Fatal, Alive
<1>5. WaitGroupInv'
  BY <1>1, <1>4 DEF WaitGroupInv, Pending
<1>6. Active(Http)' = Active(Http) /\ Active(Rpc)' = Active(Rpc)
  BY <1>1 DEF Active
<1>7. /\ grpc' = "serving" => grpc = "serving" \/ stops["grpc"] \notin {"going", "over"}
      /\ http' = "serving" => http = "serving" \/ stops["http"] \notin {"going", "over"}
  BY <1>1 DEF ListenGrpc, StartHttp, Signal, Wait, ServeGrpc, ServeHttp, Tick, Connect, ConnectionUsed, Fatal
<1>8. DrainInv'
  BY <1>1, <1>6, <1>7 DEF DrainInv
<1> QED
  BY <1>1, <1>2, <1>3, <1>5, <1>8

\* A request comes only to a server whose shutdown is not over.
LEMMA RequestInv ==
  ASSUME IInv, NEW r \in Rpc \cup Http, Arrive(r) \/ Finish(r)
  PROVE  IInv'
<1> USE ServerAssumption DEF IInv
<1>1. UNCHANGED <<run, grpc, http, stops, wg, clock, fatal>> /\ fatal = "no"
  BY DEF Arrive, Finish, Alive
<1>2. signalled' \in BOOLEAN
  <2>1. signalled' = signalled
    BY DEF Arrive, Finish
  <2> QED
    BY <2>1, Zenon
<1>3. StateOK'
  BY <1>1 DEF Arrive, Finish, StateOK
<1>4. WaitGroupInv'
  BY <1>1 DEF WaitGroupInv, Pending
<1>5. DrainInv'
  <2>1. CASE Finish(r)
    <3>1. Active(Rpc)' \subseteq Active(Rpc) /\ Active(Http)' \subseteq Active(Http)
      BY <2>1 DEF Finish, Active, StateOK
    <3> QED
      BY <1>1, <3>1 DEF DrainInv
  <2>2. CASE Arrive(r)
    <3>1. \A q \in Rpc \cup Http : q # r => req'[q] = req[q]
      BY <2>2 DEF Arrive, StateOK
    <3>2. CASE r \in Rpc
      <4>1. Active(Http)' = Active(Http)
        BY <3>1, <3>2 DEF Active
      <4>2. stops["grpc"] # "over"
        BY <2>2, <3>2 DEF Arrive, DrainInv
      <4> QED
        BY <1>1, <4>1, <4>2 DEF DrainInv
    <3>3. CASE r \in Http
      <4>1. Active(Rpc)' = Active(Rpc)
        BY <3>1, <3>3 DEF Active
      <4>2. stops["http"] # "over"
        BY <2>2, <3>3 DEF Arrive, DrainInv
      <4> QED
        BY <1>1, <4>1, <4>2 DEF DrainInv
    <3> QED
      BY <3>2, <3>3
  <2> QED
    BY <2>1, <2>2
<1> QED
  BY <1>1, <1>2, <1>3, <1>4, <1>5

\* The end function and the two shutdowns.
LEMMA EndInv ==
  ASSUME IInv, CallEnd \/ GracefulStop \/ GrpcStopped \/ Shutdown \/ HttpStopped \/ EndReturns
  PROVE  IInv'
<1> USE ServerAssumption DEF IInv, Servers
<1>1. UNCHANGED <<clock, req, fatal>> /\ fatal = "no"
  BY DEF CallEnd, GracefulStop, GrpcStopped, Shutdown, HttpStopped, EndReturns, Alive
<1>2. signalled' \in BOOLEAN
  <2>1. signalled' = signalled
    BY DEF CallEnd, GracefulStop, GrpcStopped, Shutdown, HttpStopped, EndReturns
  <2> QED
    BY <2>1, Zenon
<1>3. Active(Http)' = Active(Http) /\ Active(Rpc)' = Active(Rpc)
  BY <1>1 DEF Active
<1>4. CASE CallEnd
  <2>1. StateOK'
    BY <1>4 DEF CallEnd, StateOK
  <2>2. WaitGroupInv'
    BY <1>4 DEF CallEnd, WaitGroupInv, Pending
  <2>3. DrainInv'
    BY <1>4 DEF CallEnd, DrainInv
  <2> QED
    BY <1>1, <1>2, <2>1, <2>2, <2>3
<1>5. CASE GracefulStop \/ Shutdown
  <2>1. StateOK'
    BY <1>5 DEF GracefulStop, Shutdown, StateOK
  <2>2. WaitGroupInv'
    BY <1>5 DEF GracefulStop, Shutdown, StateOK, WaitGroupInv, Pending
  <2>3. DrainInv'
    BY <1>3, <1>5 DEF GracefulStop, Shutdown, StateOK, DrainInv
  <2> QED
    BY <1>1, <1>2, <2>1, <2>2, <2>3
<1>6. CASE GrpcStopped \/ HttpStopped
  <2>1. WaitGroupInv' /\ wg' \in 0..2
    BY <1>6 DEF GrpcStopped, HttpStopped, StateOK, WaitGroupInv, Pending
  <2>2. StateOK'
    BY <1>6, <2>1 DEF GrpcStopped, HttpStopped, StateOK
  <2>3. DrainInv'
    BY <1>3, <1>6 DEF GrpcStopped, HttpStopped, HttpBusy, StateOK, DrainInv
  <2> QED
    BY <1>1, <1>2, <2>1, <2>2, <2>3
<1>7. CASE EndReturns
  <2>1. StateOK'
    BY <1>7 DEF EndReturns, StateOK
  <2>2. WaitGroupInv'
    BY <1>7 DEF EndReturns, StateOK, WaitGroupInv, Pending
  <2>3. DrainInv'
    BY <1>3, <1>7 DEF EndReturns, DrainInv
  <2> QED
    BY <1>1, <1>2, <2>1, <2>2, <2>3
<1> QED
  BY <1>4, <1>5, <1>6, <1>7

\* A step in which nothing happens.
LEMMA StutterInv ==
  ASSUME IInv, UNCHANGED vars
  PROVE  IInv'
<1> USE DEF IInv, vars
<1>1. signalled' \in BOOLEAN
  BY Zenon
<1>2. StateOK' /\ WaitGroupInv'
  BY DEF StateOK, WaitGroupInv, Pending
<1>3. DrainInv'
  BY DEF DrainInv, Active
<1> QED
  BY <1>1, <1>2, <1>3

----------------------------------------------------------------------------

\* IInv holds throughout every behaviour.
THEOREM Invariance == Spec => []IInv
<1>1. IInv /\ [Next]_vars => IInv'
  BY FatalInv, RunInv, RequestInv, EndInv, StutterInv DEF Next
<1> QED
  BY <1>1, InitInv, PTL DEF Spec

\* The variables keep their types; the wait group's counter stays in its range.
THEOREM TypeCorrect == Spec => []TypeOK
<1>1. IInv => TypeOK
  BY DEF IInv, StateOK, TypeOK
<1> QED
  BY <1>1, Invariance, PTL

\* When the end function has returned no request is being handled.
THEOREM DrainCorrect == Spec => []DrainedAtEnd
<1>1. IInv => DrainedAtEnd
  BY DEF IInv, WaitGroupInv, DrainInv, DrainedAtEnd, Active, Servers
<1> QED
  BY <1>1, Invariance, PTL
=============================================================================
