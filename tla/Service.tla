------------------------------ MODULE Service ------------------------------
(***************************************************************************)
(* A service as the template makes it                                      *)
(* (src/internal/template/service-kit/cmd/server, infra): main connects to *)
(* the infrastructure, registers components with a Lifecycle and runs it.  *)
(*                                                                         *)
(*   component 1  the database client, whose Stop closes the pool          *)
(*   component 2  a Group of any components, the metrics server and a      *)
(*                worker pool                                              *)
(*   component 3  the gRPC server, whose handlers use the database         *)
(*   component 4  the HTTP server, whose requests the gateway forwards     *)
(*                                                                         *)
(* so that N, the number of components of Lifecycle, is 4.                 *)
(*                                                                         *)
(* Lifecycle, Group, Worker and MetricsServer are the modules of these     *)
(* parts; their steps are joined where one calls the other.  gRPC's and    *)
(* net/http's servers and database/sql are external.                       *)
(***************************************************************************)
EXTENDS Lifecycle

CONSTANTS
  Req,         \* requests, to either server
  GroupSize,   \* children of the group, the last two of which are modelled
  NumOfWorker, \* goroutines of the worker pool
  MaxStarts    \* bound: Starts of the worker pool, Worker.Run included

ASSUME ServiceAssumption ==
  /\ GroupSize \in Nat /\ GroupSize >= 2
  /\ NumOfWorker \in Nat /\ MaxStarts \in Nat

VARIABLES
  infra, tries,                          \* infra.New: what it connects to, failed attempts
  phase, k, child, errs,                 \* Group
  starts, run, ctxDone, workers, wstop,  \* Worker
  server, shut, serve, mstop, up,        \* MetricsServer
  db, grpc, http, req                    \* the pool, both servers, every request

lifecycleVars == vars
infraVars   == <<infra, tries>>
groupVars   == <<phase, k, child, errs>>
workerVars  == <<starts, run, ctxDone, workers, wstop>>
metricsVars == <<server, shut, serve, mstop, up>>
requestVars == <<db, grpc, http, req>>
allVars == <<lifecycleVars, infraVars, groupVars, workerVars, metricsVars, requestVars>>

MetricsChild == GroupSize - 1
WorkerChild  == GroupSize

\* Every child shares the stop context of Lifecycle.
Grp == INSTANCE Group WITH N <- GroupSize, CtxAware <- {MetricsChild}
Wrk == INSTANCE Worker WITH Heedful <- 1..NumOfWorker, wg <- workers, stop <- wstop
Met == INSTANCE MetricsServer WITH stop <- mstop

ServiceTypeOK ==
  /\ TypeOK /\ Grp!TypeOK /\ Wrk!TypeOK /\ Met!TypeOK
  /\ infra \in {"mariadb", "redis", "kafka", "connected", "fatal"} /\ tries \in 0..3
  /\ db \in {"open", "closed"}
  /\ grpc \in {"off", "listening", "serving", "draining", "unserved"}
  /\ http \in {"off", "spawned", "serving", "exited"}
  /\ req \in [Req -> {"new", "proxied", "behind", "handling", "ok", "failed"}]

ServiceInit ==
  /\ Init /\ Grp!Init /\ Wrk!Init /\ Met!Init
  /\ infra = "mariadb" /\ tries = 0
  /\ db = "open" /\ grpc = "off" /\ http = "off"
  /\ req = [r \in Req |-> "new"]

\* main has not returned, nothing was fatal and no goroutine has panicked.
Alive == pc \notin {"returned", "failed", "killed"} /\ infra # "fatal" /\ serve # "panicked"

----------------------------------------------------------------------------
(* infra.New: MariaDB, then Redis, then Kafka *)

\* Further attempts after the first: Redis is pinged four times, Kafka is
\* dialled three times.
Retries == [mariadb |-> 0, redis |-> 3, kafka |-> 2]
After   == [mariadb |-> "redis", redis |-> "kafka", kafka |-> "connected"]

Connect ==
  /\ Alive /\ infra \in DOMAIN After
  /\ infra' = After[infra] /\ tries' = 0
  /\ UNCHANGED <<lifecycleVars, groupVars, workerVars, metricsVars, requestVars>>

\* The last failed attempt is returned, and fatal in main.
ConnectFails ==
  /\ Alive /\ infra \in DOMAIN After
  /\ IF tries < Retries[infra] THEN tries' = tries + 1 /\ infra' = infra
                               ELSE tries' = 0 /\ infra' = "fatal"
  /\ UNCHANGED <<lifecycleVars, groupVars, workerVars, metricsVars, requestVars>>

----------------------------------------------------------------------------
(* Lifecycle on its own *)

\* main registers everything before it calls Run, with a context that nobody
\* cancels.
RunControl ==
  /\ Alive /\ infra = "connected"
  /\ \/ Register \/ (n = N /\ CallRun) \/ NotifyContext
     \/ KilledBySignal \/ Signal \/ Tick \/ Wake \/ SpawnStop \/ Return
  /\ UNCHANGED <<infraVars, groupVars, workerVars, metricsVars, requestVars>>

Starting(c) == Alive /\ pc = "starting" /\ i = c

----------------------------------------------------------------------------
(* Component 1: the database client *)

StartDb ==
  /\ Starting(1) /\ StartOk
  /\ UNCHANGED <<infraVars, groupVars, workerVars, metricsVars, requestVars>>

StopDb ==
  /\ Alive
  /\ \/ CallStop(1) /\ UNCHANGED db
     \/ StopReturns(1) /\ db' = "closed"
  /\ UNCHANGED <<infraVars, groupVars, workerVars, metricsVars, grpc, http, req>>

----------------------------------------------------------------------------
(* Component 2: the group, whose children are started and stopped in turn *)

StartGroup ==
  /\ Starting(2)
  /\ \/ /\ \/ /\ k < MetricsChild /\ \E r \in {"started", "failed"} : Grp!StartChild(r)
              /\ UNCHANGED <<workerVars, metricsVars>>
           \/ k = MetricsChild /\ Grp!StartChild("started") /\ Met!Start /\ UNCHANGED workerVars
           \/ k = WorkerChild /\ Grp!StartChild("started") /\ Wrk!Start /\ UNCHANGED metricsVars
        /\ UNCHANGED lifecycleVars
     \/ Grp!StartReturns /\ StartOk /\ UNCHANGED <<workerVars, metricsVars>>
     \/ phase = "failed" /\ StartErr /\ UNCHANGED <<groupVars, workerVars, metricsVars>>
  /\ UNCHANGED <<infraVars, requestVars>>

StopGroup ==
  /\ Alive
  /\ \/ CallStop(2) /\ Grp!CallStop /\ UNCHANGED <<workerVars, metricsVars>>
     \/ Grp!StopReturns /\ StopDone(2, phase') /\ UNCHANGED <<workerVars, metricsVars>>
  /\ UNCHANGED <<infraVars, requestVars>>

\* The children before them return what they like; the metrics server's Shutdown ends
\* when no request is left or its context is done.
StopChild ==
  /\ Alive
  /\ \/ /\ k < MetricsChild /\ UNCHANGED <<workerVars, metricsVars>>
        /\ Grp!StopChild \/ \E r \in {"stopped", "stopErr"} : Grp!ChildStopped(r)
     \/ /\ k = MetricsChild /\ UNCHANGED workerVars
        /\ \/ Grp!StopChild /\ Met!CallStop
           \/ (Grp!ChildStopped("stopped") \/ Grp!ChildLate(StopCtxDone)) /\ Met!StopReturns
     \/ /\ k = WorkerChild /\ UNCHANGED metricsVars
        /\ \/ Grp!StopChild /\ Wrk!CallStop
           \/ Grp!ChildStopped("stopped") /\ Wrk!StopReturns
  /\ UNCHANGED <<lifecycleVars, infraVars, requestVars>>

MetricsGoroutine ==
  /\ Alive /\ (Met!ReadServer \/ Met!ListenAndServe)
  /\ UNCHANGED <<lifecycleVars, infraVars, groupVars, workerVars, requestVars>>

\* Worker.Run starts the pool a second time.
RunWorker ==
  /\ Alive /\ pc = "waiting" /\ Wrk!Start
  /\ UNCHANGED <<lifecycleVars, infraVars, groupVars, metricsVars, requestVars>>

WorkerGoroutine(heeds) ==
  /\ Alive
  /\ \E g \in Wrk!Batch \X Wrk!Index : IF heeds THEN Wrk!HandlerHeeds(g) ELSE Wrk!HandlerEnds(g)
  /\ UNCHANGED <<lifecycleVars, infraVars, groupVars, metricsVars, requestVars>>

----------------------------------------------------------------------------
(* Component 3: the gRPC server *)

\* Requests a gRPC handler works on, and those the HTTP server waits for.
Handling == {r \in Req : req[r] \in {"handling", "behind"}}
InHttp   == {r \in Req : req[r] \in {"proxied", "behind"}}

\* Start binds the port and leaves Serve to a goroutine.
StartGrpc ==
  /\ Starting(3)
  /\ \/ StartOk /\ grpc' = "listening"
     \/ StartErr /\ UNCHANGED grpc
  /\ UNCHANGED <<infraVars, groupVars, workerVars, metricsVars, db, http, req>>

\* Serve fails, which is only logged, on a server that was stopped before.
ServeGrpc ==
  /\ Alive /\ grpc = "listening" /\ grpc' = "serving"
  /\ UNCHANGED <<lifecycleVars, infraVars, groupVars, workerVars, metricsVars, db, http, req>>

CallStopGrpc ==
  /\ Alive /\ CallStop(3)
  /\ grpc' = IF grpc = "serving" THEN "draining" ELSE "unserved"
  /\ UNCHANGED <<infraVars, groupVars, workerVars, metricsVars, db, http, req>>

\* GracefulStop waits for every handler and closes the listener Serve was
\* given, so that closing it again is an error; a Serve that comes later
\* closes it as well, before or after.
StopGrpc ==
  /\ Alive /\ Handling = {}
  /\ \E r \in {"stopped", "stopErr"} : (grpc = "draining" => r = "stopErr") /\ StopDone(3, r)
  /\ UNCHANGED <<infraVars, groupVars, workerVars, metricsVars, requestVars>>

----------------------------------------------------------------------------
(* Component 4: the HTTP server *)

\* The gateway may fail to be set up.
StartHttp ==
  /\ Starting(4)
  /\ \/ StartOk /\ http' = "spawned"
     \/ StartErr /\ UNCHANGED http
  /\ UNCHANGED <<infraVars, groupVars, workerVars, metricsVars, db, grpc, req>>

\* ListenAndServe; that the port is taken is only logged.
ServeHttp ==
  /\ Alive /\ http = "spawned"
  /\ http' \in IF comp[4] \in {"started", "spawned"} THEN {"serving", "exited"} ELSE {"exited"}
  /\ UNCHANGED <<lifecycleVars, infraVars, groupVars, workerVars, metricsVars, db, grpc, req>>

CallStopHttp ==
  /\ Alive /\ CallStop(4)
  /\ http' = IF http = "serving" THEN "exited" ELSE http
  /\ UNCHANGED <<infraVars, groupVars, workerVars, metricsVars, db, grpc, req>>

StopHttp ==
  /\ Alive
  /\ StopLate(4) \/ (InHttp = {} /\ StopDone(4, "stopped"))
  /\ UNCHANGED <<infraVars, groupVars, workerVars, metricsVars, requestVars>>

----------------------------------------------------------------------------
(* Requests *)

RequestStep(r, s) ==
  /\ Alive /\ req' = [req EXCEPT ![r] = s]
  /\ UNCHANGED <<lifecycleVars, infraVars, groupVars, workerVars, metricsVars, db, grpc, http>>

ArriveRpc(r)  == req[r] = "new" /\ grpc = "serving" /\ RequestStep(r, "handling")
ArriveHttp(r) == req[r] = "new" /\ http = "serving" /\ RequestStep(r, "proxied")

\* Mutant: the gateway does not wait for a server that listens.
ForwardAtOnce(r) ==
  req[r] = "proxied" /\ RequestStep(r, IF grpc = "serving" THEN "behind" ELSE "failed")

\* The gateway calls the gRPC server, which may be gone; a connection to a
\* port that is bound waits for Serve.
Forward(r) ==
  /\ req[r] = "proxied" /\ grpc # "listening"
  /\ RequestStep(r, IF grpc = "serving" THEN "behind" ELSE "failed")

\* The handler uses the database, whose pool may be closed.
Handle(r) ==
  /\ r \in Handling
  /\ RequestStep(r, IF db = "open" THEN "ok" ELSE "failed")

----------------------------------------------------------------------------

ServiceNext ==
  \/ Connect \/ ConnectFails \/ RunControl
  \/ StartDb \/ StopDb
  \/ StartGroup \/ StopGroup \/ StopChild \/ MetricsGoroutine
  \/ RunWorker \/ WorkerGoroutine(TRUE) \/ WorkerGoroutine(FALSE)
  \/ StartGrpc \/ ServeGrpc \/ CallStopGrpc \/ StopGrpc
  \/ StartHttp \/ ServeHttp \/ CallStopHttp \/ StopHttp
  \/ \E r \in Req : ArriveRpc(r) \/ ArriveHttp(r) \/ Forward(r) \/ Handle(r)

ServiceSpec == ServiceInit /\ [][ServiceNext]_allVars

\* Goroutines that can run do and time passes.  Nobody sends a signal, no
\* request has to arrive, and no handler has to end by itself.
\* Every step is one a process makes only once, so fairness of all of them
\* together is enough.
Progress ==
  \/ RunControl /\ pc' # "killed" /\ signalled' = signalled
  \/ StopDb \/ StopGroup \/ StopChild \/ MetricsGoroutine \/ WorkerGoroutine(TRUE)
  \/ ServeGrpc \/ CallStopGrpc \/ StopGrpc \/ CallStopHttp \/ StopHttp
  \/ \E r \in Req : Forward(r)

FairService == ServiceSpec /\ WF_allVars(Progress)

----------------------------------------------------------------------------
(* Properties *)

\* A child of the group is asked to stop only when all the children after it
\* have stopped: Group.Stop keeps the order that Lifecycle.Run only documents.
ReverseStopOrder == Grp!ReverseStopOrder

\* When Group.Stop returns, the Stop of every child has returned, whether or
\* not others failed, and it reports an error exactly when one of them did.
StopIsComplete == Grp!StopIsComplete

\* When Run has returned nil, nothing it started still works: no gRPC handler
\* and no worker runs, the metrics server and the group's children are down,
\* and an HTTP request is left only if its server's Stop ran out of time.
NothingOutlivesRun ==
  pc = "returned" =>
    /\ Handling = {}
    /\ Wrk!NothingRunsAfterStop /\ wstop = "returned"
    /\ Met!Down /\ mstop = "returned"
    /\ \A c \in DOMAIN child : child[c] \in Grp!Results
    /\ InHttp = {} \/ comp[4] = "late"

\* A request fails for want of the gRPC server or the database only once the
\* shutdown has begun: the components are started in the order of their
\* dependencies.  The stops are concurrent, so in a shutdown it may fail.
FailuresOnlyInShutdown ==
  (\E r \in Req : req[r] = "failed") => pc \in {"stopping", "returned"}

\* Once the shutdown begins Run returns, unless a gRPC handler never returns,
\* the worker pool's cancel function was overwritten by a second Start, or
\* the metrics server's goroutine comes too late and ends the process.
ServiceStops ==
  pc = "stopping" ~>
    (pc = "returned" \/ serve = "panicked"
       \/ [](Handling # {}) \/ [](Wrk!Unstoppable # {}))
=============================================================================
