------------------------------- MODULE Server -------------------------------
(***************************************************************************)
(* server.Server.Run and the function it returns (src/server/main.go): a   *)
(* gRPC server and an HTTP server, each served by a goroutine, and their   *)
(* shutdowns, which run side by side once the signal has come.  l.Fatal    *)
(* ends the process wherever it is called.  gRPC's Serve and GracefulStop  *)
(* and net/http's ListenAndServe and Shutdown are external.                *)
(***************************************************************************)
EXTENDS Integers, FiniteSets

CONSTANTS
  Rpc, Http,         \* the requests of each server
  Hung,              \* the requests whose handler never returns
  ShutdownTimeout    \* ticks that Shutdown is given, the five seconds

ASSUME ServerAssumption ==
  Rpc \cap Http = {} /\ Hung \subseteq Rpc \cup Http /\ ShutdownTimeout \in Nat \ {0}

VARIABLES
  run,        \* where Run and the function it returns are
  grpc,       \* the gRPC server
  http,       \* the HTTP server
  stops,      \* the shutdown of each: not begun, going on, over
  wg,         \* the wait group's counter
  signalled,  \* signalCtx is done
  clock,      \* ticks since the HTTP server's shutdown began
  req,        \* every request
  fresh,      \* whether HTTP has a connection that has brought no request yet
  fatal       \* why the process was ended, "no" while it runs

vars == <<run, grpc, http, stops, wg, signalled, clock, req, fresh, fatal>>

Servers == {"grpc", "http"}
Active(s) == {r \in s : req[r] = "active"}

TypeOK ==
  /\ run \in {"grpc", "http", "wait", "returned", "ending", "ended"}
  /\ grpc \in {"off", "listening", "serving", "exited"}
  /\ http \in {"off", "started", "serving", "exited"}
  /\ stops \in [Servers -> {"no", "spawned", "going", "over"}]
  /\ wg \in 0..2
  /\ signalled \in BOOLEAN
  /\ clock \in 0..ShutdownTimeout
  /\ req \in [Rpc \cup Http -> {"new", "active", "done"}]
  /\ fresh \in {"none", "open"}
  /\ fatal \in {"no", "grpcPort", "httpPort", "serve", "shutdown"}

Init ==
  /\ run = "grpc" /\ grpc = "off" /\ http = "off"
  /\ stops = [s \in Servers |-> "no"]
  /\ wg = 0 /\ signalled = FALSE /\ clock = 0
  /\ req = [r \in Rpc \cup Http |-> "new"]
  /\ fresh = "none" /\ fatal = "no"

Alive == fatal = "no"

Fatal(why) ==
  /\ fatal' = why
  /\ UNCHANGED <<run, grpc, http, stops, wg, signalled, clock, req, fresh>>

----------------------------------------------------------------------------
(* Run *)

\* The gRPC port is bound before the goroutine that serves it is started.
ListenGrpc ==
  /\ Alive /\ run = "grpc"
  /\ run' = "http" /\ grpc' = "listening"
  /\ UNCHANGED <<http, stops, wg, signalled, clock, req, fresh, fatal>>

\* The port is zero or cannot be bound.
ListenGrpcFails == Alive /\ run = "grpc" /\ Fatal("grpcPort")

\* The port of the HTTP server is zero.
StartHttpFails == Alive /\ run = "http" /\ Fatal("httpPort")

StartHttp ==
  /\ Alive /\ run = "http"
  /\ run' = "wait" /\ http' = "started"
  /\ UNCHANGED <<grpc, stops, wg, signalled, clock, req, fresh, fatal>>

Signal ==
  /\ Alive /\ ~signalled
  /\ signalled' = TRUE
  /\ UNCHANGED <<run, grpc, http, stops, wg, clock, req, fresh, fatal>>

Wait ==
  /\ Alive /\ run = "wait" /\ signalled
  /\ run' = "returned"
  /\ UNCHANGED <<grpc, http, stops, wg, signalled, clock, req, fresh, fatal>>

----------------------------------------------------------------------------
(* The goroutines that serve *)

\* Serve on a server that was stopped before fails, and that is fatal.
ServeGrpc ==
  /\ Alive /\ grpc = "listening"
  /\ IF stops["grpc"] \in {"going", "over"}
       THEN Fatal("serve")
       ELSE /\ grpc' = "serving"
            /\ UNCHANGED <<run, http, stops, wg, signalled, clock, req, fresh, fatal>>

\* ListenAndServe after Shutdown returns ErrServerClosed, which is not fatal.
ServeHttp ==
  /\ Alive /\ http = "started"
  /\ http' = IF stops["http"] \in {"going", "over"} THEN "off" ELSE "serving"
  /\ UNCHANGED <<run, grpc, stops, wg, signalled, clock, req, fresh, fatal>>

\* An accept fails for good: Serve and ListenAndServe return its error.
ServeFails == Alive /\ (grpc = "serving" \/ http = "serving") /\ Fatal("serve")

ListenHttpFails ==
  /\ Alive /\ http = "started" /\ stops["http"] \notin {"going", "over"}
  /\ Fatal("httpPort")

\* Connections that are open when a shutdown begins may bring requests until
\* it is over.
Arrive(r) ==
  /\ Alive /\ req[r] = "new"
  /\ \/ r \in Rpc /\ (grpc = "serving" \/ (grpc = "exited" /\ stops["grpc"] = "going"))
     \/ r \in Http /\ (http = "serving" \/ (http = "exited" /\ stops["http"] = "going"))
  /\ req' = [req EXCEPT ![r] = "active"]
  /\ UNCHANGED <<run, grpc, http, stops, wg, signalled, clock, fresh, fatal>>

Finish(r) ==
  /\ Alive /\ req[r] = "active" /\ r \notin Hung
  /\ req' = [req EXCEPT ![r] = "done"]
  /\ UNCHANGED <<run, grpc, http, stops, wg, signalled, clock, fresh, fatal>>

\* A client connects to the HTTP server and sends nothing yet; later it sends
\* a request, or closes the connection.
Connect ==
  /\ Alive /\ http = "serving" /\ fresh = "none"
  /\ fresh' = "open"
  /\ UNCHANGED <<run, grpc, http, stops, wg, signalled, clock, req, fatal>>

ConnectionUsed ==
  /\ Alive /\ fresh = "open"
  /\ fresh' = "none"
  /\ UNCHANGED <<run, grpc, http, stops, wg, signalled, clock, req, fatal>>

----------------------------------------------------------------------------
(* The function Run returns *)

CallEnd ==
  /\ Alive /\ run = "returned"
  /\ run' = "ending" /\ wg' = 2
  /\ stops' = [s \in Servers |-> "spawned"]
  /\ UNCHANGED <<grpc, http, signalled, clock, req, fresh, fatal>>

\* GracefulStop begins: no connection is accepted any more and Serve returns
\* nil if it runs.
GracefulStop ==
  /\ Alive /\ stops["grpc"] = "spawned"
  /\ stops' = [stops EXCEPT !["grpc"] = "going"]
  /\ grpc' = IF grpc = "serving" THEN "exited" ELSE grpc
  /\ UNCHANGED <<run, http, wg, signalled, clock, req, fresh, fatal>>

\* Mutant: Stop in place of GracefulStop, which does not wait for the handlers.
GrpcStoppedAtOnce ==
  /\ Alive /\ stops["grpc"] = "going"
  /\ stops' = [stops EXCEPT !["grpc"] = "over"] /\ wg' = wg - 1
  /\ UNCHANGED <<run, grpc, http, signalled, clock, req, fresh, fatal>>

\* It waits for the handlers however long they take.
GrpcStopped ==
  /\ Alive /\ stops["grpc"] = "going" /\ Active(Rpc) = {}
  /\ stops' = [stops EXCEPT !["grpc"] = "over"] /\ wg' = wg - 1
  /\ UNCHANGED <<run, grpc, http, signalled, clock, req, fresh, fatal>>

Shutdown ==
  /\ Alive /\ stops["http"] = "spawned"
  /\ stops' = [stops EXCEPT !["http"] = "going"]
  /\ http' = IF http = "serving" THEN "exited" ELSE http
  /\ UNCHANGED <<run, grpc, wg, signalled, clock, req, fresh, fatal>>

\* net/http waits for requests and for connections that have yet to bring one.
HttpBusy == Active(Http) # {} \/ fresh = "open"

HttpStopped ==
  /\ Alive /\ stops["http"] = "going" /\ ~HttpBusy
  /\ stops' = [stops EXCEPT !["http"] = "over"] /\ wg' = wg - 1
  /\ UNCHANGED <<run, grpc, http, signalled, clock, req, fresh, fatal>>

\* Mutant: Shutdown is given no deadline.
HttpNeverTimesOut == FALSE /\ Fatal("shutdown")

\* The five seconds are over: the process ends, whatever the gRPC server's
\* handlers are doing.
HttpTimesOut ==
  /\ Alive /\ stops["http"] = "going" /\ HttpBusy /\ clock = ShutdownTimeout
  /\ Fatal("shutdown")

Tick ==
  /\ Alive /\ stops["http"] = "going" /\ clock < ShutdownTimeout
  /\ clock' = clock + 1
  /\ UNCHANGED <<run, grpc, http, stops, wg, signalled, req, fresh, fatal>>

EndReturns ==
  /\ Alive /\ run = "ending" /\ wg = 0
  /\ run' = "ended"
  /\ UNCHANGED <<grpc, http, stops, wg, signalled, clock, req, fresh, fatal>>

Next ==
  \/ ListenGrpc \/ ListenGrpcFails \/ StartHttp \/ StartHttpFails \/ Signal \/ Wait
  \/ ServeGrpc \/ ServeHttp \/ ServeFails \/ ListenHttpFails \/ Connect \/ ConnectionUsed
  \/ \E r \in Rpc \cup Http : Arrive(r) \/ Finish(r)
  \/ CallEnd \/ GracefulStop \/ GrpcStopped \/ Shutdown \/ HttpStopped
  \/ HttpTimesOut \/ Tick \/ EndReturns

Spec == Init /\ [][Next]_vars

\* Goroutines that can run do, time passes and handlers that end do end.
\* Nothing sends the signal, and a client may leave its connection unused.
FairSpec ==
  /\ Spec
  /\ WF_vars(Wait) /\ WF_vars(CallEnd) /\ WF_vars(EndReturns) /\ WF_vars(Tick)
  /\ WF_vars(GracefulStop) /\ WF_vars(GrpcStopped)
  /\ WF_vars(Shutdown) /\ WF_vars(HttpStopped) /\ WF_vars(HttpTimesOut)
  /\ \A r \in Rpc \cup Http : WF_vars(Finish(r))

----------------------------------------------------------------------------
(* Properties *)

\* When the end function has returned, no request of either server is being
\* handled: what the caller then closes is not in use.
DrainedAtEnd == run = "ended" => Active(Rpc \cup Http) = {}

\* A shutdown that has begun ends, with the end function's return or with the
\* process, unless a gRPC handler never returns.
ShutdownEnds ==
  run = "ending" ~> (run = "ended" \/ ~Alive \/ [](Active(Rpc \cap Hung) # {}))
=============================================================================
