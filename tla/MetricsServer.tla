--------------------------- MODULE MetricsServer ---------------------------
(***************************************************************************)
(* The metrics server as a lifecycle component: Start, Stop and the        *)
(* goroutine that serves (src/metrics/metrics.go).                         *)
(***************************************************************************)
VARIABLES
  server,   \* m.server: not made, set, or nil again
  shut,     \* Shutdown was called on it
  serve,    \* the goroutine that serves
  stop,     \* where Stop is
  up        \* service_up

vars == <<server, shut, serve, stop, up>>

TypeOK ==
  /\ server \in {"none", "set", "nil"} /\ shut \in BOOLEAN /\ up \in BOOLEAN
  /\ serve \in {"no", "spawned", "called", "serving", "ended", "panicked"}
  /\ stop \in {"no", "going", "returned"}

Init == server = "none" /\ shut = FALSE /\ serve = "no" /\ stop = "no" /\ up = FALSE

SetServiceUp(on) == up' = on

\* Without a port Start does nothing.
Start ==
  /\ server = "none" /\ stop = "no"
  /\ \/ server' = "set" /\ SetServiceUp(TRUE) /\ serve' = "spawned"
     \/ UNCHANGED <<server, up, serve>>
  /\ UNCHANGED <<shut, stop>>

\* The goroutine reads m.server, which Stop may have set to nil.
ReadServer ==
  /\ serve = "spawned"
  /\ serve' = IF server = "set" THEN "called" ELSE "panicked"
  /\ UNCHANGED <<server, shut, stop, up>>

\* ListenAndServe: a server that was shut down, or a port that is taken, ends
\* it; service_up stays as it is.
ListenAndServe ==
  /\ serve = "called"
  /\ serve' \in IF shut THEN {"ended"} ELSE {"serving", "ended"}
  /\ UNCHANGED <<server, shut, stop, up>>

\* Mutant: a server that does not serve yet is not shut down.
CallStopIfServing ==
  /\ stop = "no"
  /\ SetServiceUp(FALSE) /\ stop' = "going" /\ shut' = (serve = "serving")
  /\ serve' = IF serve = "serving" THEN "ended" ELSE serve
  /\ UNCHANGED server

\* Shutdown closes the listener at once and then waits for requests.
CallStop ==
  /\ stop = "no"
  /\ SetServiceUp(FALSE) /\ stop' = "going" /\ shut' = (server = "set")
  /\ serve' = IF serve = "serving" THEN "ended" ELSE serve
  /\ UNCHANGED server

StopReturns ==
  /\ stop = "going"
  /\ stop' = "returned" /\ server' = IF server = "set" THEN "nil" ELSE server
  /\ UNCHANGED <<shut, serve, up>>

----------------------------------------------------------------------------

\* When Stop has returned nothing serves and service_up is zero, also if the
\* goroutine had not yet called ListenAndServe when Stop was called.
Down == stop = "returned" => serve # "serving" /\ ~up
=============================================================================
