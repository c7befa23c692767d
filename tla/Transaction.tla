---------------------------- MODULE Transaction ----------------------------
(***************************************************************************)
(* transaction.Transaction (src/transaction/transaction.go): requests that *)
(* begin transactions, nest them, do their work and end each one with the  *)
(* function BeginTransaction returned, over a pool of MaxOpenConns         *)
(* connections (src/db/database.go).                                       *)
(*                                                                         *)
(* The end function calls recover, which Go honours only in a function     *)
(* that is itself deferred, and takes the error as an argument, which a    *)
(* defer statement evaluates at once.  So a caller that defers it directly *)
(* shows it panics and no errors, and one that defers a closure around it  *)
(* shows it errors and no panics.                                          *)
(***************************************************************************)
EXTENDS Integers, FiniteSets

CONSTANTS
  Req,            \* the requests
  Direct,         \* those that defer the end function itself
  MaxOpenConns,   \* connections in the pool
  Nests           \* the requests that begin a second transaction in the first

ASSUME TransactionAssumption ==
  Direct \subseteq Req /\ Nests \subseteq Req /\ MaxOpenConns \in Nat

Frame == Req \X {1, 2}

VARIABLES
  phase,     \* what each request is doing
  depth,     \* how many transactions it is in
  ctxDone,   \* the requests whose context is done
  work,      \* how the work of each frame ended
  tx,        \* the transaction of each frame
  result     \* what the end function of each frame returned

vars == <<phase, depth, ctxDone, work, tx, result>>

Free == MaxOpenConns - Cardinality({f \in Frame : tx[f] = "open"})

TypeOK ==
  /\ phase \in [Req -> {"idle", "begin", "work", "end", "done"}]
  /\ depth \in [Req -> 0..2]
  /\ ctxDone \subseteq Req
  /\ work \in [Frame -> {"none", "ok", "error", "panic"}]
  /\ tx \in [Frame -> {"none", "invalid", "open", "committed", "rolledback"}]
  /\ result \in [Frame -> {"none", "nil", "err"}]
  /\ Free >= 0

Init ==
  /\ phase = [r \in Req |-> "idle"]
  /\ depth = [r \in Req |-> 0]
  /\ ctxDone = {}
  /\ work = [f \in Frame |-> "none"]
  /\ tx = [f \in Frame |-> "none"]
  /\ result = [f \in Frame |-> "none"]

Top(r) == <<r, depth[r]>>

----------------------------------------------------------------------------
(* BeginTransaction *)

CallBegin(r) ==
  /\ \/ phase[r] = "idle"
     \/ phase[r] = "work" /\ depth[r] = 1 /\ r \in Nests /\ tx[<<r, 2>>] = "none"
  /\ phase' = [phase EXCEPT ![r] = "begin"]
  /\ depth' = [depth EXCEPT ![r] = @ + 1]
  /\ UNCHANGED <<ctxDone, work, tx, result>>

\* The pool has a connection for the new transaction.
BeginOk(r) ==
  /\ phase[r] = "begin"
  /\ r \notin ctxDone /\ Free > 0
  /\ phase' = [phase EXCEPT ![r] = "work"]
  /\ tx' = [tx EXCEPT ![Top(r)] = "open"]
  /\ UNCHANGED <<depth, ctxDone, work, result>>

\* Begin fails, perhaps because the context is done while it waits for a
\* connection.  The invalid transaction is put into the context all the same
\* and the request goes on.
BeginErr(r) ==
  /\ phase[r] = "begin"
  /\ phase' = [phase EXCEPT ![r] = "work"]
  /\ tx' = [tx EXCEPT ![Top(r)] = "invalid"]
  /\ UNCHANGED <<depth, ctxDone, work, result>>

----------------------------------------------------------------------------
(* The request's work and its context *)

\* The work returns; after a panic of a nested frame nothing else can happen.
WorkEnds(r, how) ==
  /\ phase[r] = "work"
  /\ phase' = [phase EXCEPT ![r] = "end"]
  /\ work' = [work EXCEPT ![Top(r)] = how]
  /\ UNCHANGED <<depth, ctxDone, tx, result>>

CtxDone(r) ==
  /\ r \notin ctxDone /\ phase[r] # "done"
  /\ ctxDone' = ctxDone \cup {r}
  /\ UNCHANGED <<phase, depth, work, tx, result>>

\* database/sql rolls a transaction back when the context it began with ends.
DriverRollback(f) ==
  /\ tx[f] = "open" /\ f[1] \in ctxDone
  /\ tx' = [tx EXCEPT ![f] = "rolledback"]
  /\ UNCHANGED <<phase, depth, ctxDone, work, result>>

----------------------------------------------------------------------------
(* The end function *)

\* What recover and the argument tell the end function.
SeesFailure(r) ==
  IF r \in Direct THEN work[Top(r)] = "panic" ELSE work[Top(r)] = "error"

RolledBack(s) == IF s = "open" THEN "rolledback" ELSE s

\* The frame is left.  A panic that was not recovered unwinds the frame below.
Leave(r, s, res) ==
  /\ tx' = [tx EXCEPT ![Top(r)] = s]
  /\ result' = [result EXCEPT ![Top(r)] = res]
  /\ depth' = [depth EXCEPT ![r] = @ - 1]
  /\ LET unwinds == work[Top(r)] = "panic" /\ r \notin Direct
     IN  IF depth[r] = 1
           THEN phase' = [phase EXCEPT ![r] = "done"] /\ UNCHANGED work
         ELSE IF unwinds
           THEN /\ phase' = [phase EXCEPT ![r] = "end"]
                /\ work' = [work EXCEPT ![<<r, 1>>] = "panic"]
           ELSE phase' = [phase EXCEPT ![r] = "work"] /\ UNCHANGED work
  /\ UNCHANGED ctxDone

EndWithRollback(r) ==
  /\ phase[r] = "end" /\ SeesFailure(r)
  /\ Leave(r, RolledBack(tx[Top(r)]), "err")

\* Mutant: the context is not looked at and a failed commit is not reported.
EndWithCommitOptimistic(r) ==
  /\ phase[r] = "end" /\ ~SeesFailure(r)
  /\ \E s \in {"committed", "rolledback"} :
       Leave(r, IF tx[Top(r)] = "open" THEN s ELSE tx[Top(r)], "nil")

EndWithCommit(r) ==
  /\ phase[r] = "end" /\ ~SeesFailure(r)
  /\ r \notin ctxDone /\ tx[Top(r)] = "open"
  /\ Leave(r, "committed", "nil")

\* Mutant: neither Commit nor the end function rolls back.
EndCommitFailsOpen(r) ==
  /\ phase[r] = "end" /\ ~SeesFailure(r)
  /\ Leave(r, tx[Top(r)], "err")

\* Commit finds the context done, the transaction invalid or already rolled
\* back, or the database refuses, and rolls back; the end function does so
\* once more.  A commit whose answer is lost has happened nevertheless.
EndCommitFails(r) ==
  /\ phase[r] = "end" /\ ~SeesFailure(r)
  /\ \E s \in {RolledBack(tx[Top(r)])} \cup
              (IF tx[Top(r)] = "open" /\ r \notin ctxDone THEN {"committed"} ELSE {}) :
       Leave(r, s, "err")

Next ==
  \/ \E r \in Req :
       \/ CallBegin(r) \/ BeginOk(r) \/ BeginErr(r) \/ CtxDone(r)
       \/ \E how \in {"ok", "error", "panic"} : WorkEnds(r, how)
       \/ EndWithRollback(r) \/ EndWithCommit(r) \/ EndCommitFails(r)
  \/ \E f \in Frame : DriverRollback(f)

Spec == Init /\ [][Next]_vars

\* Work ends and the end function runs; database/sql serves the requests that
\* wait for a connection in their order; a Begin whose context is done fails.
\* No context is assumed to end.
FairSpec ==
  /\ Spec
  /\ \A r \in Req :
       /\ WF_vars(\E how \in {"ok", "error", "panic"} : WorkEnds(r, how))
       /\ SF_vars(BeginOk(r)) /\ WF_vars(r \in ctxDone /\ BeginErr(r))
       /\ WF_vars(EndWithRollback(r)) /\ WF_vars(EndWithCommit(r) \/ EndCommitFails(r))

----------------------------------------------------------------------------
(* Properties *)

\* An end function that returns nil has committed: no caller takes a
\* transaction for done that a failed Begin, the end of its context or a
\* failed commit has undone.
NilMeansCommitted == \A f \in Frame : result[f] = "nil" => tx[f] = "committed"

\* A request that is over holds no connection of the pool: whichever way each
\* of its transactions ended, and whatever unwound or cut short the frame
\* below, none of them is left open.
NoConnectionLeaks == \A f \in Frame : phase[f[1]] = "done" => tx[f] # "open"

\* A request waits in Begin for ever only if requests with a transaction open
\* wait for a nested one: without nesting the pool cannot deadlock.
StuckOnlyByNesting ==
  \A r \in Req :
    phase[r] = "begin" ~>
      (phase[r] # "begin" \/ [](\E q \in Nests : phase[q] = "begin" /\ depth[q] = 2))
=============================================================================
