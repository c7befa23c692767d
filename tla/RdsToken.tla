------------------------------ MODULE RdsToken ------------------------------
(***************************************************************************)
(* db.Driver with IAM authentication (src/db/rds_mysql_driver.go): the TLS *)
(* set-up, the goroutine that builds a new token every ten minutes and     *)
(* tries up to Retries times more when that fails, and Open, which uses    *)
(* the token there is.  One tick of the clock is ten seconds, the pause    *)
(* between two builds; Period is sixty of them and Validity, which AWS     *)
(* sets, ninety.  Signing is cut off after a tick but loading the default  *)
(* configuration before it has no limit: BuildTime is what both may take.  *)
(***************************************************************************)
EXTENDS Integers

CONSTANTS
  Period,     \* the sleep between two rotations
  Retries,    \* numRetries
  BuildTime,  \* the longest a buildToken takes
  Validity,   \* how long AWS accepts a token
  Cap         \* bound: the ages and times beyond it are not told apart

ASSUME RdsTokenAssumption ==
  /\ Period \in Nat \ {0} /\ Retries \in Nat /\ BuildTime \in Nat \ {0}
  /\ Validity \in Nat /\ Cap \in Nat
  /\ Period + (BuildTime + 1) * Retries + BuildTime <= Validity
  /\ Validity < Cap

VARIABLES
  pc,      \* where NewDriver and then the rotation goroutine is
  opens,   \* NewDriver has returned the driver: Open can be called
  left,    \* retries left in this series of builds
  t,       \* ticks since pc was entered
  age,     \* ticks since the token was built, -1 without one
  up,      \* ticks since AWS began to answer, -1 while it does not
  failed,  \* history: a whole series has failed since the token was built
  conn     \* what the last Open presented

tokenVars == <<pc, opens, left, t, age, up, failed, conn>>

TokenTypeOK ==
  /\ pc \in {"new", "refused", "build", "delay", "sleep"}
  /\ opens \in BOOLEAN /\ failed \in BOOLEAN
  /\ left \in 0..Retries
  /\ t \in 0..(Period + BuildTime)
  /\ age \in -1..Cap /\ up \in -1..Cap
  /\ conn \in {"none", "refused", "noToken", "expired", "valid"}

TokenInit ==
  /\ pc = "new" /\ opens = FALSE /\ left = 0 /\ t = 0
  /\ age = -1 /\ up = 0 /\ failed = FALSE /\ conn = "none"

----------------------------------------------------------------------------
(* The clock and AWS *)

Later(x) == IF x >= 0 /\ x < Cap THEN x + 1 ELSE x

\* How long the driver stays where it is.
Limit ==
  CASE pc = "sleep" -> Period
    [] pc = "build" -> BuildTime
    [] OTHER        -> 1

Tick ==
  /\ pc \in {"refused", "new"} \/ t < Limit
  /\ t' = IF pc \in {"refused", "new"} THEN t ELSE t + 1
  /\ age' = Later(age) /\ up' = Later(up)
  /\ UNCHANGED <<pc, opens, left, failed, conn>>

AwsFlips ==
  /\ up' = IF up >= 0 THEN -1 ELSE 0
  /\ UNCHANGED <<pc, opens, left, t, age, failed, conn>>

----------------------------------------------------------------------------
(* NewDriver *)

Series(p) == pc' = "build" /\ t' = 0 /\ left' = p

\* The TLS configuration is registered and the first token is built before
\* NewDriver returns.
NewDriver ==
  /\ pc = "new"
  /\ Series(Retries)
  /\ UNCHANGED <<opens, age, up, failed, conn>>

\* It could not be: Open returns that error from now on, and so do the
\* drivers made later, because RegisterTLS is not tried again.
NewDriverRefused ==
  /\ pc = "new"
  /\ pc' = "refused" /\ opens' = TRUE
  /\ UNCHANGED <<left, t, age, up, failed, conn>>

----------------------------------------------------------------------------
(* buildTokenWithRetry and the rotation goroutine *)

Sleep == pc' = "sleep" /\ t' = 0 /\ opens' = TRUE

\* Mutant: the new token is not stored.
BuildKeepsOld ==
  /\ pc = "build" /\ up >= 0
  /\ failed' = FALSE
  /\ Sleep
  /\ UNCHANGED <<age, left, up, conn>>

BuildOk ==
  /\ pc = "build" /\ up >= 0
  /\ age' = 0 /\ failed' = FALSE
  /\ Sleep
  /\ UNCHANGED <<left, up, conn>>

\* A build that AWS has not answered from its beginning on may fail.
Unanswered == up < t

\* Mutant: the retries are not counted.
BuildFailsUncounted ==
  /\ pc = "build" /\ Unanswered /\ left > 0
  /\ pc' = "delay" /\ t' = 0
  /\ UNCHANGED <<left, opens, age, up, failed, conn>>

BuildFails ==
  /\ pc = "build" /\ Unanswered /\ left > 0
  /\ pc' = "delay" /\ t' = 0 /\ left' = left - 1
  /\ UNCHANGED <<opens, age, up, failed, conn>>

\* The last retry has failed: the error is printed and the rotation goes on
\* after the usual ten minutes.
SeriesFails ==
  /\ pc = "build" /\ Unanswered /\ left = 0
  /\ failed' = TRUE
  /\ Sleep
  /\ UNCHANGED <<left, age, up, conn>>

Retry ==
  /\ pc = "delay" /\ t = 1
  /\ Series(left)
  /\ UNCHANGED <<opens, age, up, failed, conn>>

Rotate ==
  /\ pc = "sleep" /\ t = Period
  /\ Series(Retries)
  /\ UNCHANGED <<opens, age, up, failed, conn>>

----------------------------------------------------------------------------
(* Open *)

Open ==
  /\ opens
  /\ conn' = CASE pc = "refused"  -> "refused"
               [] age = -1        -> "noToken"
               [] age > Validity  -> "expired"
               [] OTHER           -> "valid"
  /\ UNCHANGED <<pc, opens, left, t, age, up, failed>>

TokenNext ==
  \/ Tick \/ AwsFlips \/ NewDriver \/ NewDriverRefused
  \/ BuildOk \/ BuildFails \/ SeriesFails \/ Retry \/ Rotate \/ Open

TokenSpec == TokenInit /\ [][TokenNext]_tokenVars

----------------------------------------------------------------------------
(* Properties *)

\* Ten minutes, the builds and their pauses fit into the fifteen minutes a
\* token is valid, if no build takes longer than BuildTime: unless every build
\* of a series failed, the token that Open presents has not expired and
\* NewDriver returned with one.
FreshUnlessSeriesFailed ==
  (opens /\ pc # "refused" /\ ~failed) => age \in 0..Validity

\* After an outage of AWS, whatever it has made fail, the driver has a token
\* that was built since as soon as AWS has answered for one period and two
\* builds, the first of which began before AWS answered and failed: a failed
\* series delays the renewal and never ends it.
RenewedAfterOutage ==
  (opens /\ pc # "refused" /\ up > Period + 2 * BuildTime) => age \in 0..up
=============================================================================
