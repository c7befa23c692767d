---------------------------- MODULE TokenBucket ----------------------------
(***************************************************************************)
(* ratelimit.TokenBucket (src/ratelimit/grpc.go): Take refills the bucket  *)
(* with the whole tokens of the time since the last refill, and forgets    *)
(* the fraction.  The rate is Num / Den tokens per tick of the clock.      *)
(*                                                                         *)
(* Two reference buckets run beside it, charged for the same grants: ideal *)
(* is refilled continuously at that rate, half at half of it.  Take holds  *)
(* the bucket's mutex from beginning to end, so it is one step.            *)
(***************************************************************************)
EXTENDS Integers

CONSTANTS
  Capacity,   \* BurstSize
  Num, Den,   \* the rate, MaxRequests / 60 tokens per second
  MaxTime     \* bound: ticks of the clock

ASSUME TokenBucketAssumption ==
  Capacity \in Nat /\ Num \in Nat /\ Den \in Nat \ {0} /\ MaxTime \in Nat

VARIABLES
  now, tokens, lastRefill,
  outcome,   \* what a Take at this instant returned last
  ideal,     \* the continuous bucket, in units of 1/Den tokens
  half       \* the one at half the rate, in units of 1/(2 Den) tokens

vars == <<now, tokens, lastRefill, outcome, ideal, half>>

Least(a, b) == IF a < b THEN a ELSE b

TypeOK ==
  /\ now \in 0..MaxTime
  /\ tokens \in 0..Capacity
  /\ lastRefill \in 0..now
  /\ outcome \in {"none", "allowed", "rejected"}
  /\ ideal \in Int
  /\ half \in Int

\* NewTokenBucket: the bucket is full.
Init ==
  /\ now = 0 /\ tokens = Capacity /\ lastRefill = 0 /\ outcome = "none"
  /\ ideal = Capacity * Den
  /\ half = 2 * (Capacity * Den)

Tick ==
  /\ now < MaxTime
  /\ now' = now + 1
  /\ ideal' = Least(Capacity * Den, ideal + Num)
  /\ half' = Least(2 * (Capacity * Den), half + Num)
  /\ outcome' = "none"
  /\ UNCHANGED <<tokens, lastRefill>>

\* Mutant: the number of tokens is rounded up.
TokensToAddUp == ((now - lastRefill) * Num + Den - 1) \div Den

\* int(elapsed * rate)
TokensToAdd == ((now - lastRefill) * Num) \div Den

\* The tokens in the bucket after the refill.
Refilled == IF TokensToAdd > 0 THEN Least(Capacity, tokens + TokensToAdd) ELSE tokens

\* Mutant: lastRefill moves even if no token was added.
LastRefillAlways == now

LastRefill == IF TokensToAdd > 0 THEN now ELSE lastRefill

Take ==
  /\ lastRefill' = LastRefill
  /\ IF Refilled > 0
       THEN /\ tokens' = Refilled - 1
            /\ outcome' = "allowed"
            /\ ideal' = ideal - Den
            /\ half' = half - 2 * Den
       ELSE /\ tokens' = Refilled
            /\ outcome' = "rejected"
            /\ UNCHANGED <<ideal, half>>
  /\ UNCHANGED now

Next == Tick \/ Take

Spec == Init /\ [][Next]_vars

----------------------------------------------------------------------------
(* Properties *)

\* Over no period does the bucket admit a whole request more than the
\* documented rate and burst allow: the continuous bucket is never a token
\* behind.  (It can be a fraction behind: the time a full bucket has waited
\* counts towards its next token.)
NeverOvergrants == ideal > -Den

\* The forgotten fractions cost at most half of the documented rate: what
\* Take rejects, a continuous bucket with half the rate would reject too.
HalfRateGuaranteed == outcome = "rejected" => half < 2 * Den
=============================================================================
