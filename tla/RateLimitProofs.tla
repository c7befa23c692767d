-------------------------- MODULE RateLimitProofs --------------------------
(***************************************************************************)
(* The multi-level limiter keeps its books, for any rules, requests and    *)
(* attributes, in memory and in Redis.                                     *)
(***************************************************************************)
EXTENDS RateLimit, SequenceTheorems, WellFoundedInduction, TLAPS

----------------------------------------------------------------------------
(* Rules and keys *)

\* A set of naturals that is not empty has a least element.
LEMMA LeastExists ==
  ASSUME NEW S \in SUBSET Nat, S # {}
  PROVE  \E x \in S : \A y \in S : x <= y
<1>1. PICK x \in S : \A y \in S : ~(<<y, x>> \in OpToRel(<, Nat))
  BY NatLessThanWellFounded, WFMin
<1>2. \A y \in S : ~(y < x)
  BY <1>1 DEF OpToRel
<1> QED
  BY <1>2

\* The search for a rule returns one of the list, or nothing.
LEMMA MatchingRuleType == \A r \in Req : MatchingRule(r) \in 0..Len(Rules)
<1> SUFFICES ASSUME NEW r \in Req PROVE MatchingRule(r) \in 0..Len(Rules)
  OBVIOUS
<1> DEFINE matching == {k \in 1..Len(Rules) : Matches(r, k)}
<1>0. Len(Rules) \in Nat
  BY RateLimitAssumption
<1>1. CASE matching = {}
  BY <1>0, <1>1 DEF MatchingRule
<1>2. CASE matching # {}
  <2>1. \E x \in matching : \A y \in matching : x <= y
    <3>1. matching \in SUBSET Nat
      BY <1>0
    <3> HIDE DEF matching
    <3> QED
      BY <1>2, <3>1, LeastExists
  <2>2. MatchingRule(r) \in matching
    BY <1>2, <2>1 DEF MatchingRule
  <2> QED
    BY <1>0, <2>2
<1> QED
  BY <1>1, <1>2

\* The levels of a limited request are a list, whose entries have capacities.
LEMMA LevelsType ==
  ASSUME NEW r \in Limited
  PROVE  Levels(r) \in Seq(Level) /\ Len(Levels(r)) \in Nat
<1>1. MatchingRule(r) \in 1..Len(Rules)
  BY MatchingRuleType, RateLimitAssumption DEF Limited
<1>2. Rules[MatchingRule(r)] \in [patterns : SUBSET STRING, levels : Seq(Level)]
  BY <1>1, RateLimitAssumption, ElementOfSeq
<1> QED
  BY <1>2 DEF Levels

\* Every bucket has a capacity, and the key of a request at one of its levels
\* is the key of a bucket.
LEMMA CapacityType ==
  ASSUME NEW key \in Keys
  PROVE  Capacity(key) \in Nat
<1>1. PICK r \in Limited : \E m \in 1..Len(Levels(r)) : key = KeyOf(r, m)
  BY DEF Keys
<1>2. PICK l \in 1..Len(Levels(r)) : key = KeyOf(r, l)
  BY <1>1
<1>3. key[1] = MatchingRule(r) /\ key[2] = l
  BY <1>2 DEF KeyOf
<1>4. Rules[key[1]].levels[key[2]] \in Level
  BY <1>3, LevelsType DEF Levels
<1> QED
  BY <1>4 DEF Capacity, Level

LEMMA KeyOfType ==
  ASSUME NEW r \in Limited, NEW l \in 1..Len(Levels(r))
  PROVE  KeyOf(r, l) \in Keys
BY DEF Keys

----------------------------------------------------------------------------
(* The invariant *)

\* The parts of TypeOK.
BoolOK == useRedis \in BOOLEAN /\ redisUp \in BOOLEAN

RequestOK ==
  /\ pc \in [Req -> {"idle", "check", "take", "allowed", "rejected"}]
  /\ lvl \in [Req -> Nat]
  /\ paid \in [Req -> SUBSET Nat] /\ open \in [Req -> SUBSET Nat]

BucketOK ==
  /\ limiters \in SUBSET Keys
  /\ tokens \in [Keys -> Nat]
  /\ refills \in [Keys -> 0..MaxRefills]
  /\ taken \in [Keys -> Nat]

\* A bucket is never over its capacity, and its tokens are accounted for; for
\* a key without a bucket, what was taken has been given back.
BucketInv ==
  /\ \A key \in limiters :
       /\ tokens[key] <= Capacity(key)
       /\ tokens[key] + taken[key] = Capacity(key) + refills[key]
  /\ \A key \in Keys \ limiters : taken[key] = refills[key]

\* A request has passed exactly the levels before the one it is at.
PassedInv == \A r \in Req : lvl[r] > 0 /\ paid[r] \cup open[r] = 1..(lvl[r] - 1)

\* Where Limit is: between the two halves of checkLevelWithMemory the bucket
\* exists and nothing removes it; a decision was made at the right level.
ControlInv ==
  \A r \in Req :
    /\ pc[r] \in {"check", "take", "rejected"} => r \in Limited
    /\ pc[r] = "idle" => lvl[r] = 1
    /\ pc[r] = "check" => lvl[r] <= Len(Levels(r)) + 1
    /\ pc[r] \in {"take", "rejected"} => lvl[r] <= Len(Levels(r))
    /\ pc[r] = "take" => ~useRedis /\ KeyOf(r, lvl[r]) \in limiters
    /\ pc[r] = "rejected" => taken[KeyOf(r, lvl[r])] >= Capacity(KeyOf(r, lvl[r]))
    /\ (pc[r] = "allowed" /\ r \in Limited) => lvl[r] = Len(Levels(r)) + 1

IInv == BoolOK /\ RequestOK /\ BucketOK /\ BucketInv /\ PassedInv /\ ControlInv

\* Nothing has been taken and no bucket exists.
LEMMA InitIInv == Init => IInv
<1> SUFFICES ASSUME Init PROVE IInv
  OBVIOUS
<1> USE RateLimitAssumption DEF Init
<1>1. BoolOK
  BY Zenon DEF BoolOK
<1>2. RequestOK
  BY DEF RequestOK
<1>3. BucketOK
  BY DEF BucketOK
<1>4. BucketInv
  BY DEF BucketInv
<1>5. PassedInv
  <2> SUFFICES ASSUME NEW r \in Req
               PROVE  lvl[r] > 0 /\ paid[r] \cup open[r] = 1..(lvl[r] - 1)
    BY DEF PassedInv
  <2>1. lvl[r] = 1 /\ paid[r] \cup open[r] = {}
    OBVIOUS
  <2> QED
    BY <2>1
<1>6. ControlInv
  BY DEF ControlInv
<1> QED
  BY <1>1, <1>2, <1>3, <1>4, <1>5, <1>6 DEF IInv

\* The backend does not change, and with it no capacity does.
LEMMA CapacityConstant ==
  ASSUME useRedis' = useRedis, NEW key
  PROVE  Capacity(key)' = Capacity(key)
BY DEF Capacity

\* The request is let in or all its levels have been passed.
LEMMA LimitIInv ==
  ASSUME IInv, NEW r \in Req, Limit(r) \/ Allow(r)
  PROVE  IInv'
<1> USE DEF Limit, Allow, buckets
<1>1. UNCHANGED <<useRedis, redisUp, lvl, limiters, tokens, refills, taken, paid, open>>
  OBVIOUS
<1>2. BoolOK'
  BY <1>1, Zenon DEF IInv, BoolOK
<1>3. RequestOK' /\ BucketOK'
  BY DEF IInv, RequestOK, BucketOK
<1>4. BucketInv' /\ PassedInv'
  BY <1>1, CapacityConstant DEF IInv, BucketInv, PassedInv
<1>5. ControlInv'
  <2>1. \A q \in Req : lvl[q] > 0 /\ lvl[q] \in Nat
    BY DEF IInv, PassedInv, RequestOK
  <2>2. \A q \in Limited : Len(Levels(q)) \in Nat
    BY LevelsType
  <2> QED
    BY <1>1, <2>1, <2>2, CapacityConstant DEF IInv, ControlInv, RequestOK
<1> QED
  BY <1>2, <1>3, <1>4, <1>5 DEF IInv

\* checkLevelWithMemory finds the bucket or makes a full one.
LEMMA FindBucketIInv ==
  ASSUME IInv, NEW r \in Req, FindBucket(r)
  PROVE  IInv'
<1> DEFINE key == KeyOf(r, lvl[r])
<1>1. r \in Limited /\ lvl[r] \in 1..Len(Levels(r))
  BY LevelsType DEF FindBucket, IInv, ControlInv, PassedInv, RequestOK
<1>2. key \in Keys /\ Capacity(key) \in Nat
  BY <1>1, KeyOfType, CapacityType
<1>3. /\ limiters' = limiters \cup {key}
      /\ tokens' = IF key \notin limiters THEN [tokens EXCEPT ![key] = Capacity(key)] ELSE tokens
      /\ pc' = [pc EXCEPT ![r] = "take"] /\ ~useRedis
      /\ UNCHANGED <<useRedis, redisUp, lvl, refills, taken, paid, open>>
  BY DEF FindBucket, Missing
<1> HIDE DEF key
<1>4. BoolOK'
  BY <1>3, Zenon DEF IInv, BoolOK
<1>5. RequestOK' /\ BucketOK'
  BY <1>2, <1>3 DEF IInv, RequestOK, BucketOK
<1>6. BucketInv'
  BY <1>2, <1>3, CapacityConstant, RateLimitAssumption DEF IInv, BucketInv, BucketOK
<1>7. PassedInv'
  BY <1>3 DEF IInv, PassedInv
<1>8. ControlInv'
  <2>1. key = KeyOf(r, lvl[r])
    BY DEF key
  <2> QED
    BY <1>1, <1>3, <2>1, CapacityConstant DEF IInv, ControlInv, RequestOK
<1> QED
  BY <1>4, <1>5, <1>6, <1>7, <1>8 DEF IInv

\* A token is taken from a bucket that holds some, or the request rejected.
\* In memory the bucket holds what it held; Redis makes a full one first.
LEMMA ChargeIInv ==
  ASSUME IInv, NEW r \in Limited, r \in Req, lvl[r] \in 1..Len(Levels(r)),
         NEW held, Charge(r, KeyOf(r, lvl[r]), held),
         held = IF KeyOf(r, lvl[r]) \in limiters THEN tokens[KeyOf(r, lvl[r])]
                                                 ELSE Capacity(KeyOf(r, lvl[r])),
         limiters' = limiters \cup {KeyOf(r, lvl[r])},
         UNCHANGED <<useRedis, redisUp, refills, open>>
  PROVE  IInv'
<1> DEFINE key == KeyOf(r, lvl[r])
<1>1. key \in Keys /\ Capacity(key) \in Nat
  BY KeyOfType, CapacityType
<1>2. held \in Nat /\ held <= Capacity(key) /\ held + taken[key] = Capacity(key) + refills[key]
  BY <1>1, RateLimitAssumption DEF IInv, BucketInv, BucketOK
<1>3. limiters' = limiters \cup {key}
  OBVIOUS
<1>4. Granted(r, key, held) \/ Rejected(r, key, held)
  BY DEF Charge
<1>5. BoolOK'
  BY Zenon DEF IInv, BoolOK
<1>6. \A q \in Limited : Len(Levels(q)) \in Nat
  BY LevelsType
<1>7. key = KeyOf(r, lvl[r])
  OBVIOUS
<1> HIDE DEF key
<1>8. CASE Granted(r, key, held)
  <2>1. /\ held > 0 /\ tokens' = [tokens EXCEPT ![key] = held - 1]
        /\ taken' = [taken EXCEPT ![key] = taken[key] + 1]
        /\ paid' = [paid EXCEPT ![r] = paid[r] \cup {lvl[r]}]
        /\ lvl' = [lvl EXCEPT ![r] = lvl[r] + 1]
        /\ pc' = [pc EXCEPT ![r] = "check"]
    BY <1>8 DEF Granted
  <2>2. taken[key] \in Nat /\ lvl[r] \in Nat /\ paid[r] \in SUBSET Nat
    BY <1>1 DEF IInv, RequestOK, BucketOK
  <2>3. /\ held - 1 \in Nat /\ taken[key] + 1 \in Nat /\ lvl[r] + 1 \in Nat
        /\ paid[r] \cup {lvl[r]} \in SUBSET Nat
    BY <1>2, <2>1, <2>2
  <2>4. RequestOK'
    BY <2>1, <2>3 DEF IInv, RequestOK
  <2>5. BucketOK'
    BY <1>1, <1>3, <2>1, <2>3 DEF IInv, BucketOK
  <2>6. /\ tokens'[key] = held - 1 /\ taken'[key] = taken[key] + 1
        /\ \A j \in Keys \ {key} : tokens'[j] = tokens[j] /\ taken'[j] = taken[j]
    BY <1>1, <2>1 DEF IInv, BucketOK
  <2>7. taken[key] \in Nat /\ refills[key] \in Nat
    BY <1>1, RateLimitAssumption DEF IInv, BucketOK
  <2>8. tokens'[key] <= Capacity(key) /\ tokens'[key] + taken'[key] = Capacity(key) + refills[key]
    BY <1>1, <1>2, <2>6, <2>7
  <2>9. BucketInv'
    BY <1>1, <1>3, <2>6, <2>8, CapacityConstant DEF IInv, BucketInv, BucketOK
  <2>10. PassedInv'
    <3>1. 1..(lvl[r] - 1) \cup {lvl[r]} = 1..(lvl[r] + 1 - 1)
      BY DEF IInv, RequestOK, PassedInv
    <3> QED
      BY <2>1, <3>1 DEF IInv, PassedInv, RequestOK
  <2>11. \A j \in Keys : taken'[j] >= taken[j] /\ taken'[j] \in Nat /\ taken[j] \in Nat
    <3> SUFFICES ASSUME NEW j \in Keys
                 PROVE  taken'[j] >= taken[j] /\ taken'[j] \in Nat /\ taken[j] \in Nat
      OBVIOUS
    <3>1. taken[j] \in Nat
      BY DEF IInv, BucketOK
    <3> QED
      BY <2>6, <3>1
  <2>12. \A q \in Req : pc[q] = "rejected" =>
          /\ KeyOf(q, lvl[q]) \in Keys
          /\ Capacity(KeyOf(q, lvl[q])) \in Nat
    BY <1>6, KeyOfType, CapacityType DEF IInv, ControlInv, PassedInv, RequestOK
  <2>13. ControlInv'
    <3> SUFFICES ASSUME NEW q \in Req PROVE ControlInv!(q)'
      BY DEF ControlInv
    <3>1. CASE q = r
      BY <1>6, <2>1, <3>1 DEF IInv, RequestOK
    <3>2. CASE q # r
      <4>1. pc'[q] = pc[q] /\ lvl'[q] = lvl[q]
        BY <2>1, <3>2 DEF IInv, RequestOK
      <4> QED
        BY <1>3, <2>11, <2>12, <4>1, CapacityConstant DEF IInv, ControlInv
    <3> QED
      BY <3>1, <3>2
  <2> QED
    BY <1>5, <2>4, <2>5, <2>9, <2>10, <2>13 DEF IInv
<1>9. CASE Rejected(r, key, held)
  <2>1. /\ held = 0 /\ tokens' = [tokens EXCEPT ![key] = held]
        /\ pc' = [pc EXCEPT ![r] = "rejected"]
        /\ UNCHANGED <<lvl, taken, paid>>
    BY <1>9 DEF Rejected
  <2>2. RequestOK' /\ BucketOK'
    BY <1>1, <1>2, <1>3, <2>1 DEF IInv, RequestOK, BucketOK
  <2>3. BucketInv'
    BY <1>1, <1>2, <1>3, <2>1, CapacityConstant, RateLimitAssumption DEF IInv, BucketInv, BucketOK
  <2>4. PassedInv'
    BY <2>1 DEF IInv, PassedInv
  <2>5. taken[key] >= Capacity(key)
    BY <1>1, <1>2, <2>1, RateLimitAssumption DEF IInv, BucketOK
  <2>6. ControlInv'
    BY <1>3, <1>6, <1>7, <2>1, <2>5, CapacityConstant DEF IInv, ControlInv, RequestOK
  <2> QED
    BY <1>5, <2>2, <2>3, <2>4, <2>6 DEF IInv
<1> QED
  BY <1>4, <1>8, <1>9

\* Take of the bucket that was found before, and Redis' atomic Allow.
LEMMA TakeIInv ==
  ASSUME IInv, NEW r \in Req, TakeToken(r) \/ CheckRedis(r)
  PROVE  IInv'
<1>1. r \in Limited /\ lvl[r] \in 1..Len(Levels(r))
  BY LevelsType DEF TakeToken, CheckRedis, IInv, ControlInv, PassedInv, RequestOK
<1>2. CASE TakeToken(r)
  <2>1. KeyOf(r, lvl[r]) \in limiters
    BY <1>2 DEF TakeToken, IInv, ControlInv
  <2>2. limiters' = limiters \cup {KeyOf(r, lvl[r])}
    BY <1>2, <2>1 DEF TakeToken
  <2>3. Charge(r, KeyOf(r, lvl[r]), tokens[KeyOf(r, lvl[r])]) /\ UNCHANGED <<useRedis, redisUp, refills, open>>
    BY <1>2 DEF TakeToken
  <2> QED
    BY <1>1, <2>1, <2>2, <2>3, ChargeIInv
<1>3. CASE CheckRedis(r)
  <2> DEFINE held == IF KeyOf(r, lvl[r]) \in limiters THEN tokens[KeyOf(r, lvl[r])]
                                                      ELSE Capacity(KeyOf(r, lvl[r]))
  <2>1. Charge(r, KeyOf(r, lvl[r]), held)
    <3>1. held = IF Missing(KeyOf(r, lvl[r])) THEN Capacity(KeyOf(r, lvl[r]))
                                              ELSE tokens[KeyOf(r, lvl[r])]
      BY DEF Missing
    <3> QED
      BY <1>3, <3>1 DEF CheckRedis
  <2>2. /\ limiters' = limiters \cup {KeyOf(r, lvl[r])}
        /\ UNCHANGED <<useRedis, redisUp, refills, open>>
    BY <1>3 DEF CheckRedis
  <2> QED
    BY <1>1, <2>1, <2>2, ChargeIInv
<1> QED
  BY <1>2, <1>3

\* The level is passed while Redis is down.
LEMMA FailOpenIInv ==
  ASSUME IInv, NEW r \in Req, FailOpen(r)
  PROVE  IInv'
<1>1. /\ pc[r] = "check" /\ lvl[r] <= Len(Levels(r)) /\ r \in Limited
      /\ lvl' = [lvl EXCEPT ![r] = lvl[r] + 1]
      /\ open' = [open EXCEPT ![r] = open[r] \cup {lvl[r]}]
      /\ UNCHANGED <<useRedis, redisUp, pc, limiters, tokens, refills, taken, paid>>
  BY DEF FailOpen, buckets, IInv, ControlInv
<1>2. lvl[r] \in Nat /\ open[r] \in SUBSET Nat /\ lvl[r] > 0
  BY DEF IInv, RequestOK, PassedInv
<1>3. lvl[r] + 1 \in Nat /\ open[r] \cup {lvl[r]} \in SUBSET Nat
  BY <1>2
<1>4. BoolOK'
  BY <1>1, Zenon DEF IInv, BoolOK
<1>5. RequestOK' /\ BucketOK'
  BY <1>1, <1>3 DEF IInv, RequestOK, BucketOK
<1>6. BucketInv'
  BY <1>1, CapacityConstant DEF IInv, BucketInv
<1>7. PassedInv'
  <2>1. 1..(lvl[r] - 1) \cup {lvl[r]} = 1..(lvl[r] + 1 - 1)
    BY <1>2
  <2> QED
    BY <1>1, <1>2, <2>1 DEF IInv, PassedInv, RequestOK
<1>8. ControlInv'
  <2> SUFFICES ASSUME NEW q \in Req PROVE ControlInv!(q)'
    BY DEF ControlInv
  <2>1. CASE q = r
    BY <1>1, <1>2, <2>1, LevelsType DEF IInv, RequestOK
  <2>2. CASE q # r
    BY <1>1, <2>2, CapacityConstant DEF IInv, ControlInv, RequestOK
  <2> QED
    BY <2>1, <2>2
<1> QED
  BY <1>4, <1>5, <1>6, <1>7, <1>8 DEF IInv

\* Time gives tokens back, and a reset all of them.
LEMMA GivenBackIInv ==
  ASSUME IInv, NEW key \in Keys, Refill(key) \/ ResetLevelRateLimit(key)
  PROVE  IInv'
<1>1. Capacity(key) \in Nat /\ tokens[key] \in Nat /\ refills[key] \in Nat /\ taken[key] \in Nat
  BY CapacityType, RateLimitAssumption DEF IInv, BucketOK
<1>2. /\ key \in limiters /\ UNCHANGED <<useRedis, redisUp, pc, lvl, taken, paid, open>>
      /\ tokens[key] <= Capacity(key)
      /\ tokens[key] + taken[key] = Capacity(key) + refills[key]
  BY DEF Refill, ResetLevelRateLimit, IInv, BucketInv
<1>3. BoolOK'
  BY <1>2, Zenon DEF IInv, BoolOK
<1>4. RequestOK' /\ PassedInv'
  BY <1>2 DEF IInv, RequestOK, PassedInv
<1>5. CASE Refill(key)
  <2>1. /\ tokens[key] < Capacity(key) /\ refills[key] < MaxRefills /\ limiters' = limiters
        /\ tokens' = [tokens EXCEPT ![key] = tokens[key] + 1]
        /\ refills' = [refills EXCEPT ![key] = refills[key] + 1]
    BY <1>5 DEF Refill
  <2>2. tokens[key] + 1 \in Nat /\ refills[key] + 1 \in 0..MaxRefills
    BY <1>1, <2>1, RateLimitAssumption
  <2>3. BucketOK'
    BY <1>2, <2>1, <2>2 DEF IInv, BucketOK
  <2>4. BucketInv'
    BY <1>1, <1>2, <2>1, CapacityConstant DEF IInv, BucketInv, BucketOK
  <2>5. ControlInv'
    BY <1>2, <2>1, CapacityConstant DEF IInv, ControlInv
  <2> QED
    BY <1>3, <1>4, <2>3, <2>4, <2>5 DEF IInv
<1>6. CASE ResetLevelRateLimit(key)
  <2>1. /\ useRedis /\ tokens' = tokens /\ limiters' = limiters \ {key}
        /\ refills[key] + (Capacity(key) - tokens[key]) <= MaxRefills
        /\ refills' = [refills EXCEPT ![key] = refills[key] + (Capacity(key) - tokens[key])]
    BY <1>6 DEF ResetLevelRateLimit
  <2>2. refills[key] + (Capacity(key) - tokens[key]) \in 0..MaxRefills
    BY <1>1, <1>2, <2>1, RateLimitAssumption
  <2>3. BucketOK'
    BY <1>2, <2>1, <2>2 DEF IInv, BucketOK
  <2>4. BucketInv'
    <3>1. refills'[key] = taken[key] /\ \A j \in Keys \ {key} : refills'[j] = refills[j]
      BY <1>1, <1>2, <2>1 DEF IInv, BucketOK
    <3> QED
      BY <1>2, <2>1, <3>1, CapacityConstant DEF IInv, BucketInv, BucketOK
  <2>5. ControlInv'
    BY <1>2, <2>1, CapacityConstant DEF IInv, ControlInv
  <2> QED
    BY <1>3, <1>4, <2>3, <2>4, <2>5 DEF IInv
<1> QED
  BY <1>5, <1>6

\* Redis comes and goes without losing its keys.
LEMMA StutterIInv ==
  ASSUME IInv, RedisFlips \/ UNCHANGED vars
  PROVE  IInv'
<1>1. UNCHANGED <<useRedis, pc, lvl, limiters, tokens, refills, taken, paid, open>>
  BY DEF RedisFlips, vars, buckets
<1>2. BoolOK'
  BY Zenon DEF RedisFlips, vars, IInv, BoolOK
<1>3. RequestOK' /\ BucketOK' /\ PassedInv'
  BY <1>1 DEF IInv, RequestOK, BucketOK, PassedInv
<1>4. BucketInv' /\ ControlInv'
  BY <1>1, CapacityConstant DEF IInv, BucketInv, ControlInv
<1> QED
  BY <1>2, <1>3, <1>4 DEF IInv

----------------------------------------------------------------------------

\* The invariant holds throughout every behaviour of the limiter.
THEOREM Invariance == Spec => []IInv
<1>1. IInv /\ [Next]_vars => IInv'
  BY LimitIInv, FindBucketIInv, TakeIInv, FailOpenIInv, GivenBackIInv, StutterIInv DEF Next
<1> QED
  BY <1>1, InitIInv, PTL DEF Spec

\* Every variable keeps its type; no bucket ever holds less than nothing.
THEOREM TypeCorrect == Spec => []TypeOK
<1>1. IInv => TypeOK
  BY DEF IInv, BoolOK, RequestOK, BucketOK, TypeOK
<1> QED
  BY <1>1, Invariance, PTL

\* Concurrent requests neither lose nor duplicate a token.
THEOREM ConservationCorrect == Spec => []TokensConserved
<1>1. IInv => TokensConserved
  BY DEF IInv, BucketInv, TokensConserved
<1> QED
  BY <1>1, Invariance, PTL

\* Nobody is allowed whom a level has not charged, Redis being up.
THEOREM AllowedCorrect == Spec => []AllowedIsPaid
<1>1. IInv => AllowedIsPaid
  <2> SUFFICES ASSUME IInv, NEW r \in Limited, pc[r] = "allowed"
               PROVE  paid[r] \cup open[r] = 1..Len(Levels(r))
    BY DEF AllowedIsPaid
  <2>1. r \in Req /\ Len(Levels(r)) \in Nat
    BY LevelsType DEF Limited
  <2>2. lvl[r] = Len(Levels(r)) + 1 /\ paid[r] \cup open[r] = 1..(lvl[r] - 1)
    BY <2>1 DEF IInv, ControlInv, PassedInv
  <2>3. lvl[r] - 1 = Len(Levels(r))
    BY <2>1, <2>2
  <2> QED
    BY <2>2, <2>3
<1> QED
  BY <1>1, Invariance, PTL

\* Nobody is rejected while the burst of the level is not used up.
THEOREM RejectedCorrect == Spec => []RejectedIsExhausted
<1>1. IInv => RejectedIsExhausted
  BY DEF IInv, ControlInv, PassedInv, RejectedIsExhausted, Limited
<1> QED
  BY <1>1, Invariance, PTL
=============================================================================
