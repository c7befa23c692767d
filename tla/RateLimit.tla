----------------------------- MODULE RateLimit -----------------------------
(***************************************************************************)
(* ratelimit.MultiLevelLimiter (src/ratelimit/multi.go): the first rule    *)
(* whose pattern the path contains, its levels checked one after the       *)
(* other, each against the bucket of the request's key, in memory or in    *)
(* Redis.  Requests run concurrently; time is the Refill of a bucket       *)
(* (TokenBucket has the arithmetic).                                       *)
(***************************************************************************)
EXTENDS Integers, Sequences

CONSTANTS
  Req,         \* the requests
  Rules,       \* config.Rules: a sequence of [patterns, levels]
  Path,        \* the patterns the path of each request contains
  Attrs,       \* the attributes of each request, "" where it has none
  NoAttrs,     \* the requests whose context carries no attributes
  MaxRefills   \* bound: tokens that time and resets give back to a bucket

\* RateLimitLevel, its BurstSize and MaxRequests being numbers of tokens.
Level == [attrs : Seq(STRING), burst : Nat, max : Nat]

ASSUME RateLimitAssumption ==
  /\ Rules \in Seq([patterns : SUBSET STRING, levels : Seq(Level)])
  /\ MaxRefills \in Nat

VARIABLES
  useRedis,   \* which backend the limiter was made with
  redisUp,    \* Redis answers
  pc,         \* where Limit is for each request
  lvl,        \* the level it checks
  limiters,   \* the keys that have a bucket
  tokens,     \* the tokens in each
  refills,    \* history: tokens given back to each
  taken,      \* history: tokens taken from each
  paid,       \* history: the levels that charged each request
  open        \* history: the levels each passed because Redis was down

vars == <<useRedis, redisUp, pc, lvl, limiters, tokens, refills, taken, paid, open>>

----------------------------------------------------------------------------
(* Rules and keys *)

Matches(r, k) == \E p \in Rules[k].patterns : p = "*" \/ p \in Path[r]

\* The index of the first rule with a pattern the path contains, 0 without one.
MatchingRule(r) ==
  LET matching == {k \in 1..Len(Rules) : Matches(r, k)}
  IN  IF matching = {} THEN 0 ELSE CHOOSE k \in matching : \A j \in matching : k <= j

Levels(r) == Rules[MatchingRule(r)].levels

\* generateLevelKey: attributes without a value are left out.
KeyOf(r, l) ==
  LET attrs  == Levels(r)[l].attrs
      values == [a \in 1..Len(attrs) |-> IF attrs[a] = "global" THEN "global" ELSE Attrs[r][attrs[a]]]
      parts  == SelectSeq(values, LAMBDA v : v # "")
  IN  <<MatchingRule(r), l, IF parts = << >> THEN <<"default">> ELSE parts>>

Limited == {r \in Req \ NoAttrs : MatchingRule(r) # 0}
Keys    == UNION {{KeyOf(r, l) : l \in 1..Len(Levels(r))} : r \in Limited}

\* What a new bucket holds: BurstSize in memory; in Redis the burst of
\* redis_rate.PerMinute(MaxRequests), which is MaxRequests.
Capacity(key) ==
  LET level == Rules[key[1]].levels[key[2]]
  IN  IF useRedis THEN level.max ELSE level.burst

TypeOK ==
  /\ useRedis \in BOOLEAN /\ redisUp \in BOOLEAN
  /\ pc \in [Req -> {"idle", "check", "take", "allowed", "rejected"}]
  /\ lvl \in [Req -> Nat]
  /\ limiters \in SUBSET Keys
  /\ tokens \in [Keys -> Nat]
  /\ refills \in [Keys -> 0..MaxRefills]
  /\ taken \in [Keys -> Nat]
  /\ paid \in [Req -> SUBSET Nat] /\ open \in [Req -> SUBSET Nat]

Init ==
  /\ useRedis \in BOOLEAN
  /\ redisUp = TRUE
  /\ pc = [r \in Req |-> "idle"]
  /\ lvl = [r \in Req |-> 1]
  /\ limiters = {}
  /\ tokens = [k \in Keys |-> 0]
  /\ refills = [k \in Keys |-> 0]
  /\ taken = [k \in Keys |-> 0]
  /\ paid = [r \in Req |-> {}]
  /\ open = [r \in Req |-> {}]

----------------------------------------------------------------------------
(* Limit *)

buckets == <<limiters, tokens, refills, taken>>

\* A request without attributes or without a rule is allowed.
Limit(r) ==
  /\ pc[r] = "idle"
  /\ pc' = [pc EXCEPT ![r] = IF r \in Limited THEN "check" ELSE "allowed"]
  /\ UNCHANGED <<useRedis, redisUp, lvl, buckets, paid, open>>

\* All levels have been passed.
Allow(r) ==
  /\ pc[r] = "check" /\ lvl[r] > Len(Levels(r))
  /\ pc' = [pc EXCEPT ![r] = "allowed"]
  /\ UNCHANGED <<useRedis, redisUp, lvl, buckets, paid, open>>

\* Mutant: the lookup is not made under the lock, and a bucket another
\* request has just made is replaced by a new one.
MissingAlways(key) == key = key

Missing(key) == key \notin limiters

\* checkLevelWithMemory up to the Unlock: the key's bucket is found or made.
FindBucket(r) ==
  /\ pc[r] = "check" /\ lvl[r] <= Len(Levels(r)) /\ ~useRedis
  /\ LET key == KeyOf(r, lvl[r])
     IN  /\ limiters' = limiters \cup {key}
         /\ tokens' = IF Missing(key) THEN [tokens EXCEPT ![key] = Capacity(key)] ELSE tokens
  /\ pc' = [pc EXCEPT ![r] = "take"]
  /\ UNCHANGED <<useRedis, redisUp, lvl, refills, taken, paid, open>>

\* Take finds a token: the next level is checked.
Granted(r, key, held) ==
  /\ held > 0
  /\ tokens' = [tokens EXCEPT ![key] = held - 1]
  /\ taken' = [taken EXCEPT ![key] = @ + 1]
  /\ paid' = [paid EXCEPT ![r] = @ \cup {lvl[r]}]
  /\ lvl' = [lvl EXCEPT ![r] = @ + 1]
  /\ pc' = [pc EXCEPT ![r] = "check"]

\* Mutant: a level that has no token leaves the decision to the next one.
RejectedGoesOn(r, key, held) ==
  /\ held = 0
  /\ tokens' = [tokens EXCEPT ![key] = held]
  /\ lvl' = [lvl EXCEPT ![r] = @ + 1]
  /\ pc' = [pc EXCEPT ![r] = "check"]
  /\ UNCHANGED <<taken, paid>>

\* Mutant: the last token of a bucket is never given out.
RejectedEarly(r, key, held) ==
  /\ held <= 1
  /\ tokens' = [tokens EXCEPT ![key] = held]
  /\ pc' = [pc EXCEPT ![r] = "rejected"]
  /\ UNCHANGED <<lvl, taken, paid>>

\* It does not: the request is rejected, and what the levels before this one
\* have charged is not given back.
Rejected(r, key, held) ==
  /\ held = 0
  /\ tokens' = [tokens EXCEPT ![key] = held]
  /\ pc' = [pc EXCEPT ![r] = "rejected"]
  /\ UNCHANGED <<lvl, taken, paid>>

Charge(r, key, held) == Granted(r, key, held) \/ Rejected(r, key, held)

TakeToken(r) ==
  /\ pc[r] = "take"
  /\ LET key == KeyOf(r, lvl[r]) IN Charge(r, key, tokens[key])
  /\ UNCHANGED <<useRedis, redisUp, limiters, refills, open>>

\* checkLevelWithRedis: Allow is atomic in Redis; a key it does not know is full.
CheckRedis(r) ==
  /\ pc[r] = "check" /\ lvl[r] <= Len(Levels(r)) /\ useRedis /\ redisUp
  /\ LET key == KeyOf(r, lvl[r])
     IN  /\ limiters' = limiters \cup {key}
         /\ Charge(r, key, IF Missing(key) THEN Capacity(key) ELSE tokens[key])
  /\ UNCHANGED <<useRedis, redisUp, refills, open>>

\* The level is passed when Redis does not answer.
FailOpen(r) ==
  /\ pc[r] = "check" /\ lvl[r] <= Len(Levels(r)) /\ useRedis /\ ~redisUp
  /\ lvl' = [lvl EXCEPT ![r] = @ + 1]
  /\ open' = [open EXCEPT ![r] = @ \cup {lvl[r]}]
  /\ UNCHANGED <<useRedis, redisUp, pc, buckets, paid>>

\* ResetLevelRateLimit deletes a key of Redis: its bucket is full again.
ResetLevelRateLimit(key) ==
  /\ useRedis /\ redisUp /\ key \in limiters
  /\ LET given == Capacity(key) - tokens[key]
     IN  /\ refills[key] + given <= MaxRefills
         /\ refills' = [refills EXCEPT ![key] = @ + given]
  /\ limiters' = limiters \ {key}
  /\ UNCHANGED <<useRedis, redisUp, pc, lvl, tokens, taken, paid, open>>

----------------------------------------------------------------------------
(* The environment *)

\* Time adds a token, up to the capacity.
Refill(key) ==
  /\ key \in limiters /\ refills[key] < MaxRefills /\ tokens[key] < Capacity(key)
  /\ tokens' = [tokens EXCEPT ![key] = @ + 1]
  /\ refills' = [refills EXCEPT ![key] = @ + 1]
  /\ UNCHANGED <<useRedis, redisUp, pc, lvl, limiters, taken, paid, open>>

RedisFlips ==
  /\ useRedis
  /\ redisUp' = ~redisUp
  /\ UNCHANGED <<useRedis, pc, lvl, buckets, paid, open>>

Next ==
  \/ \E r \in Req : \/ Limit(r) \/ Allow(r) \/ FindBucket(r) \/ TakeToken(r)
                    \/ CheckRedis(r) \/ FailOpen(r)
  \/ \E key \in Keys : Refill(key) \/ ResetLevelRateLimit(key)
  \/ RedisFlips

Spec == Init /\ [][Next]_vars

----------------------------------------------------------------------------
(* Properties *)

\* Concurrent requests neither lose nor duplicate a token: what has been taken
\* with a key and what its bucket holds add up to its capacity and what time
\* and resets gave back.
TokensConserved ==
  \A key \in limiters : tokens[key] + taken[key] = Capacity(key) + refills[key]

\* A request is allowed only when every level of its rule has charged it a
\* token, the levels it passed while Redis was down excepted.
AllowedIsPaid ==
  \A r \in Limited : pc[r] = "allowed" => paid[r] \cup open[r] = 1..Len(Levels(r))

\* A request is rejected only if requests with the same key used the whole
\* burst of that level up, and exactly the levels before it have charged it.
RejectedIsExhausted ==
  \A r \in Limited : pc[r] = "rejected" =>
    /\ taken[KeyOf(r, lvl[r])] >= Capacity(KeyOf(r, lvl[r]))
    /\ paid[r] \cup open[r] = 1..(lvl[r] - 1)
=============================================================================
