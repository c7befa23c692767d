------------------------- MODULE TokenBucketProofs -------------------------
(***************************************************************************)
(* For every capacity and every rate the bucket stays between the two      *)
(* reference buckets: at most a fraction of a token ahead of the           *)
(* documented rate, and never behind half of it.                           *)
(***************************************************************************)
EXTENDS TokenBucket, TLAPS

\* The tokens the time since the last refill is worth, in units of 1/Den.
Pending == (now - lastRefill) * Num

\* The continuous bucket holds what this one holds and has pending, less a
\* fraction of a token, or is full.
IdealInv == Least(Capacity * Den, tokens * Den + Pending - Den + 1) <= ideal

\* The bucket at half the rate holds no more than this one, each pending
\* 1/Den being worth a 1/(2 Den) to it.
HalfInv == half <= 2 * (Capacity * Den) /\ half <= 2 * (tokens * Den) + Pending

IInv == TypeOK /\ IdealInv /\ HalfInv /\ HalfRateGuaranteed

----------------------------------------------------------------------------

\* What integer division returns.
LEMMA DivisionBounds ==
  ASSUME NEW a \in Nat, NEW b \in Nat \ {0}
  PROVE  /\ a \div b \in Nat
         /\ (a \div b) * b <= a
         /\ a < (a \div b) * b + b
  OBVIOUS

\* Multiplication by a natural number is monotonic.
LEMMA ProductMonotonic ==
  ASSUME NEW a \in Int, NEW b \in Int, NEW m \in Nat, a <= b
  PROVE  a * m <= b * m
  OBVIOUS

\* A product of naturals is a natural.
LEMMA ProductNat == ASSUME NEW a \in Nat, NEW b \in Nat PROVE a * b \in Nat
  OBVIOUS

\* A new bucket is full, and so are the reference buckets.
LEMMA InitInv == Init => IInv
<1> SUFFICES ASSUME Init PROVE IInv
  OBVIOUS
<1>1. Capacity * Den \in Nat
  BY TokenBucketAssumption, ProductNat
<1>2. Pending = 0
  BY TokenBucketAssumption DEF Init, Pending
<1> QED
  BY <1>1, <1>2, TokenBucketAssumption
  DEF Init, IInv, TypeOK, IdealInv, HalfInv, HalfRateGuaranteed, Least

\* Time and Take keep the bucket between the reference buckets.
LEMMA NextInv == IInv /\ [Next]_vars => IInv'
<1> SUFFICES ASSUME IInv, [Next]_vars PROVE IInv'
  OBVIOUS
<1> USE TokenBucketAssumption DEF TypeOK
<1> DEFINE C == Capacity * Den
           T == tokens * Den
           q == TokensToAdd
<1>1. C \in Nat /\ T \in Nat /\ T <= C
  BY ProductNat, ProductMonotonic DEF IInv
<1>2. Pending \in Nat
  BY ProductNat DEF IInv, Pending
<1>3. q \in Nat /\ q * Den <= Pending /\ Pending < q * Den + Den
  BY <1>2, DivisionBounds DEF TokensToAdd, Pending
<1>i. T + Pending - Den + 1 <= ideal \/ C <= ideal
  BY <1>1, <1>2 DEF IInv, IdealInv, Least
<1>h. half <= 2 * C /\ half <= 2 * T + Pending
  BY DEF IInv, HalfInv
<1>4. CASE Tick
  <2>1. Pending' = Pending + Num
    BY <1>4 DEF Tick, Pending, IInv
  <2> QED
    BY <1>1, <1>2, <1>4, <2>1
    DEF Tick, IInv, IdealInv, HalfInv, HalfRateGuaranteed, Least
<1>5. CASE Take
  <2> DEFINE R == Refilled
             S == Refilled * Den
  <2>0. PICK P \in Int : P = (now' - lastRefill') * Num
    <3>1. now' \in Int /\ lastRefill' \in Int
      BY <1>5 DEF Take, LastRefill, IInv
    <3>2. (now' - lastRefill') * Num \in Int
      BY <3>1
    <3> QED
      BY <3>2, Zenon
  \* The refill keeps both invariants, read of its result.
  <2>1. /\ R \in 0..Capacity
        /\ S \in Nat /\ S <= C
        /\ P \in Nat
        /\ S + P <= T + Pending
        /\ P < Den
        /\ half <= 2 * S + P
    <3>1. CASE q > 0
      <4>1. R \in 0..Capacity /\ R <= tokens + q /\ (R = tokens + q \/ R = Capacity)
        BY <1>3, <3>1 DEF Refilled, Least, IInv
      <4>2. S \in Nat /\ S <= C /\ S <= (tokens + q) * Den
        BY <1>3, <4>1, ProductNat, ProductMonotonic DEF IInv
      <4>3. (tokens + q) * Den = T + q * Den
        BY <1>3 DEF IInv
      <4>4. P = 0
        BY <1>5, <2>0, <3>1 DEF Take, Pending, LastRefill, IInv
      <4>5. Den <= q * Den
        BY <1>3, <3>1, ProductMonotonic, 1 * Den = Den
      <4>6. half <= 2 * S
        <5>1. CASE R = Capacity
          BY <5>1 DEF IInv, HalfInv
        <5>2. CASE R = tokens + q
          BY <1>1, <1>2, <1>3, <4>2, <4>3, <4>5, <5>2 DEF IInv, HalfInv
        <5> QED
          BY <4>1, <5>1, <5>2
      <4> QED
        BY <1>1, <1>2, <1>3, <4>1, <4>2, <4>3, <4>4, <4>6 DEF IInv
    <3>2. CASE q = 0
      <4>1. R = tokens /\ P = Pending
        BY <1>5, <2>0, <3>2 DEF Refilled, Take, Pending, LastRefill, IInv
      <4> QED
        BY <1>1, <1>2, <1>3, <3>2, <4>1 DEF IInv, HalfInv
    <3> QED
      BY <1>3, <3>1, <3>2
  <2>2. S - Den + 1 + P <= ideal
    <3> HIDE DEF C, T, S, R
    <3> QED
      BY <1>1, <1>2, <1>i, <2>1 DEF IInv
  <2>3. CASE R > 0
    <3>1. tokens' = R - 1 /\ tokens' * Den = S - Den
      BY <1>5, <2>1, <2>3 DEF Take
    <3>2. ideal' = ideal - Den /\ half' = half - 2 * Den /\ outcome' = "allowed"
      BY <1>5, <2>3 DEF Take
    <3>3. TypeOK'
      BY <1>5, <2>1, <3>1, <3>2 DEF Take, LastRefill, IInv
    <3>4. /\ S - Den + P - Den + 1 <= ideal'
          /\ half' <= 2 * C /\ half' <= 2 * (S - Den) + P
      <4> HIDE DEF C, S, R
      <4> QED
        BY <1>1, <1>h, <2>1, <2>2, <3>2 DEF IInv
    <3>5. IdealInv'
      BY <1>1, <2>0, <2>1, <3>1, <3>2, <3>4 DEF IInv, IdealInv, Least, Pending
    <3>6. HalfInv'
      BY <2>0, <3>1, <3>4 DEF HalfInv, Pending
    <3> QED
      BY <3>2, <3>3, <3>5, <3>6 DEF IInv, HalfRateGuaranteed
  <2>4. CASE R = 0
    <3>1. tokens' = 0 /\ S = 0 /\ ideal' = ideal /\ half' = half /\ outcome' = "rejected"
      BY <1>5, <2>4 DEF Take
    <3>2. TypeOK'
      BY <1>5, <2>1, <3>1 DEF Take, LastRefill, IInv
    <3>3. tokens' * Den = 0
      BY <3>1
    <3>4. IdealInv'
      BY <1>1, <2>0, <2>1, <2>2, <3>1, <3>3 DEF IInv, IdealInv, Least, Pending
    <3>5. HalfInv'
      BY <1>1, <1>h, <2>0, <2>1, <3>1, <3>3 DEF IInv, HalfInv, Pending
    <3>6. HalfRateGuaranteed'
      <4> HIDE DEF S, R
      <4> QED
        BY <2>1, <3>1 DEF IInv, HalfRateGuaranteed
    <3> QED
      BY <3>2, <3>4, <3>5, <3>6 DEF IInv
  <2> QED
    BY <2>1, <2>3, <2>4
<1>6. CASE UNCHANGED vars
  BY <1>6 DEF vars, IInv, IdealInv, HalfInv, HalfRateGuaranteed, Pending, Least
<1> QED
  BY <1>4, <1>5, <1>6 DEF Next

\* The bucket stays between the reference buckets at all times.
THEOREM Invariance == Spec => []IInv
  BY InitInv, NextInv, PTL DEF Spec

\* The bucket holds between no token and its capacity, and its last refill
\* is never in the future.
THEOREM TypeCorrect == Spec => []TypeOK
<1>1. IInv => TypeOK
  BY DEF IInv
<1> QED
  BY <1>1, Invariance, PTL

\* For every burst size and rate, Take never admits a whole request more than
\* the documented rate allows.
THEOREM OvergrantBound == Spec => []NeverOvergrants
<1>1. IInv => NeverOvergrants
  <2> SUFFICES ASSUME IInv PROVE NeverOvergrants
    OBVIOUS
  <2>1. Capacity * Den \in Nat /\ tokens * Den \in Nat /\ Pending \in Nat
    BY TokenBucketAssumption, ProductNat DEF IInv, TypeOK, Pending
  <2> QED
    BY <2>1, TokenBucketAssumption
    DEF IInv, TypeOK, IdealInv, NeverOvergrants, Least
<1> QED
  BY <1>1, Invariance, PTL

\* For every burst size and rate, Take rejects only what a bucket with half
\* the documented rate rejects too.
THEOREM HalfRate == Spec => []HalfRateGuaranteed
<1>1. IInv => HalfRateGuaranteed
  BY DEF IInv
<1> QED
  BY <1>1, Invariance, PTL
=============================================================================
