---------------------------- MODULE BucketProofs ----------------------------
(***************************************************************************)
(* The bound of the token bucket, for every burst, rate and clock.         *)
(*                                                                         *)
(* What the counted calls have taken and what is left in the bucket never  *)
(* exceed the burst and what the clock has added since: the bucket is      *)
(* behind by what the clock stepped back, and a full bucket that throws a  *)
(* refill away only widens the margin.                                     *)
(***************************************************************************)
EXTENDS Bucket, TLAPS

\* What was granted since and what is left came out of the burst and the time.
Account ==
  granted * TokenUnits + tokens <= Capacity * TokenUnits + (last - since) * Rate

BucketInv ==
  /\ BucketTypeOK
  /\ last <= reached
  /\ Account
  /\ GrantsBounded

\* A new bucket is full and has granted nothing.
LEMMA BucketStarts == BucketInit => BucketInv
BY BucketAssumption DEF BucketInit, BucketInv, BucketTypeOK, Account, GrantsBounded

\* Refills over consecutive stretches of time add up.
LEMMA RefillsAddUp ==
  ASSUME NEW a \in Int, NEW b \in Int, NEW c \in Int
  PROVE  (b - a) * Rate + (c - b) * Rate = (c - a) * Rate
<1>1. Rate \in Int
  BY BucketAssumption
<1>2. QED BY <1>1

\* A later time refills no less.
LEMMA RefillGrows ==
  ASSUME NEW a \in Int, NEW b \in Int, NEW c \in Int, b <= c
  PROVE  (b - a) * Rate <= (c - a) * Rate
<1>1. (c - a) * Rate = (b - a) * Rate + (c - b) * Rate
  BY RefillsAddUp
<1>2. (c - b) * Rate \in Nat /\ (b - a) * Rate \in Int
  BY BucketAssumption
<1>3. QED BY <1>1, <1>2

\* A call keeps the account, granted or refused, at any time of the clock.
LEMMA CallKeeps ==
  ASSUME BucketInv, NEW t \in 0 .. MaxTime, Call(t)
  PROVE  BucketInv'
<1> DEFINE full == Capacity * TokenUnits
           before == (last - since) * Rate
           step == (t - last) * Rate
           after == (t - since) * Rate
           used == granted * TokenUnits
<1>1. /\ full \in Int /\ before \in Int /\ step \in Int /\ after \in Int /\ used \in Int
      /\ tokens \in Int /\ TokenUnits \in Nat /\ TokenUnits > 0 /\ granted \in Nat
      /\ last \in Int /\ since \in Int /\ reached \in Int /\ t \in Int /\ calls \in Nat
  BY BucketAssumption DEF BucketInv, BucketTypeOK
<1>2. before + step = after
  BY <1>1, RefillsAddUp
<1>3. used + tokens <= full + before
  BY DEF BucketInv, Account
<1>4. Capped(Filled(t)) \in Int /\ Capped(Filled(t)) <= tokens + step /\ Capped(Filled(t)) <= full
  BY <1>1 DEF Capped, Filled
<1>5. last' = t /\ t <= reached' /\ reached <= reached' /\ reached' \in 0 .. MaxTime /\ reached' \in Int /\ since' = since
      /\ calls' \in 0 .. MaxCalls
  BY <1>1, BucketAssumption DEF Call, BucketInv, BucketTypeOK
<1>6. CASE Capped(Filled(t)) < TokenUnits
  <2>1. tokens' = Capped(Filled(t)) /\ granted' = granted
    BY <1>6 DEF Call
  <2>2. Account'
    <3>1. used + tokens' <= full + after
      BY <1>1, <1>2, <1>3, <1>4, <2>1
    <3>2. QED BY <3>1, <2>1, <1>5 DEF Account
  <2>3. GrantsBounded'
    <3>1. (reached - since) * Rate <= (reached' - since) * Rate
      BY <1>1, <1>5, RefillGrows
    <3>2. used <= full + (reached - since) * Rate
      BY DEF BucketInv, GrantsBounded
    <3>3. (reached - since) * Rate \in Int /\ (reached' - since) * Rate \in Int
      BY <1>1, <1>5, BucketAssumption
    <3>4. used <= full + (reached' - since) * Rate
      BY <3>1, <3>2, <3>3, <1>1
    <3>5. QED BY <3>4, <2>1, <1>5 DEF GrantsBounded
  <2>4. QED BY <1>1, <1>4, <1>5, <2>1, <2>2, <2>3 DEF BucketInv, BucketTypeOK
<1>7. CASE ~(Capped(Filled(t)) < TokenUnits)
  <2>1. tokens' = Capped(Filled(t)) - TokenUnits /\ granted' = granted + 1
    BY <1>7 DEF Call
  <2>2. granted' * TokenUnits = used + TokenUnits
    BY <1>1, <2>1
  <2>3. used + TokenUnits + tokens' <= full + after
    BY <1>1, <1>2, <1>3, <1>4, <2>1
  <2>4. Account'
    BY <2>2, <2>3, <1>5 DEF Account
  <2>5. GrantsBounded'
    <3>1. after <= (reached' - since) * Rate
      BY <1>1, <1>5, RefillGrows
    <3>2. tokens' >= 0
      BY <1>1, <1>4, <1>7, <2>1
    <3>3. (reached' - since) * Rate \in Int
      BY <1>1, <1>5, BucketAssumption
    <3>4. tokens' \in Int
      BY <1>1, <1>4, <2>1
    <3>5. used + TokenUnits <= full + (reached' - since) * Rate
      BY <3>1, <3>2, <3>3, <3>4, <2>3, <1>1
    <3>6. QED BY <3>5, <2>2, <1>5 DEF GrantsBounded
  <2>6. QED BY <1>1, <1>4, <1>5, <2>1, <2>4, <2>5 DEF BucketInv, BucketTypeOK
<1>8. QED BY <1>6, <1>7

\* Counting anew starts from a bucket that holds no more than its burst.
LEMMA CountKeeps ==
  ASSUME BucketInv, CountFromHere
  PROVE  BucketInv'
<1>1. (last - last) * Rate = 0 /\ 0 * TokenUnits = 0 /\ Capacity * TokenUnits \in Nat
  BY BucketAssumption DEF BucketInv, BucketTypeOK
<1>2. since' = last /\ reached' = last /\ granted' = 0 /\ tokens' = tokens /\ last' = last /\ calls' = calls
  BY DEF CountFromHere
<1>3. Account' /\ GrantsBounded'
  BY <1>1, <1>2 DEF BucketInv, BucketTypeOK, Account, GrantsBounded
<1>4. QED BY <1>2, <1>3 DEF BucketInv, BucketTypeOK

\* However the clock jumps, a caller gets no more tokens out of the bucket than
\* the burst and the refill of the time that has passed.
THEOREM BucketHolds == BucketSpec => []GrantsBounded
<1>1. BucketInv /\ [BucketNext]_bucketVars => BucketInv'
  <2> SUFFICES ASSUME BucketInv, [BucketNext]_bucketVars PROVE BucketInv'
    OBVIOUS
  <2>1. CASE \E t \in 0 .. MaxTime : Call(t)
    BY <2>1, CallKeeps
  <2>2. CASE CountFromHere
    BY <2>2, CountKeeps
  <2>3. CASE UNCHANGED bucketVars
    BY <2>3 DEF bucketVars, BucketInv, BucketTypeOK, Account, GrantsBounded
  <2>4. QED BY <2>1, <2>2, <2>3 DEF BucketNext
<1>2. BucketInv => GrantsBounded
  BY DEF BucketInv
<1>3. QED BY <1>1, <1>2, BucketStarts, PTL DEF BucketSpec
=============================================================================
