------------------------------- MODULE Bucket -------------------------------
(***************************************************************************)
(* The token bucket in front of the challenge and the callback routes      *)
(* (src/src/server.ts).  The clock is the wall's: it may stand still, jump *)
(* and step back between calls.  A token is TokenUnits units, so that a    *)
(* clock tick refills a whole number of them.                              *)
(***************************************************************************)
EXTENDS Integers

CONSTANTS
  Capacity,   \* the burst, in tokens
  Rate,       \* units refilled per tick
  TokenUnits, \* units in a token
  MaxTime,    \* bound: the latest time
  MaxCalls    \* bound: calls in a behaviour

ASSUME BucketAssumption ==
  /\ Capacity \in Nat /\ Rate \in Nat /\ TokenUnits \in Nat \ {0}
  /\ MaxTime \in Nat /\ MaxCalls \in Nat

VARIABLES
  tokens,    \* in units; below 0 after the clock has stepped back
  last,      \* the time of the last call
  calls,     \* bound
  since,     \* history: the time of a call chosen to count from
  reached,   \* history: the latest time of a call from there on
  granted    \* history: calls granted since

bucketVars == <<tokens, last, calls, since, reached, granted>>

BucketTypeOK ==
  /\ tokens \in Int /\ tokens <= Capacity * TokenUnits
  /\ last \in 0 .. MaxTime /\ since \in 0 .. MaxTime /\ reached \in 0 .. MaxTime
  /\ calls \in 0 .. MaxCalls /\ granted \in Nat

BucketInit ==
  /\ last \in 0 .. MaxTime
  /\ tokens = Capacity * TokenUnits
  /\ calls = 0 /\ since = last /\ reached = last /\ granted = 0

\* Mutant: the time of a refused call is not remembered.
FilledSinceGrant(t) == tokens + (t - since) * Rate

\* What the time since the last call adds.
Filled(t) == tokens + (t - last) * Rate

Capped(n) == IF n > Capacity * TokenUnits THEN Capacity * TokenUnits ELSE n

Call(t) ==
  /\ calls < MaxCalls /\ calls' = calls + 1
  /\ last' = t
  /\ reached' = IF t > reached THEN t ELSE reached
  /\ IF Capped(Filled(t)) < TokenUnits
     THEN tokens' = Capped(Filled(t)) /\ UNCHANGED granted
     ELSE tokens' = Capped(Filled(t)) - TokenUnits /\ granted' = granted + 1
  /\ UNCHANGED since

\* Counting starts anew, at any call.
CountFromHere ==
  /\ since' = last /\ reached' = last /\ granted' = 0
  /\ granted > 0
  /\ UNCHANGED <<tokens, last, calls>>

BucketNext == (\E t \in 0 .. MaxTime : Call(t)) \/ CountFromHere

BucketSpec == BucketInit /\ [][BucketNext]_bucketVars

\* server.ts:57-60: from any call on, no more calls are granted than the burst
\* and what is refilled up to the latest time of a call since, however the
\* clock has stepped back and forth in between.
GrantsBounded == granted * TokenUnits <= Capacity * TokenUnits + (reached - since) * Rate
=============================================================================
