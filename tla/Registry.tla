------------------------------ MODULE Registry ------------------------------
(***************************************************************************)
(* The customer registry: the class Registry of src/src/register.ts and    *)
(* the lookahead window src/src/watcher.ts builds from it.                 *)
(*                                                                         *)
(* A registry is a partial function from payment codes to sender records,  *)
(* the Map of the code.  A record keeps the cursor nextIndex, the used     *)
(* indices above it and the time of the registration.  Everything here is  *)
(* a constant-level operator; the machines that own a registry are the     *)
(* modules that extend this one.                                           *)
(***************************************************************************)
EXTENDS Integers, FiniteSets, Functions

CONSTANTS
  Codes,        \* payment codes of the customers
  MaxSenders,   \* capacity of a registry (MAX_SENDERS, register.ts:161)
  Gap,          \* unused addresses watched per customer (DEFAULT_GAP)
  UnpaidTtl,    \* age at which an unpaid registration is stale
  MaxIndex,     \* bound: customers pay at indices 0..MaxIndex only
  MaxNow        \* bound: the clock runs over 0..MaxNow

ASSUME RegistryAssumption ==
  /\ IsFiniteSet(Codes)
  /\ MaxSenders \in Nat \ {0}
  /\ Gap \in Nat \ {0}
  /\ UnpaidTtl \in Nat
  /\ MaxIndex \in Nat
  /\ MaxNow \in Nat

Clock == 0 .. MaxNow
Index == 0 .. MaxIndex

SenderRecord == [nextIndex : 0 .. (MaxIndex + 1),
                 usedAhead : SUBSET Index,
                 firstSeen : Clock]

Registries == UNION {[D -> SenderRecord] : D \in SUBSET Codes}

EmptyRegistry == [c \in {} |-> 0]

\* The indices a record knows to be used: all below the cursor, and usedAhead.
KnownUsed(rec) == {i \in Index : i < rec.nextIndex \/ i \in rec.usedAhead}

Paid(rec) == rec.nextIndex # 0 \/ rec.usedAhead # {}

\* Mutant: an off-by-one in the capacity check.
IsOverfull(r) == Cardinality(DOMAIN r) > MaxSenders

IsFull(r) == Cardinality(DOMAIN r) >= MaxSenders

NewRecord(now) == [nextIndex |-> 0, usedAhead |-> {}, firstSeen |-> now]

\* Registry.add, of a code that is neither present nor one too many.
CanAdd(r, c) == c \notin DOMAIN r /\ ~IsFull(r)

Add(r, c, now) ==
  [d \in DOMAIN r \cup {c} |-> IF d = c THEN NewRecord(now) ELSE r[d]]

(***************************************************************************)
(* Registry.pruneUnpaid: what the registry KNOWS of payments, and the age  *)
(* of the registration, decide alone.                                      *)
(***************************************************************************)
\* Mutant: an off-by-one in the age.
StaleTooSoon(r, now) ==
  {c \in DOMAIN r : ~Paid(r[c]) /\ r[c].firstSeen <= now - UnpaidTtl}

\* Mutant: "paid" is read off the cursor alone.
StaleByCursor(r, now) ==
  {c \in DOMAIN r : r[c].nextIndex = 0 /\ r[c].firstSeen < now - UnpaidTtl}

\* Mutant: the TTL applies to everybody.
StaleByAge(r, now) == {c \in DOMAIN r : r[c].firstSeen < now - UnpaidTtl}

Stale(r, now) ==
  {c \in DOMAIN r : ~Paid(r[c]) /\ r[c].firstSeen < now - UnpaidTtl}

Prune(r, now) == Restrict(r, DOMAIN r \ Stale(r, now))

(***************************************************************************)
(* Registry.advance for each index of a set.  The cursor crosses the run   *)
(* of used indices that starts at it; what lies beyond a gap is kept in    *)
(* usedAhead.  Indices below the cursor are already accounted for.  The    *)
(* code advances one index at a time; RegistryCheck shows that every order *)
(* of those calls ends in the record given here.                           *)
(***************************************************************************)
Ahead(rec, used) == rec.usedAhead \cup {i \in used : i >= rec.nextIndex}

IsNextIndex(k, rec, used) ==
  k \notin Ahead(rec, used) /\ rec.nextIndex .. (k - 1) \subseteq Ahead(rec, used)

\* Mutant: the cursor leaps past the highest index seen.
AdvanceLeaping(rec, used) ==
  LET top == CHOOSE i \in Ahead(rec, used) \cup {rec.nextIndex - 1} :
               \A j \in Ahead(rec, used) \cup {rec.nextIndex - 1} : j <= i
  IN  [rec EXCEPT !.nextIndex = top + 1, !.usedAhead = {}]

\* Mutant: the cursor moves by one index only.
AdvanceOneStep(rec, used) ==
  LET next == IF rec.nextIndex \in used THEN rec.nextIndex + 1 ELSE rec.nextIndex
  IN  [rec EXCEPT !.nextIndex = next,
                  !.usedAhead = {i \in Ahead(rec, used) : i >= next}]

Advance(rec, used) ==
  LET next == CHOOSE k \in rec.nextIndex .. (MaxIndex + 1) : IsNextIndex(k, rec, used)
  IN  [rec EXCEPT !.nextIndex = next,
                  !.usedAhead = {i \in Ahead(rec, used) : i > next}]

\* Every credit of one scan, applied to whatever records still exist.
CreditAll(r, found) ==
  [c \in DOMAIN r |-> Advance(r[c], {i \in Index : <<c, i>> \in found})]

(***************************************************************************)
(* watchWindow: the first Gap indices at or above the cursor that are not  *)
(* known to be used.  At most MaxIndex + 1 indices are ever used, so the   *)
(* window never reaches beyond the Horizon.                                *)
(***************************************************************************)
Horizon == MaxIndex + Gap

Unused(rec, last) == {i \in rec.nextIndex .. last : i \notin rec.usedAhead}

\* Mutant: used indices above the cursor count against the gap.
WatchWindowShrinking(rec) == Unused(rec, rec.nextIndex + Gap - 1)

\* Mutant: used indices above the cursor are watched again.
WatchWindowRepeating(rec) == rec.nextIndex .. (rec.nextIndex + Gap - 1)

WatchWindow(rec) ==
  {i \in Unused(rec, Horizon) : Cardinality(Unused(rec, i)) <= Gap}

WatchList(r) == {w \in (DOMAIN r) \X (0 .. Horizon) : w[2] \in WatchWindow(r[w[1]])}
=============================================================================
