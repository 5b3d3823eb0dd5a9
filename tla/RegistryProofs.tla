--------------------------- MODULE RegistryProofs ---------------------------
(***************************************************************************)
(* Lemmas about the operators of Registry, for every capacity, gap, TTL    *)
(* and every set of codes.                                                 *)
(***************************************************************************)
EXTENDS Registry, FiniteSetTheorems, WellFoundedInduction, TLAPS

\* What the fields of a record are.
LEMMA RecordFields ==
  ASSUME NEW rec \in SenderRecord
  PROVE  /\ rec.nextIndex \in Nat /\ rec.nextIndex <= MaxIndex + 1
         /\ rec.usedAhead \subseteq Index
         /\ rec.firstSeen \in Clock
  BY RegistryAssumption DEF SenderRecord

\* A record is paid exactly when some index is known to be used.
LEMMA PaidIsKnown ==
  ASSUME NEW rec \in SenderRecord
  PROVE  Paid(rec) <=> KnownUsed(rec) # {}
<1>1. 0 \in Index
  BY RegistryAssumption DEF Index
<1>2. rec.nextIndex \in Nat /\ rec.usedAhead \subseteq Index
  BY RecordFields
<1>3. ASSUME Paid(rec) PROVE KnownUsed(rec) # {}
  <2>1. CASE rec.nextIndex # 0
    <3>1. 0 \in KnownUsed(rec)
      BY <1>1, <1>2, <2>1 DEF KnownUsed
    <3>2. QED BY <3>1
  <2>2. CASE rec.usedAhead # {}
    BY <1>2, <2>2 DEF KnownUsed
  <2>3. QED BY <1>3, <2>1, <2>2 DEF Paid
<1>4. ASSUME KnownUsed(rec) # {} PROVE Paid(rec)
  BY <1>2, <1>4 DEF KnownUsed, Paid, Index
<1>5. QED BY <1>3, <1>4

\* Every nonempty set of naturals has a least element.
LEMMA LeastElement ==
  ASSUME NEW T, T \subseteq Nat, T # {}
  PROVE  \E x \in T : \A y \in T : x <= y
<1>1. IsWellFoundedOn(OpToRel(<, Nat), Nat)
  BY NatLessThanWellFounded
<1>2. PICK x \in T : \A y \in T : ~(<<y, x>> \in OpToRel(<, Nat))
  BY <1>1, WFMin
<1>3. \A y \in T : ~(y < x)
  BY <1>2 DEF OpToRel
<1>4. QED BY <1>3

\* The scan for the next cursor always ends: MaxIndex + 1 is never used.
LEMMA NextIndexExists ==
  ASSUME NEW rec \in SenderRecord, NEW used \in SUBSET Index
  PROVE  \E k \in rec.nextIndex .. (MaxIndex + 1) : IsNextIndex(k, rec, used)
<1> DEFINE T == {k \in rec.nextIndex .. (MaxIndex + 1) : k \notin Ahead(rec, used)}
<1>1. rec.nextIndex \in Nat /\ rec.nextIndex <= MaxIndex + 1 /\ rec.usedAhead \subseteq Index
  BY RecordFields
<1>2. MaxIndex \in Nat
  BY RegistryAssumption
<1>3. MaxIndex + 1 \in T
  BY <1>1, <1>2 DEF Ahead, Index
<1>4. T \subseteq Nat
  BY <1>1, <1>2
<1> HIDE DEF T
<1>5. PICK k \in T : \A j \in T : k <= j
  BY <1>3, <1>4, LeastElement
<1>6. k \in rec.nextIndex .. (MaxIndex + 1) /\ k \notin Ahead(rec, used)
  BY <1>5 DEF T
<1>7. ASSUME NEW j \in rec.nextIndex .. (k - 1) PROVE j \in Ahead(rec, used)
  <2>1. j \in rec.nextIndex .. (MaxIndex + 1) /\ ~(k <= j)
    BY <1>1, <1>2, <1>6
  <2>2. QED BY <2>1, <1>5 DEF T
<1>8. QED BY <1>6, <1>7 DEF IsNextIndex

\* Registry.advance: the indices known to be used afterwards are those known
\* before and those credited, no more and no less.
LEMMA AdvanceSound ==
  ASSUME NEW rec \in SenderRecord, NEW used \in SUBSET Index
  PROVE  /\ Advance(rec, used) \in SenderRecord
         /\ KnownUsed(Advance(rec, used)) = KnownUsed(rec) \cup used
         /\ \A i \in Advance(rec, used).usedAhead : i > Advance(rec, used).nextIndex
<1> DEFINE next == CHOOSE k \in rec.nextIndex .. (MaxIndex + 1) : IsNextIndex(k, rec, used)
           ahead == Ahead(rec, used)
           adv == [rec EXCEPT !.nextIndex = next, !.usedAhead = {i \in ahead : i > next}]
<1>1. rec.nextIndex \in Nat /\ rec.usedAhead \subseteq Index /\ MaxIndex \in Nat
  BY RecordFields, RegistryAssumption
<1>2. next \in rec.nextIndex .. (MaxIndex + 1) /\ IsNextIndex(next, rec, used)
  BY NextIndexExists
<1>3. adv = Advance(rec, used)
  BY DEF Advance
<1> HIDE DEF next
<1>4. next \in Nat /\ next >= rec.nextIndex /\ next <= MaxIndex + 1
  BY <1>1, <1>2
<1>5. next \notin ahead /\ rec.nextIndex .. (next - 1) \subseteq ahead
  BY <1>2 DEF IsNextIndex
<1>6. ahead \subseteq Index
  BY <1>1 DEF Ahead
<1>7. adv \in SenderRecord /\ adv.nextIndex = next /\ adv.usedAhead = {i \in ahead : i > next}
  <2> DEFINE above == {i \in ahead : i > next}
  <2>1. above \in SUBSET Index
    BY <1>6
  <2>2. next \in 0 .. (MaxIndex + 1)
    BY <1>1, <1>4
  <2> HIDE DEF above, ahead
  <2>3. [rec EXCEPT !.nextIndex = next, !.usedAhead = above] \in SenderRecord
    BY <2>1, <2>2 DEF SenderRecord
  <2>4. /\ [rec EXCEPT !.nextIndex = next, !.usedAhead = above].nextIndex = next
        /\ [rec EXCEPT !.nextIndex = next, !.usedAhead = above].usedAhead = above
    BY DEF SenderRecord
  <2>5. QED BY <2>3, <2>4 DEF above, ahead
<1>8. ASSUME NEW i \in Index
      PROVE  i \in KnownUsed(adv) <=> i \in KnownUsed(rec) \cup used
  <2>1. i \in Nat
    BY <1>1 DEF Index
  <2>2. i \in KnownUsed(adv) <=> i < next \/ (i \in ahead /\ i > next)
    BY <1>7 DEF KnownUsed
  <2>3. i \in KnownUsed(rec) \cup used <=> i < rec.nextIndex \/ i \in ahead
    BY <1>1, <2>1 DEF KnownUsed, Ahead
  <2>4. CASE i < rec.nextIndex
    BY <1>1, <1>4, <2>1, <2>2, <2>3, <2>4
  <2>5. CASE i >= rec.nextIndex /\ i < next
    <3>1. i \in rec.nextIndex .. (next - 1)
      BY <1>1, <1>4, <2>1, <2>5
    <3>2. QED BY <1>5, <2>2, <2>3, <2>5, <3>1
  <2>6. CASE i = next
    BY <1>1, <1>4, <1>5, <2>1, <2>2, <2>3, <2>6
  <2>7. CASE i > next
    BY <1>1, <1>4, <2>1, <2>2, <2>3, <2>7
  <2>8. QED BY <1>1, <1>4, <2>1, <2>4, <2>5, <2>6, <2>7
<1>9. KnownUsed(adv) = KnownUsed(rec) \cup used
  BY <1>8 DEF KnownUsed
<1>10. QED BY <1>3, <1>7, <1>9

\* Registry.advance never takes the cursor back, and leaves the time of the
\* registration alone.
LEMMA AdvanceForward ==
  ASSUME NEW rec \in SenderRecord, NEW used \in SUBSET Index
  PROVE  /\ rec.nextIndex <= Advance(rec, used).nextIndex
         /\ Advance(rec, used).firstSeen = rec.firstSeen
         /\ Paid(rec) => Paid(Advance(rec, used))
<1> DEFINE next == CHOOSE k \in rec.nextIndex .. (MaxIndex + 1) : IsNextIndex(k, rec, used)
           above == {i \in Ahead(rec, used) : i > next}
<1>1. rec.nextIndex \in Nat /\ MaxIndex \in Nat
  BY RecordFields, RegistryAssumption
<1>2. next \in rec.nextIndex .. (MaxIndex + 1)
  BY NextIndexExists
<1>3. Advance(rec, used) = [rec EXCEPT !.nextIndex = next, !.usedAhead = above]
  BY DEF Advance
<1> HIDE DEF next, above
<1>4. Advance(rec, used).nextIndex = next /\ Advance(rec, used).firstSeen = rec.firstSeen
  BY <1>3 DEF SenderRecord
<1>5. Paid(rec) => Paid(Advance(rec, used))
  BY AdvanceSound, PaidIsKnown
<1>6. QED BY <1>1, <1>2, <1>4, <1>5

\* What is watched is not known to be used.
LEMMA WatchedIsUnknown ==
  ASSUME NEW rec \in SenderRecord, NEW i \in WatchWindow(rec)
  PROVE  i \notin KnownUsed(rec)
<1>1. i \in rec.nextIndex .. Horizon /\ i \notin rec.usedAhead
  BY DEF WatchWindow, Unused
<1>2. rec.nextIndex \in Nat /\ Horizon \in Nat
  BY RecordFields, RegistryAssumption DEF Horizon
<1>3. QED BY <1>1, <1>2 DEF KnownUsed

\* An address of a window stays in it when more becomes known than the window
\* was made from, unless it is among what has become known.
LEMMA WindowCarries ==
  ASSUME NEW rec \in SenderRecord, NEW more \in SenderRecord, KnownUsed(rec) \subseteq KnownUsed(more),
         NEW i \in WatchWindow(rec), i \in Index, i \notin KnownUsed(more)
  PROVE  i \in WatchWindow(more)
<1>1. /\ rec.nextIndex \in Nat /\ more.nextIndex \in Nat /\ MaxIndex \in Nat /\ Gap \in Nat
      /\ i \in Nat /\ i <= MaxIndex
  BY RecordFields, RegistryAssumption DEF Index
<1>2. i >= more.nextIndex /\ i \notin more.usedAhead
  BY <1>1 DEF KnownUsed
<1>3. i \in Unused(more, Horizon)
  BY <1>1, <1>2 DEF Unused, Horizon
<1>4. Unused(more, i) \subseteq Unused(rec, i)
  <2>1. SUFFICES ASSUME NEW j \in Unused(more, i) PROVE j \in Unused(rec, i)
    OBVIOUS
  <2>2. j \in Nat /\ more.nextIndex <= j /\ j <= i /\ j \notin more.usedAhead
    BY <1>1 DEF Unused
  <2>3. j \in Index /\ j \notin KnownUsed(more)
    BY <1>1, <2>2 DEF KnownUsed, Index
  <2>4. j \notin KnownUsed(rec)
    BY <2>3
  <2>5. QED BY <1>1, <2>2, <2>3, <2>4 DEF KnownUsed, Unused
<1>5. IsFiniteSet(Unused(rec, i))
  <2>1. IsFiniteSet(rec.nextIndex .. i)
    <3>1. rec.nextIndex \in Int /\ i \in Int
      BY <1>1
    <3>2. QED BY <3>1, FS_Interval
  <2>2. Unused(rec, i) \subseteq rec.nextIndex .. i
    BY DEF Unused
  <2>3. QED BY <2>1, <2>2, FS_Subset
<1>6. /\ Cardinality(Unused(more, i)) \in Nat /\ Cardinality(Unused(rec, i)) \in Nat
      /\ Cardinality(Unused(more, i)) <= Cardinality(Unused(rec, i))
  BY <1>4, <1>5, FS_Subset, FS_CardinalityType
<1>7. Cardinality(Unused(rec, i)) <= Gap
  BY DEF WatchWindow
<1>8. QED BY <1>1, <1>3, <1>6, <1>7 DEF WatchWindow

\* The window of a new record does not depend on when it was made.
LEMMA NewWindow ==
  ASSUME NEW t, NEW u
  PROVE  WatchWindow(NewRecord(t)) = WatchWindow(NewRecord(u))
  BY DEF WatchWindow, Unused, NewRecord

\* A record without a payment has the window of a new one.
LEMMA UnpaidWindow ==
  ASSUME NEW rec, ~Paid(rec)
  PROVE  WatchWindow(rec) = WatchWindow(NewRecord(0))
  BY DEF WatchWindow, Unused, NewRecord, Paid

\* The registry of a new state file.
LEMMA EmptyRegistryType == EmptyRegistry \in Registries /\ DOMAIN EmptyRegistry = {}
<1>1. EmptyRegistry \in [{} -> SenderRecord]
  BY DEF EmptyRegistry
<1>2. QED BY <1>1 DEF Registries, EmptyRegistry

\* A registry has at most the codes, and a record for each.
LEMMA RegistryFields ==
  ASSUME NEW r \in Registries
  PROVE  /\ DOMAIN r \subseteq Codes
         /\ r \in [DOMAIN r -> SenderRecord]
         /\ \A c \in DOMAIN r : r[c] \in SenderRecord
<1>1. PICK D \in SUBSET Codes : r \in [D -> SenderRecord]
  BY DEF Registries
<1>2. QED BY <1>1

\* A new customer has paid nothing.
LEMMA NewRecordFresh ==
  ASSUME NEW now \in Clock
  PROVE  /\ NewRecord(now) \in SenderRecord
         /\ ~Paid(NewRecord(now))
         /\ KnownUsed(NewRecord(now)) = {}
<1>1. NewRecord(now) \in SenderRecord
  BY RegistryAssumption DEF NewRecord, SenderRecord
<1>2. ~Paid(NewRecord(now))
  BY DEF NewRecord, Paid
<1>3. QED BY <1>1, <1>2, PaidIsKnown

\* Registry.add puts one customer in and touches nobody else.
LEMMA AddSound ==
  ASSUME NEW r \in Registries, NEW c \in Codes, NEW now \in Clock, c \notin DOMAIN r
  PROVE  /\ Add(r, c, now) \in Registries
         /\ DOMAIN Add(r, c, now) = DOMAIN r \cup {c}
         /\ Add(r, c, now)[c] = NewRecord(now)
         /\ \A d \in DOMAIN r : Add(r, c, now)[d] = r[d]
<1>1. DOMAIN r \cup {c} \subseteq Codes /\ \A d \in DOMAIN r : r[d] \in SenderRecord
  BY RegistryFields
<1>2. NewRecord(now) \in SenderRecord
  BY NewRecordFresh
<1>3. Add(r, c, now) \in [DOMAIN r \cup {c} -> SenderRecord]
  BY <1>1, <1>2 DEF Add
<1>4. Add(r, c, now) \in Registries
  BY <1>1, <1>3 DEF Registries
<1>5. QED BY <1>4 DEF Add

\* Registry.pruneUnpaid drops unpaid records and changes no other.
LEMMA PruneSound ==
  ASSUME NEW r \in Registries, NEW now \in Clock
  PROVE  /\ Prune(r, now) \in Registries
         /\ DOMAIN Prune(r, now) \subseteq DOMAIN r
         /\ \A c \in DOMAIN Prune(r, now) : Prune(r, now)[c] = r[c]
         /\ \A c \in DOMAIN r \ DOMAIN Prune(r, now) : ~Paid(r[c])
<1>1. DOMAIN r \ Stale(r, now) \subseteq Codes /\ \A d \in DOMAIN r : r[d] \in SenderRecord
  BY RegistryFields
<1>2. Prune(r, now) \in [DOMAIN r \ Stale(r, now) -> SenderRecord]
  BY <1>1 DEF Prune, Restrict
<1>3. Prune(r, now) \in Registries
  BY <1>1, <1>2 DEF Registries
<1>4. QED BY <1>3 DEF Prune, Restrict, Stale

\* The credits of a pass advance who is registered and nobody else.
LEMMA CreditAllSound ==
  ASSUME NEW r \in Registries, NEW found \in SUBSET (Codes \X Index)
  PROVE  /\ CreditAll(r, found) \in Registries
         /\ DOMAIN CreditAll(r, found) = DOMAIN r
         /\ \A c \in DOMAIN r :
              KnownUsed(CreditAll(r, found)[c]) =
                KnownUsed(r[c]) \cup {i \in Index : <<c, i>> \in found}
<1> DEFINE Of(c) == {i \in Index : <<c, i>> \in found}
<1>1. DOMAIN r \subseteq Codes /\ \A c \in DOMAIN r : r[c] \in SenderRecord
  BY RegistryFields
<1>2. \A c \in DOMAIN r :
        /\ Advance(r[c], Of(c)) \in SenderRecord
        /\ KnownUsed(Advance(r[c], Of(c))) = KnownUsed(r[c]) \cup Of(c)
  <2>1. TAKE c \in DOMAIN r
  <2>2. Of(c) \in SUBSET Index
    OBVIOUS
  <2>3. r[c] \in SenderRecord
    BY <1>1
  <2>4. QED BY <2>2, <2>3, AdvanceSound
<1>3. CreditAll(r, found) = [c \in DOMAIN r |-> Advance(r[c], Of(c))]
  BY DEF CreditAll
<1> HIDE DEF Of
<1>4. CreditAll(r, found) \in [DOMAIN r -> SenderRecord]
  BY <1>2, <1>3
<1>5. CreditAll(r, found) \in Registries
  BY <1>1, <1>4 DEF Registries
<1>6. QED BY <1>2, <1>3, <1>5 DEF Of

\* The capacity survives an add that found room and any shrinking.
LEMMA CapacityKept ==
  ASSUME NEW S \in SUBSET Codes, Cardinality(S) <= MaxSenders
  PROVE  /\ \A T \in SUBSET S : Cardinality(T) <= MaxSenders
         /\ \A c : Cardinality(S) < MaxSenders => Cardinality(S \cup {c}) <= MaxSenders
<1>1. IsFiniteSet(S) /\ Cardinality(S) \in Nat /\ MaxSenders \in Nat
  BY RegistryAssumption, FS_Subset, FS_CardinalityType
<1>2. ASSUME NEW T \in SUBSET S PROVE Cardinality(T) <= MaxSenders
  <2>1. IsFiniteSet(T) /\ Cardinality(T) <= Cardinality(S) /\ Cardinality(T) \in Nat
    BY <1>1, FS_Subset, FS_CardinalityType
  <2>2. QED BY <1>1, <2>1
<1>3. ASSUME NEW c, Cardinality(S) < MaxSenders PROVE Cardinality(S \cup {c}) <= MaxSenders
  <2>1. Cardinality(S \cup {c}) = IF c \in S THEN Cardinality(S) ELSE Cardinality(S) + 1
    BY <1>1, FS_AddElement
  <2>2. QED BY <1>1, <1>3, <2>1
<1>4. QED BY <1>2, <1>3
=============================================================================
