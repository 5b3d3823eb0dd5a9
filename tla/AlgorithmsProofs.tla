-------------------------- MODULE AlgorithmsProofs --------------------------
(***************************************************************************)
(* The parts of the code that decide without waiting, for every value of   *)
(* the constants: registries of any size, any number of credits in any     *)
(* order, any parties, clocks, hosts and curves.                           *)
(***************************************************************************)
EXTENDS Algorithms, RegistryProofs, BucketProofs, SequenceTheorems

-----------------------------------------------------------------------------
(* The loop of Registry.advance.                                           *)

\* m is the least number from k on that is not in the set.
FirstFree(ahead, k, m) ==
  m \in k .. (MaxIndex + 1) /\ m \notin ahead /\ k .. (m - 1) \subseteq ahead

\* There is one: MaxIndex + 1 is in no set of indices.
LEMMA FirstFreeExists ==
  ASSUME NEW ahead \in SUBSET Index, NEW k \in 0 .. (MaxIndex + 1)
  PROVE  \E m : FirstFree(ahead, k, m)
<1> DEFINE T == {m \in k .. (MaxIndex + 1) : m \notin ahead}
<1>1. MaxIndex \in Nat /\ k \in Nat /\ k <= MaxIndex + 1
  BY RegistryAssumption
<1>2. MaxIndex + 1 \in T
  BY <1>1 DEF Index
<1>3. T \subseteq Nat
  BY <1>1
<1> HIDE DEF T
<1>4. PICK m \in T : \A j \in T : m <= j
  BY <1>2, <1>3, LeastElement
<1>5. m \in k .. (MaxIndex + 1) /\ m \notin ahead
  BY <1>4 DEF T
<1>6. ASSUME NEW j \in k .. (m - 1) PROVE j \in ahead
  <2>1. j \in k .. (MaxIndex + 1) /\ ~(m <= j)
    BY <1>1, <1>5
  <2>2. QED BY <2>1, <1>4 DEF T
<1>7. QED BY <1>5, <1>6 DEF FirstFree

\* And only one.
LEMMA FirstFreeUnique ==
  ASSUME NEW ahead, NEW k \in Nat, NEW m, NEW n, FirstFree(ahead, k, m), FirstFree(ahead, k, n)
  PROVE  m = n
<1>1. MaxIndex \in Nat
  BY RegistryAssumption
<1>2. m \in Nat /\ n \in Nat /\ k <= m /\ k <= n
  BY <1>1 DEF FirstFree
<1>3. ~(m < n)
  <2>1. m < n => m \in k .. (n - 1)
    BY <1>2
  <2>2. QED BY <2>1 DEF FirstFree
<1>4. ~(n < m)
  <2>1. n < m => n \in k .. (m - 1)
    BY <1>2
  <2>2. QED BY <2>1 DEF FirstFree
<1>5. QED BY <1>2, <1>3, <1>4

\* From a member of the set on it is the one from the next number on.
LEMMA FirstFreeSteps ==
  ASSUME NEW ahead \in SUBSET Index, NEW k \in 0 .. (MaxIndex + 1)
  PROVE  /\ k \notin ahead => FirstFree(ahead, k, k)
         /\ k \in ahead => /\ k + 1 \in 0 .. (MaxIndex + 1)
                           /\ \A m : FirstFree(ahead, k + 1, m) => FirstFree(ahead, k, m)
<1>1. MaxIndex \in Nat /\ k \in Nat /\ k <= MaxIndex + 1
  BY RegistryAssumption
<1>2. ASSUME k \notin ahead PROVE FirstFree(ahead, k, k)
  <2>1. k \in k .. (MaxIndex + 1) /\ k .. (k - 1) = {}
    BY <1>1
  <2>2. QED BY <1>2, <2>1 DEF FirstFree
<1>3. ASSUME k \in ahead
      PROVE  k + 1 \in 0 .. (MaxIndex + 1) /\ \A m : FirstFree(ahead, k + 1, m) => FirstFree(ahead, k, m)
  <2>1. k <= MaxIndex
    BY <1>1, <1>3 DEF Index
  <2>2. k + 1 \in 0 .. (MaxIndex + 1)
    BY <1>1, <2>1
  <2>3. ASSUME NEW m, FirstFree(ahead, k + 1, m) PROVE FirstFree(ahead, k, m)
    <3>1. m \in (k + 1) .. (MaxIndex + 1) /\ m \notin ahead /\ (k + 1) .. (m - 1) \subseteq ahead
      BY <2>3 DEF FirstFree
    <3>2. m \in k .. (MaxIndex + 1)
      BY <1>1, <3>1
    <3>3. \A j \in k .. (m - 1) : j = k \/ j \in (k + 1) .. (m - 1)
      BY <1>1, <3>1
    <3>4. QED BY <1>3, <3>1, <3>2, <3>3 DEF FirstFree
  <2>4. QED BY <2>2, <2>3
<1>4. QED BY <1>2, <1>3

\* The loop comes to rest there, wherever it starts.
LEMMA SlideIsFirstFree ==
  ASSUME NEW ahead \in SUBSET Index, NEW k \in 0 .. (MaxIndex + 1)
  PROVE  FirstFree(ahead, k, Slide(ahead)[k])
<1> DEFINE D == 0 .. (MaxIndex + 1)
           f == [j \in D |-> CHOOSE m : FirstFree(ahead, j, m)]
           s == Slide(ahead)
<1>1. MaxIndex \in Nat /\ D \subseteq Nat
  BY RegistryAssumption
<1>2. \A j \in D : FirstFree(ahead, j, f[j])
  BY FirstFreeExists
<1> HIDE DEF f
<1>3. \A j \in D : f[j] = IF j \in ahead THEN f[j + 1] ELSE j
  <2> SUFFICES ASSUME NEW j \in D PROVE f[j] = IF j \in ahead THEN f[j + 1] ELSE j
    OBVIOUS
  <2>1. j \in Nat
    BY <1>1
  <2>2. CASE j \in ahead
    <3>1. j + 1 \in D /\ FirstFree(ahead, j, f[j + 1])
      BY <1>2, <2>2, FirstFreeSteps
    <3>2. f[j] = f[j + 1]
      BY <1>2, <2>1, <3>1, FirstFreeUnique
    <3>3. QED BY <2>2, <3>2
  <2>3. CASE j \notin ahead
    <3>1. FirstFree(ahead, j, j)
      BY <2>3, FirstFreeSteps
    <3>2. f[j] = j
      BY <1>2, <2>1, <3>1, FirstFreeUnique
    <3>3. QED BY <2>3, <3>2
  <2>4. QED BY <2>2, <2>3
<1>4. f = [j \in D |-> IF j \in ahead THEN f[j + 1] ELSE j]
  <2>1. f = [j \in D |-> f[j]]
    BY DEF f
  <2>2. QED BY <1>3, <2>1
<1>5. s = [j \in D |-> IF j \in ahead THEN s[j + 1] ELSE j]
  BY <1>4 DEF Slide
<1> HIDE DEF s
<1>6. \A j \in D : s[j] = IF j \in ahead THEN s[j + 1] ELSE j
  BY <1>5
<1>7. \A j \in D : FirstFree(ahead, j, s[j])
  <2> DEFINE T == {d \in Nat : \E j \in D : d = MaxIndex + 1 - j /\ ~FirstFree(ahead, j, s[j])}
  <2>1. SUFFICES ASSUME T # {} PROVE FALSE
    <3>1. ASSUME T = {}, NEW j \in D PROVE FirstFree(ahead, j, s[j])
      <4>1. MaxIndex + 1 - j \in Nat
        BY <1>1
      <4>2. QED BY <3>1, <4>1
    <3>2. QED BY <3>1
  <2>2. PICK d \in T : \A e \in T : d <= e
    BY <2>1, LeastElement
  <2>3. PICK j \in D : d = MaxIndex + 1 - j /\ ~FirstFree(ahead, j, s[j])
    OBVIOUS
  <2>4. j \in ahead
    <3>1. j \notin ahead => FirstFree(ahead, j, j) /\ s[j] = j
      BY <1>6, FirstFreeSteps
    <3>2. QED BY <2>3, <3>1, Zenon
  <2>5. j + 1 \in D /\ s[j] = s[j + 1]
    BY <1>6, <2>4, FirstFreeSteps
  <2>6. ~FirstFree(ahead, j + 1, s[j + 1])
    BY <2>3, <2>4, <2>5, FirstFreeSteps
  <2>7. MaxIndex + 1 - (j + 1) \in Nat /\ ~(d <= MaxIndex + 1 - (j + 1))
    BY <1>1, <2>3, <2>5
  <2>8. QED BY <2>2, <2>5, <2>6, <2>7
<1>8. QED BY <1>7 DEF s

\* A record as the code keeps it.
IsNormal(r) == r \in SenderRecord /\ \A i \in r.usedAhead : i > r.nextIndex

\* What is known to be used, and since when, is all there is to it.
LEMMA NormalUnique ==
  ASSUME NEW a, NEW b, IsNormal(a), IsNormal(b), KnownUsed(a) = KnownUsed(b), a.firstSeen = b.firstSeen
  PROVE  a = b
<1>1. /\ MaxIndex \in Nat
      /\ a \in SenderRecord /\ a.nextIndex \in Nat /\ a.nextIndex <= MaxIndex + 1 /\ a.usedAhead \subseteq Index
      /\ b \in SenderRecord /\ b.nextIndex \in Nat /\ b.nextIndex <= MaxIndex + 1 /\ b.usedAhead \subseteq Index
  BY RecordFields, RegistryAssumption DEF IsNormal
<1>2. ASSUME NEW x, NEW y, IsNormal(x), x.nextIndex \in Nat, y.nextIndex \in Nat, y.nextIndex <= MaxIndex + 1,
             KnownUsed(x) = KnownUsed(y), x.nextIndex < y.nextIndex
      PROVE  FALSE
  <2>1. x.nextIndex \in Index
    BY <1>1, <1>2 DEF Index
  <2>2. x.nextIndex \in KnownUsed(y)
    BY <1>2, <2>1 DEF KnownUsed
  <2>3. x.nextIndex \in x.usedAhead
    BY <1>2, <2>2 DEF KnownUsed
  <2>4. QED BY <1>2, <2>3 DEF IsNormal
<1>3. a.nextIndex = b.nextIndex
  <2>1. ~(a.nextIndex < b.nextIndex) /\ ~(b.nextIndex < a.nextIndex)
    BY <1>1, <1>2
  <2>2. QED BY <1>1, <2>1
<1>4. \A i \in Index : i \in Nat
  BY <1>1 DEF Index
<1>5. a.usedAhead = {i \in KnownUsed(a) : i > a.nextIndex}
  BY <1>1, <1>4 DEF IsNormal, KnownUsed
<1>6. b.usedAhead = {i \in KnownUsed(b) : i > b.nextIndex}
  BY <1>1, <1>4 DEF IsNormal, KnownUsed
<1>7. a.usedAhead = b.usedAhead
  BY <1>3, <1>5, <1>6
<1>8. /\ a = [nextIndex |-> a.nextIndex, usedAhead |-> a.usedAhead, firstSeen |-> a.firstSeen]
      /\ b = [nextIndex |-> b.nextIndex, usedAhead |-> b.usedAhead, firstSeen |-> b.firstSeen]
  BY <1>1 DEF SenderRecord
<1>9. QED BY <1>3, <1>7, <1>8

\* One call of Registry.advance.
LEMMA AdvanceLoopSound ==
  ASSUME NEW r, IsNormal(r), NEW i \in Index
  PROVE  /\ IsNormal(AdvanceLoop(r, i))
         /\ KnownUsed(AdvanceLoop(r, i)) = KnownUsed(r) \cup {i}
         /\ AdvanceLoop(r, i).firstSeen = r.firstSeen
<1>1. /\ MaxIndex \in Nat /\ r \in SenderRecord /\ r.nextIndex \in Nat /\ r.nextIndex <= MaxIndex + 1
      /\ r.usedAhead \subseteq Index /\ i \in Nat
  BY RecordFields, RegistryAssumption DEF IsNormal, Index
<1>2. CASE i < r.nextIndex
  <2>1. AdvanceLoop(r, i) = r
    BY <1>2 DEF AdvanceLoop
  <2>2. i \in KnownUsed(r)
    BY <1>2 DEF KnownUsed
  <2>3. QED BY <2>1, <2>2
<1>3. CASE ~(i < r.nextIndex)
  <2> DEFINE ahead == r.usedAhead \cup {i}
             n == r.nextIndex
             next == Slide(ahead)[n]
             rest == ahead \ (n .. (next - 1))
             g == [r EXCEPT !.nextIndex = next, !.usedAhead = rest]
  <2>1. AdvanceLoop(r, i) = g
    BY <1>3 DEF AdvanceLoop
  <2>2. ahead \in SUBSET Index /\ n \in 0 .. (MaxIndex + 1)
    BY <1>1
  <2>3. FirstFree(ahead, n, next)
    BY <2>2, SlideIsFirstFree
  <2>4. \A j \in ahead : j \in Nat /\ n <= j
    BY <1>1, <1>3 DEF IsNormal, Index
  <2>5. next \in n .. (MaxIndex + 1) /\ next \notin ahead /\ n .. (next - 1) \subseteq ahead
    BY <2>3 DEF FirstFree
  <2> HIDE DEF next
  <2>6. next \in Nat /\ n <= next /\ next <= MaxIndex + 1 /\ next \in 0 .. (MaxIndex + 1)
    BY <1>1, <2>5
  <2>7. \A j \in rest : j > next /\ j \in Index
    <3>1. ASSUME NEW j \in rest PROVE j > next /\ j \in Index
      <4>1. j \in ahead /\ j \in Nat /\ n <= j /\ j \notin n .. (next - 1) /\ j # next
        BY <2>4, <2>5
      <4>2. ~(j <= next - 1)
        BY <1>1, <2>6, <4>1
      <4>3. QED BY <2>2, <2>6, <4>1, <4>2
    <3>2. QED BY <3>1
  <2>8. rest \in SUBSET Index
    BY <2>7
  <2>9. \A j \in Index : j < next \/ j \in rest <=> j < n \/ j \in ahead
    <3>1. ASSUME NEW j \in Index PROVE j < next \/ j \in rest <=> j < n \/ j \in ahead
      <4>1. j \in Nat
        BY <1>1 DEF Index
      <4>2. j \in n .. (next - 1) <=> n <= j /\ j < next
        BY <1>1, <2>6, <4>1
      <4>3. j < n => j < next
        BY <1>1, <2>6, <4>1
      <4>4. j < n \/ n <= j
        BY <1>1, <4>1
      <4>5. QED BY <2>5, <4>2, <4>3, <4>4
    <3>2. QED BY <3>1
  <2> HIDE DEF rest
  <2>10. g \in SenderRecord /\ g.nextIndex = next /\ g.usedAhead = rest /\ g.firstSeen = r.firstSeen
    BY <1>1, <2>6, <2>8 DEF SenderRecord
  <2> HIDE DEF g
  <2>11. KnownUsed(g) = KnownUsed(r) \cup {i}
    BY <2>9, <2>10 DEF KnownUsed
  <2>12. IsNormal(g)
    BY <2>7, <2>10 DEF IsNormal
  <2>13. QED BY <2>1, <2>10, <2>11, <2>12
<1>4. QED BY <1>2, <1>3

\* After some of the credits the record knows what it knew and those.
CreditsInv ==
  /\ IsNormal(start) /\ IsNormal(rec)
  /\ given \in SUBSET Index /\ todo \in SUBSET given
  /\ KnownUsed(rec) = KnownUsed(start) \cup (given \ todo)
  /\ rec.firstSeen = start.firstSeen

\* The pass starts so and every call leaves it so.
LEMMA CreditsKeep == Spec => []CreditsInv
<1>1. Init => CreditsInv
  <2>1. MaxIndex \in Nat /\ MaxNow \in Nat /\ 0 \in Clock
    BY RegistryAssumption DEF Clock
  <2>2. \A r \in Records : IsNormal(r)
    BY <2>1 DEF Records, IsNormal, SenderRecord
  <2>3. QED BY <2>2 DEF Init, CreditsInv
<1>2. CreditsInv /\ [Next]_vars => CreditsInv'
  <2> SUFFICES ASSUME CreditsInv, [Next]_vars PROVE CreditsInv'
    OBVIOUS
  <2>1. CASE UNCHANGED vars
    <3>1. start' = start /\ given' = given /\ rec' = rec /\ todo' = todo
      BY <2>1 DEF vars
    <3>2. QED BY <3>1, Zenon DEF CreditsInv, IsNormal, KnownUsed
  <2>2. ASSUME NEW i \in todo, CreditNext(i) PROVE CreditsInv'
    <3>1. rec' = AdvanceLoop(rec, i) /\ todo' = todo \ {i} /\ start' = start /\ given' = given
      BY <2>2 DEF CreditNext
    <3>2. IsNormal(rec) /\ i \in Index /\ i \in given
      BY DEF CreditsInv
    <3>3. IsNormal(rec') /\ KnownUsed(rec') = KnownUsed(rec) \cup {i} /\ rec'.firstSeen = rec.firstSeen
      BY <3>1, <3>2, AdvanceLoopSound
    <3>4. given \ todo' = (given \ todo) \cup {i}
      BY <3>1, <3>2
    <3>5. IsNormal(start') /\ KnownUsed(start') = KnownUsed(start) /\ start'.firstSeen = start.firstSeen
      BY <3>1 DEF CreditsInv
    <3>6. QED BY <3>1, <3>3, <3>4, <3>5 DEF CreditsInv
  <2>3. QED BY <2>1, <2>2 DEF Next
<1>3. QED BY <1>1, <1>2, PTL DEF Spec

\* watcher.ts, register.ts: in whatever order a pass applies its credits, the
\* record ends up as Advance says.
THEOREM CreditsInAnyOrder == Spec => []AnyOrderAdvances
<1>1. CreditsInv => AnyOrderAdvances
  <2> SUFFICES ASSUME CreditsInv, todo = {} PROVE rec = Advance(start, given)
    BY DEF AnyOrderAdvances
  <2> DEFINE a == Advance(start, given)
  <2>1. start \in SenderRecord /\ given \in SUBSET Index
    BY DEF CreditsInv, IsNormal
  <2>2. IsNormal(a) /\ KnownUsed(a) = KnownUsed(start) \cup given /\ a.firstSeen = start.firstSeen
    BY <2>1, AdvanceSound, AdvanceForward DEF IsNormal
  <2> HIDE DEF a
  <2>3. IsNormal(rec) /\ KnownUsed(rec) = KnownUsed(start) \cup given /\ rec.firstSeen = start.firstSeen
    BY DEF CreditsInv
  <2>4. rec = a
    BY <2>2, <2>3, NormalUnique
  <2>5. QED BY <2>4 DEF a
<1>2. QED BY <1>1, CreditsKeep, PTL

-----------------------------------------------------------------------------
(* The loop of watchWindow.                                                *)

\* The numbers from i to j that are not in the set.
Spanned(ahead, i, j) == {k \in i .. j : k \notin ahead}

\* The first left numbers from i on that are not in the set.
FirstOnes(ahead, i, left) ==
  {j \in Nat : i <= j /\ j \notin ahead /\ Cardinality(Spanned(ahead, i, j)) <= left}

\* One number more at the low end.
LEMMA SpannedSteps ==
  ASSUME NEW ahead, NEW i \in Nat, NEW j \in Nat
  PROVE  /\ IsFiniteSet(Spanned(ahead, i, j)) /\ Cardinality(Spanned(ahead, i, j)) \in Nat
         /\ i <= j => Cardinality(Spanned(ahead, i, j)) =
              Cardinality(Spanned(ahead, i + 1, j)) + (IF i \in ahead THEN 0 ELSE 1)
<1> DEFINE low == Spanned(ahead, i, j)
           high == Spanned(ahead, i + 1, j)
<1>1. IsFiniteSet(i .. j) /\ IsFiniteSet((i + 1) .. j)
  <2>1. i \in Int /\ i + 1 \in Int /\ j \in Int
    OBVIOUS
  <2>2. QED BY <2>1, FS_Interval
<1>2. IsFiniteSet(low) /\ Cardinality(low) \in Nat /\ IsFiniteSet(high) /\ Cardinality(high) \in Nat
  <2>1. low \in SUBSET (i .. j) /\ high \in SUBSET ((i + 1) .. j)
    BY DEF Spanned
  <2>2. QED BY <1>1, <2>1, FS_Subset, FS_CardinalityType
<1>3. ASSUME i <= j PROVE Cardinality(low) = Cardinality(high) + (IF i \in ahead THEN 0 ELSE 1)
  <2>1. i \notin high
    BY DEF Spanned
  <2>2. CASE i \in ahead
    <3>1. low = high
      BY <1>3, <2>2 DEF Spanned
    <3> HIDE DEF low, high
    <3>2. QED BY <1>2, <2>2, <3>1
  <2>3. CASE i \notin ahead
    <3>1. low = high \cup {i}
      BY <1>3, <2>3 DEF Spanned
    <3> HIDE DEF low, high
    <3>2. Cardinality(high \cup {i}) = Cardinality(high) + 1
      BY <1>2, <2>1, FS_AddElement
    <3>3. QED BY <1>2, <2>3, <3>1, <3>2
  <2>4. QED BY <2>2, <2>3
<1>4. QED BY <1>2, <1>3

\* They are what the loop emits: none if none is left, and otherwise this
\* number, unless it is used, and what comes behind it.
LEMMA FirstOnesSteps ==
  ASSUME NEW ahead, NEW i \in Nat, NEW left \in Nat
  PROVE  /\ left = 0 => FirstOnes(ahead, i, left) = {}
         /\ i \in ahead => FirstOnes(ahead, i, left) = FirstOnes(ahead, i + 1, left)
         /\ left # 0 /\ i \notin ahead => FirstOnes(ahead, i, left) = {i} \cup FirstOnes(ahead, i + 1, left - 1)
<1> DEFINE C(a, j) == Cardinality(Spanned(ahead, a, j))
<1>1. \A j \in Nat : C(i, j) \in Nat /\ C(i + 1, j) \in Nat
  <2> SUFFICES ASSUME NEW j \in Nat PROVE C(i, j) \in Nat /\ C(i + 1, j) \in Nat
    OBVIOUS
  <2>1. i + 1 \in Nat
    OBVIOUS
  <2>2. C(i, j) \in Nat
    BY SpannedSteps
  <2>3. C(i + 1, j) \in Nat
    BY <2>1, SpannedSteps
  <2>4. QED BY <2>2, <2>3
<1>2. \A j \in Nat : i <= j => C(i, j) = C(i + 1, j) + (IF i \in ahead THEN 0 ELSE 1)
  BY SpannedSteps
<1>3. C(i + 1, i) = 0
  <2>1. Spanned(ahead, i + 1, i) = {}
    BY DEF Spanned
  <2>2. QED BY <2>1, FS_EmptySet
<1>4. ASSUME NEW j \in Nat, i <= j, j \notin ahead PROVE C(i, j) # 0
  <2>1. j \in Spanned(ahead, i, j)
    BY <1>4 DEF Spanned
  <2>2. IsFiniteSet(Spanned(ahead, i, j))
    BY SpannedSteps
  <2>3. QED BY <2>1, <2>2, FS_EmptySet
<1>5. FirstOnes(ahead, i, left) = {j \in Nat : i <= j /\ j \notin ahead /\ C(i, j) <= left}
  BY DEF FirstOnes
<1>6. \A l : FirstOnes(ahead, i + 1, l) = {j \in Nat : i + 1 <= j /\ j \notin ahead /\ C(i + 1, j) <= l}
  BY DEF FirstOnes
<1> HIDE DEF C
<1>7. \A j \in Nat : i <= j <=> j = i \/ i + 1 <= j
  OBVIOUS
<1>8. ASSUME left = 0 PROVE FirstOnes(ahead, i, left) = {}
  <2>1. \A j \in Nat : i <= j /\ j \notin ahead => ~(C(i, j) <= left)
    BY <1>1, <1>4, <1>8
  <2>2. QED BY <1>5, <2>1
<1>9. ASSUME i \in ahead PROVE FirstOnes(ahead, i, left) = FirstOnes(ahead, i + 1, left)
  <2>1. \A j \in Nat : i <= j => C(i, j) = C(i + 1, j)
    BY <1>1, <1>2, <1>9
  <2>2. QED BY <1>5, <1>6, <1>7, <1>9, <2>1
<1>10. ASSUME left # 0, i \notin ahead
       PROVE  FirstOnes(ahead, i, left) = {i} \cup FirstOnes(ahead, i + 1, left - 1)
  <2>1. \A j \in Nat : i <= j => (C(i, j) <= left <=> C(i + 1, j) <= left - 1)
    BY <1>1, <1>2, <1>10
  <2>2. C(i + 1, i) <= left - 1
    BY <1>3, <1>10
  <2>3. QED BY <1>5, <1>6, <1>7, <1>10, <2>1, <2>2
<1>11. QED BY <1>8, <1>9, <1>10

\* What a loop that goes by the equation of Emit returns.
Emits(e, ahead) ==
  \A p \in Nat \X (0 .. Gap) :
    e[p] = IF p[2] = 0 THEN {}
           ELSE IF p[1] \in ahead THEN e[<<p[1] + 1, p[2]>>]
           ELSE {p[1]} \cup e[<<p[1] + 1, p[2] - 1>>]

\* The loop goes by it: its indices run out of used ones.
LEMMA LoopEmits ==
  ASSUME NEW ahead
  PROVE  Emits(Emit(ahead), ahead)
<1> DEFINE D == Nat \X (0 .. Gap)
           f == [p \in D |-> FirstOnes(ahead, p[1], p[2])]
           e == Emit(ahead)
<1>1. Gap \in Nat
  BY RegistryAssumption
<1>2. \A p \in D : f[p] = FirstOnes(ahead, p[1], p[2])
  OBVIOUS
<1>3. f = [p \in D |-> f[p]]
  OBVIOUS
<1> HIDE DEF f
<1>4. ASSUME NEW p \in D
      PROVE  f[p] = IF p[2] = 0 THEN {}
                    ELSE IF p[1] \in ahead THEN f[<<p[1] + 1, p[2]>>]
                    ELSE {p[1]} \cup f[<<p[1] + 1, p[2] - 1>>]
  <2>1. p[1] \in Nat /\ p[2] \in Nat /\ p[2] <= Gap
    BY <1>1
  <2>2. CASE p[2] = 0
    BY <1>2, <2>1, <2>2, FirstOnesSteps
  <2>3. CASE p[2] # 0 /\ p[1] \in ahead
    <3>1. <<p[1] + 1, p[2]>> \in D
      BY <2>1
    <3>2. f[<<p[1] + 1, p[2]>>] = FirstOnes(ahead, p[1] + 1, p[2])
      BY <1>2, <3>1
    <3>3. QED BY <1>2, <2>1, <2>3, <3>2, FirstOnesSteps
  <2>4. CASE p[2] # 0 /\ p[1] \notin ahead
    <3>1. <<p[1] + 1, p[2] - 1>> \in D
      BY <1>1, <2>1, <2>4
    <3>2. f[<<p[1] + 1, p[2] - 1>>] = FirstOnes(ahead, p[1] + 1, p[2] - 1)
      BY <1>2, <3>1
    <3>3. QED BY <1>2, <2>1, <2>4, <3>2, FirstOnesSteps
  <2>5. QED BY <2>2, <2>3, <2>4
<1>5. f = [p \in D |-> IF p[2] = 0 THEN {}
                       ELSE IF p[1] \in ahead THEN f[<<p[1] + 1, p[2]>>]
                       ELSE {p[1]} \cup f[<<p[1] + 1, p[2] - 1>>]]
  BY <1>3, <1>4
<1>6. e = [p \in D |-> IF p[2] = 0 THEN {}
                       ELSE IF p[1] \in ahead THEN e[<<p[1] + 1, p[2]>>]
                       ELSE {p[1]} \cup e[<<p[1] + 1, p[2] - 1>>]]
  BY <1>5, Zenon DEF Emit
<1> HIDE DEF e
<1>7. Emits(e, ahead)
  BY <1>6 DEF Emits
<1>8. QED BY <1>7 DEF e

\* And so it emits the first ones.
LEMMA EmitsFirstOnes ==
  ASSUME NEW ahead \in SUBSET Index, NEW e, Emits(e, ahead)
  PROVE  \A i \in Nat, left \in 0 .. Gap : e[<<i, left>>] = FirstOnes(ahead, i, left)
<1> DEFINE Wrong(left, i) == e[<<i, left>>] # FirstOnes(ahead, i, left)
           L == {left \in 0 .. Gap : \E i \in Nat : Wrong(left, i)}
<1>1. Gap \in Nat /\ MaxIndex \in Nat
  BY RegistryAssumption
<1>2. SUFFICES ASSUME L # {} PROVE FALSE
  BY DEF L
<1>3. L \subseteq Nat
  BY <1>1
<1>4. PICK left \in L : \A l \in L : left <= l
  BY <1>2, <1>3, LeastElement
<1>5. left \in 0 .. Gap /\ left \in Nat
  BY <1>1
<1>6. \A i \in Nat : /\ e[<<i, left>>] = IF left = 0 THEN {}
                                         ELSE IF i \in ahead THEN e[<<i + 1, left>>]
                                         ELSE {i} \cup e[<<i + 1, left - 1>>]
  <2> SUFFICES ASSUME NEW i \in Nat
               PROVE  e[<<i, left>>] = IF left = 0 THEN {}
                                       ELSE IF i \in ahead THEN e[<<i + 1, left>>]
                                       ELSE {i} \cup e[<<i + 1, left - 1>>]
    OBVIOUS
  <2> DEFINE p == <<i, left>>
  <2>1. p \in Nat \X (0 .. Gap) /\ p[1] = i /\ p[2] = left
    BY <1>5
  <2> HIDE DEF p
  <2>2. e[p] = IF left = 0 THEN {} ELSE IF i \in ahead THEN e[<<i + 1, left>>] ELSE {i} \cup e[<<i + 1, left - 1>>]
    BY <2>1 DEF Emits
  <2>3. QED BY <2>2 DEF p
<1>7. ASSUME NEW i \in Nat, Wrong(left, i) PROVE i \in ahead /\ Wrong(left, i + 1)
  <2>1. left # 0
    <3>1. left = 0 => FirstOnes(ahead, i, left) = {}
      BY <1>5, FirstOnesSteps
    <3>2. left = 0 => e[<<i, left>>] = {}
      BY <1>6
    <3>3. QED BY <1>7, <3>1, <3>2
  <2>2. i \in ahead
    <3>1. SUFFICES ASSUME i \notin ahead PROVE FALSE
      OBVIOUS
    <3>2. left - 1 \in 0 .. Gap /\ ~(left <= left - 1)
      BY <1>1, <1>5, <2>1
    <3>3. left - 1 \notin L
      BY <1>4, <3>2
    <3>4. e[<<i + 1, left - 1>>] = FirstOnes(ahead, i + 1, left - 1)
      BY <3>2, <3>3
    <3>5. FirstOnes(ahead, i, left) = {i} \cup FirstOnes(ahead, i + 1, left - 1)
      BY <1>5, <2>1, <3>1, FirstOnesSteps
    <3>6. QED BY <1>6, <1>7, <2>1, <3>1, <3>4, <3>5
  <2>3. FirstOnes(ahead, i, left) = FirstOnes(ahead, i + 1, left)
    BY <1>5, <2>2, FirstOnesSteps
  <2>4. QED BY <1>6, <1>7, <2>1, <2>2, <2>3
<1> DEFINE T == {d \in Nat : \E i \in Nat : d = MaxIndex - i /\ Wrong(left, i)}
<1>8. \A i \in Nat : Wrong(left, i) => MaxIndex - i \in Nat
  <2> SUFFICES ASSUME NEW i \in Nat, Wrong(left, i) PROVE MaxIndex - i \in Nat
    OBVIOUS
  <2>1. i \in Index
    BY <1>7
  <2>2. QED BY <1>1, <2>1 DEF Index
<1>9. T # {}
  <2>1. PICK i \in Nat : Wrong(left, i)
    OBVIOUS
  <2>2. QED BY <1>8, <2>1
<1>10. PICK d \in T : \A x \in T : d <= x
  <2>1. T \subseteq Nat
    OBVIOUS
  <2> HIDE DEF T
  <2>2. QED BY <1>9, <2>1, LeastElement
<1>11. PICK i \in Nat : d = MaxIndex - i /\ Wrong(left, i)
  OBVIOUS
<1>12. i + 1 \in Nat /\ Wrong(left, i + 1)
  BY <1>7, <1>11
<1>13. MaxIndex - (i + 1) \in T
  BY <1>8, <1>12
<1>14. ~(d <= MaxIndex - (i + 1))
  BY <1>1, <1>11
<1>15. QED BY <1>10, <1>13, <1>14

\* watcher.ts: the lookahead is what the loop emits, and it lies within the
\* horizon.
LEMMA WindowIsLoop ==
  ASSUME NEW r \in SenderRecord
  PROVE  WatchWindow(r) = WindowLoop(r)
<1> DEFINE i == r.nextIndex
           ahead == r.usedAhead
<1>1. /\ Gap \in Nat /\ MaxIndex \in Nat /\ Horizon = MaxIndex + Gap
      /\ i \in Nat /\ i <= MaxIndex + 1 /\ ahead \in SUBSET Index
  BY RecordFields, RegistryAssumption DEF Horizon
<1>2. WindowLoop(r) = FirstOnes(ahead, i, Gap)
  <2>1. Gap \in 0 .. Gap
    BY <1>1
  <2>2. Emit(ahead)[<<i, Gap>>] = FirstOnes(ahead, i, Gap)
    BY <1>1, <2>1, LoopEmits, EmitsFirstOnes
  <2>3. QED BY <2>2 DEF WindowLoop
<1>3. WatchWindow(r) = {j \in i .. Horizon : j \notin ahead /\ Cardinality(Spanned(ahead, i, j)) <= Gap}
  BY DEF WatchWindow, Unused, Spanned
<1> HIDE DEF i, ahead
<1>4. ASSUME NEW j \in FirstOnes(ahead, i, Gap) PROVE j <= Horizon
  <2>1. j \in Nat /\ i <= j /\ Cardinality(Spanned(ahead, i, j)) <= Gap
    BY DEF FirstOnes
  <2>2. SUFFICES ASSUME ~(j <= Horizon) PROVE FALSE
    OBVIOUS
  <2>3. (MaxIndex + 1) .. j \in SUBSET Spanned(ahead, i, j)
    BY <1>1, <2>1, <2>2 DEF Spanned, Index
  <2>4. IsFiniteSet(Spanned(ahead, i, j)) /\ Cardinality(Spanned(ahead, i, j)) \in Nat
    BY <1>1, <2>1, SpannedSteps
  <2>5. Cardinality((MaxIndex + 1) .. j) <= Cardinality(Spanned(ahead, i, j))
    BY <2>3, <2>4, FS_Subset
  <2>6. Cardinality((MaxIndex + 1) .. j) = j - (MaxIndex + 1) + 1
    <3>1. MaxIndex + 1 \in Int /\ j \in Int /\ MaxIndex + 1 <= j
      BY <1>1, <2>1, <2>2
    <3>2. QED BY <3>1, FS_Interval
  <2>7. QED BY <1>1, <2>1, <2>2, <2>4, <2>5, <2>6
<1>5. FirstOnes(ahead, i, Gap) = {j \in i .. Horizon : j \notin ahead /\ Cardinality(Spanned(ahead, i, j)) <= Gap}
  <2>1. \A j \in i .. Horizon : j \in Nat /\ i <= j
    BY <1>1
  <2>2. \A j \in FirstOnes(ahead, i, Gap) : j \in i .. Horizon
    BY <1>1, <1>4 DEF FirstOnes
  <2>3. QED BY <2>1, <2>2 DEF FirstOnes
<1>6. QED BY <1>2, <1>3, <1>5

\* watcher.ts: at every point of a pass the lookahead is what the loop emits,
\* also for a customer who has paid out of order.
THEOREM LoopEmitsTheWindow == Spec => []WindowIsLookahead
<1>1. CreditsInv => WindowIsLookahead
  BY WindowIsLoop DEF CreditsInv, IsNormal, WindowIsLookahead
<1>2. QED BY <1>1, CreditsKeep, PTL

-----------------------------------------------------------------------------
(* The entries of an inbox.                                                *)

\* Two secrets with a key in common are one if the other keys are.
LEMMA SecretsAgree ==
  ASSUME NEW ours, NEW to, NEW me
  PROVE  {ours, to} = {me, ours} <=> to = me
OBVIOUS

\* samourai.ts: a Samourai entry opens for the one it was sealed to, and names
\* the one who sealed it.
LEMMA SamouraiOpens ==
  ASSUME NEW sender, NEW to, NEW me, NEW form, NEW text
  PROVE  /\ OpenSamourai(me, Seal(form, sender, to, text)) = IF form = "samourai" /\ to = me THEN {sender} ELSE {}
         /\ OpenSamourai(me, Damaged(Seal(form, sender, to, text))) = {}
<1> DEFINE entry == Seal(form, sender, to, text)
<1>1. form = "samourai" => /\ entry.sender = sender
                           /\ entry.secret = {sender, to}
  BY DEF Seal
<1>2. entry.form = form /\ entry.intact = TRUE
  BY DEF Seal
<1>3. Damaged(entry).intact = FALSE
  BY DEF Damaged, Seal
<1> HIDE DEF entry
<1>4. form = "samourai" => (entry.secret = {me, entry.sender} <=> to = me)
  BY <1>1, SecretsAgree
<1>5. OpenSamourai(me, entry) = IF form = "samourai" /\ to = me THEN {sender} ELSE {}
  BY <1>1, <1>2, <1>4 DEF OpenSamourai
<1>6. OpenSamourai(me, Damaged(entry)) = {}
  BY <1>3 DEF OpenSamourai
<1>7. QED BY <1>5, <1>6 DEF entry

\* channel.ts: a sealed box opens for the one it was sealed to.
LEMMA SealedOpens ==
  ASSUME NEW sender, NEW to, NEW me, NEW form, NEW text
  PROVE  /\ OpenWithIdentityKey(me, Seal(form, sender, to, text)) = IF form = "sealed" /\ to = me THEN {text} ELSE {}
         /\ OpenWithIdentityKey(me, Damaged(Seal(form, sender, to, text))) = {}
<1> DEFINE entry == Seal(form, sender, to, text)
<1>1. form = "sealed" => /\ entry.sender = Ephemeral
                         /\ entry.secret = {Ephemeral, to}
  BY DEF Seal
<1>2. entry.form = form /\ entry.intact = TRUE /\ entry.text = text
  BY DEF Seal
<1>3. Damaged(entry).intact = FALSE
  BY DEF Damaged, Seal
<1> HIDE DEF entry
<1>4. form = "sealed" => (entry.secret = {me, entry.sender} <=> to = me)
  BY <1>1, SecretsAgree
<1>5. OpenWithIdentityKey(me, entry) = IF form = "sealed" /\ to = me THEN {text} ELSE {}
  BY <1>1, <1>2, <1>4 DEF OpenWithIdentityKey
<1>6. OpenWithIdentityKey(me, Damaged(entry)) = {}
  BY <1>3 DEF OpenWithIdentityKey
<1>7. QED BY <1>5, <1>6 DEF entry

\* register.ts: an envelope is good for the receiver it names, if it is of the
\* second version and neither too old nor too far ahead.
LEMMA EnvelopeVerifies ==
  ASSUME NEW sender, NEW named, NEW me, NEW ts \in Times, NEW now \in Times, NEW version \in {1, 2}
  PROVE  VerifyRegisterEnvelope(BuildRegisterEnvelope(sender, named, ts, version), me, now) =
           IF named = me /\ version = 2 /\ (IF now >= ts THEN now - ts ELSE ts - now) <= MaxSkew
           THEN {sender} ELSE {}
<1> DEFINE env == BuildRegisterEnvelope(sender, named, ts, version)
<1>1. /\ env.v = version /\ env.type = "paynym.register" /\ env.paymentCode = sender /\ env.ts = ts
      /\ env.sig = [by |-> sender, receiver |-> IF version = 1 THEN Ephemeral ELSE named, sender |-> sender, ts |-> ts]
  BY DEF BuildRegisterEnvelope
<1>2. Fresh(ts, now) <=> (IF now >= ts THEN now - ts ELSE ts - now) <= MaxSkew
  BY WireAssumption DEF Fresh, Times
<1>3. version = 2 => (env.sig = [by |-> sender, receiver |-> me, sender |-> sender, ts |-> ts] <=> named = me)
  BY <1>1
<1> HIDE DEF env
<1>4. QED BY <1>1, <1>2, <1>3 DEF VerifyRegisterEnvelope, env

\* register.ts:36-39, 404-416: an entry is taken exactly when a client sealed it
\* for us, naming us, and in time where the form carries one.
LEMMA IngestIsExact == IngestExact
<1> SUFFICES ASSUME NEW sender \in Parties, NEW named \in Parties, NEW to \in Parties, NEW me \in Parties,
                    NEW form \in {"sealed", "samourai"}, NEW ts \in Times, NEW now \in Times, NEW version \in {1, 2}
             PROVE  LET entry == Seal(form, sender, to, BuildRegisterEnvelope(sender, named, ts, version))
                        fresh == named = me /\ version = 2 /\ (IF now >= ts THEN now - ts ELSE ts - now) <= MaxSkew
                    IN  /\ Ingest(me, entry, now) = (IF to = me /\ (form = "samourai" \/ fresh) THEN {sender} ELSE {})
                        /\ Ingest(me, Damaged(entry), now) = {}
                        /\ InboxName(to, form) \in Inboxes(me) <=> to = me
  BY DEF IngestExact
<1> DEFINE env == BuildRegisterEnvelope(sender, named, ts, version)
           entry == Seal(form, sender, to, env)
           fresh == named = me /\ version = 2 /\ (IF now >= ts THEN now - ts ELSE ts - now) <= MaxSkew
<1>1. VerifyRegisterEnvelope(env, me, now) = IF fresh THEN {sender} ELSE {}
  BY EnvelopeVerifies
<1> HIDE DEF env, fresh
<1>2. /\ OpenSamourai(me, entry) = IF form = "samourai" /\ to = me THEN {sender} ELSE {}
      /\ OpenSamourai(me, Damaged(entry)) = {}
  BY SamouraiOpens
<1>3. /\ OpenWithIdentityKey(me, entry) = IF form = "sealed" /\ to = me THEN {env} ELSE {}
      /\ OpenWithIdentityKey(me, Damaged(entry)) = {}
  BY SealedOpens
<1>4. InboxName(to, form) \in Inboxes(me) <=> to = me
  BY DEF InboxName, Inboxes
<1> HIDE DEF entry
<1>5. Ingest(me, Damaged(entry), now) = {}
  BY <1>2, <1>3 DEF Ingest
<1>6. Ingest(me, entry, now) = IF to = me /\ (form = "samourai" \/ fresh) THEN {sender} ELSE {}
  <2>1. CASE form = "samourai" /\ to = me
    BY <1>2, <2>1 DEF Ingest
  <2>2. CASE form = "sealed" /\ to = me
    <3>1. Ingest(me, entry, now) = VerifyRegisterEnvelope(env, me, now)
      BY <1>2, <1>3, <2>2 DEF Ingest
    <3>2. QED BY <1>1, <2>2, <3>1
  <2>3. CASE to # me
    BY <1>2, <1>3, <2>3 DEF Ingest
  <2>4. QED BY <2>1, <2>2, <2>3
<1>7. QED BY <1>4, <1>5, <1>6 DEF env, entry, fresh

\* register.ts:36-39, 404-416: for any parties, any skew and any times.
THEOREM EntryTakenAsSealed == AllSpec => []TakenAsSealed
<1>1. TakenAsSealed
  BY IngestIsExact DEF TakenAsSealed
<1>2. QED BY <1>1, PTL

-----------------------------------------------------------------------------
(* The binding of a challenge.                                             *)

Networks == {"bitcoin", "testnet"}

\* What the key of a host is made of.
LEMMA HostKeyFields ==
  ASSUME NEW host \in Spelled
  PROVE  /\ HostKey(host) \in Spelled
         /\ HostKey(host).name = host.name
         /\ HostKey(host).capitals = FALSE
         /\ HostKey(host).port = IF host.port = "80" THEN "none" ELSE host.port
BY DEF HostKey, Spelled

\* server.ts:74-77: two spellings have one key exactly when they name one host.
LEMMA KeyNamesHost ==
  ASSUME NEW a \in Spelled, NEW b \in Spelled
  PROVE  HostKey(a) = HostKey(b) <=> NameOneHost(a, b)
<1>1. /\ a.port \in {"none", "80", "8480"} /\ b.port \in {"none", "80", "8480"}
  BY DEF Spelled
<1>2. "none" # "80" /\ "none" # "8480" /\ "80" # "8480"
  OBVIOUS
<1>3. HostKey(a) = HostKey(b) <=> HostKey(a).name = HostKey(b).name /\ HostKey(a).port = HostKey(b).port
  <2>1. ASSUME HostKey(a).name = HostKey(b).name, HostKey(a).port = HostKey(b).port PROVE HostKey(a) = HostKey(b)
    <3> DEFINE key(h) == [name |-> HostKey(h).name, capitals |-> FALSE, port |-> HostKey(h).port]
    <3>1. \A h \in Spelled : h = [name |-> h.name, capitals |-> h.capitals, port |-> h.port]
      BY DEF Spelled
    <3>2. HostKey(a) \in Spelled /\ HostKey(b) \in Spelled /\ HostKey(a).capitals = FALSE /\ HostKey(b).capitals = FALSE
      BY HostKeyFields
    <3>3. HostKey(a) = key(a) /\ HostKey(b) = key(b)
      BY <3>1, <3>2
    <3>4. key(a) = key(b)
      BY <2>1
    <3> HIDE DEF key
    <3>5. QED BY <3>3, <3>4
  <2>2. QED BY <2>1
<1>4. HostKey(a).port = HostKey(b).port <=> (a.port = b.port \/ {a.port, b.port} = {"none", "80"})
  <2> DEFINE p == a.port
             q == b.port
  <2>1. HostKey(a).port = HostKey(b).port
          <=> (IF p = "80" THEN "none" ELSE p) = (IF q = "80" THEN "none" ELSE q)
    BY HostKeyFields
  <2>2. p \in {"none", "80", "8480"} /\ q \in {"none", "80", "8480"}
    BY <1>1
  <2> HIDE DEF p, q
  <2>3. (IF p = "80" THEN "none" ELSE p) = (IF q = "80" THEN "none" ELSE q)
          <=> (p = q \/ {p, q} = {"none", "80"})
    BY <1>2, <2>2
  <2>4. QED BY <2>1, <2>3 DEF p, q
<1>5. QED BY <1>3, <1>4, HostKeyFields DEF NameOneHost

\* The key of a key is the key.
LEMMA HostKeyTwice ==
  ASSUME NEW host \in Spelled
  PROVE  HostKey(HostKey(host)) = HostKey(host)
<1>1. HostKey(host) \in Spelled
  BY HostKeyFields
<1>2. NameOneHost(HostKey(host), host)
  BY HostKeyFields DEF NameOneHost, Spelled
<1>3. QED BY <1>1, <1>2, KeyNamesHost

\* auth47.ts:52-59: whichever network the wallet signs from, its proof gives the
\* code it names.
LEMMA ProofVerifies ==
  ASSUME NEW origin, NEW code, NEW network \in Networks, NEW named \in BOOLEAN
  PROVE  /\ VerifyProof(Proof(Challenge(origin, 1), code, network, named)) = IF named THEN {code} ELSE {}
         /\ Proof(Challenge(origin, 1), code, network, named).challenge.r = origin
<1> DEFINE proof == Proof(Challenge(origin, 1), code, network, named)
<1>1. /\ proof.challenge.c = <<>> /\ proof.challenge.r = origin
      /\ proof.by = NotificationAddressOf(code, network) /\ proof.nym = IF named THEN {code} ELSE {}
  BY DEF Proof, Challenge, SignedForm
<1> HIDE DEF proof
<1>2. NotificationAddressOf(code, network) \in NotificationAddresses(code)
  BY DEF NotificationAddresses, Networks
<1>3. VerifyProof(proof) = IF named THEN {code} ELSE {}
  BY <1>1, <1>2 DEF VerifyProof
<1>4. QED BY <1>1, <1>3 DEF proof

\* server.ts:183-187, 308-309: whom the callback authenticates by a challenge
\* for an origin.
LEMMA OriginDecides ==
  ASSUME NEW published \in Spelled, NEW posted \in Spelled, NEW origin \in Spelled,
         NEW code, NEW network \in Networks, NEW named \in BOOLEAN
  PROVE  Authenticates(published, posted, Proof(Challenge(origin, 1), code, network, named))
           = IF NameOneHost(posted, published) /\ NameOneHost(origin, published) /\ named THEN {code} ELSE {}
<1> DEFINE proof == Proof(Challenge(origin, 1), code, network, named)
           host == HostKey(published)
<1>1. proof.challenge.r = origin /\ VerifyProof(proof) = IF named THEN {code} ELSE {}
  BY ProofVerifies, Zenon
<1>2. OriginOf(published, posted) = IF NameOneHost(posted, published) THEN {host} ELSE {}
  BY KeyNamesHost DEF OriginOf
<1>3. SameResource(origin, host) <=> NameOneHost(origin, published)
  BY KeyNamesHost, HostKeyTwice DEF SameResource
<1> HIDE DEF proof, host
<1>4. CASE ~NameOneHost(posted, published)
  BY <1>2, <1>4 DEF Authenticates, proof
<1>5. CASE NameOneHost(posted, published)
  <2>1. Authenticates(published, posted, proof) = IF SameResource(origin, host) THEN VerifyProof(proof) ELSE {}
    <3> DEFINE Who(o) == IF SameResource(origin, o) THEN VerifyProof(proof) ELSE {}
    <3>1. Authenticates(published, posted, proof) = UNION {Who(o) : o \in {host}}
      BY <1>1, <1>2, <1>5 DEF Authenticates
    <3>2. UNION {Who(o) : o \in {host}} = Who(host)
      <4> HIDE DEF Who
      <4>1. QED OBVIOUS
    <3>3. QED BY <3>1, <3>2
  <2>2. Authenticates(published, posted, proof) = IF NameOneHost(origin, published) /\ named THEN {code} ELSE {}
    BY <1>1, <1>3, <2>1, Zenon
  <2>3. QED BY <1>5, <2>2, Zenon DEF proof
<1>6. QED BY <1>4, <1>5

\* server.ts:74-77, 183-187, 308-309: however the hosts are spelled.
LEMMA ChallengeAlwaysComesBack == ChallengeComesBack
<1> SUFFICES ASSUME NEW published \in Spelled, NEW asked \in Spelled, NEW posted \in Spelled, NEW elsewhere \in Spelled
             PROVE  LET issued == {Challenge(origin, 1) : origin \in OriginOf(published, asked)}
                    IN  /\ issued # {} <=> NameOneHost(asked, published)
                        /\ \A code \in PaymentCodes, network \in {"bitcoin", "testnet"}, named \in BOOLEAN :
                             /\ \A uri \in issued :
                                  Authenticates(published, posted, Proof(uri, code, network, named))
                                    = IF NameOneHost(posted, published) /\ named THEN {code} ELSE {}
                             /\ ~NameOneHost(elsewhere, published) =>
                                  \A uri \in {Challenge(origin, 1) : origin \in OriginOf(elsewhere, elsewhere)} :
                                    Authenticates(published, posted, Proof(uri, code, network, named)) = {}
  BY DEF ChallengeComesBack
<1>1. OriginOf(published, asked) = IF NameOneHost(asked, published) THEN {HostKey(published)} ELSE {}
  BY KeyNamesHost DEF OriginOf
<1>2. OriginOf(elsewhere, elsewhere) = {HostKey(elsewhere)}
  BY DEF OriginOf
<1>3. /\ HostKey(published) \in Spelled /\ NameOneHost(HostKey(published), published)
      /\ HostKey(elsewhere) \in Spelled
      /\ NameOneHost(HostKey(elsewhere), published) => NameOneHost(elsewhere, published)
  BY HostKeyFields, HostKeyTwice, KeyNamesHost
<1>4. ASSUME NEW code \in PaymentCodes, NEW network \in {"bitcoin", "testnet"}, NEW named \in BOOLEAN
      PROVE  /\ Authenticates(published, posted, Proof(Challenge(HostKey(published), 1), code, network, named))
                  = IF NameOneHost(posted, published) /\ named THEN {code} ELSE {}
             /\ ~NameOneHost(elsewhere, published) =>
                  Authenticates(published, posted, Proof(Challenge(HostKey(elsewhere), 1), code, network, named)) = {}
  BY <1>3, OriginDecides DEF Networks
<1>5. QED BY <1>1, <1>2, <1>4

\* server.ts:74-77, auth47.ts:52-59: for any hosts and any payment codes.
THEOREM LoginHoweverSpelled == AllSpec => []LoginAnySpelling
<1>1. LoginAnySpelling
  BY ChallengeAlwaysComesBack DEF LoginAnySpelling
<1>2. QED BY <1>1, PTL

-----------------------------------------------------------------------------
(* The derivation of addresses.                                            *)

\* A multiple of the base is the scalar, and either of two scalars may be
\* applied first.
LEMMA MultiplyFacts ==
  /\ \A a \in 0 .. Order - 1 : Multiply(Base, a) = a
  /\ \A a \in Nat, b \in Nat : Multiply(a, b) = Multiply(b, a)
  /\ \A a \in Nat : a % Order \in 0 .. Order - 1
<1>1. Order \in Nat /\ Order > 2
  BY KeysAssumption
<1>2. \A a \in 0 .. Order - 1 : (1 * a) % Order = a
  BY <1>1
<1>3. ASSUME NEW a \in Nat, NEW b \in Nat PROVE Multiply(a, b) = Multiply(b, a)
  <2>1. a * b = b * a
    OBVIOUS
  <2>2. QED BY <2>1 DEF Multiply
<1>4. \A a \in Nat : a % Order \in 0 .. Order - 1
  BY <1>1
<1>5. QED BY <1>2, <1>3, <1>4 DEF Multiply, Base

\* bip47.ts: what is sent to, for scalars.
LEMMA OneAddress ==
  ASSUME NEW receiver \in Wallets, NEW sender \in Wallets, NEW i \in Children, sender.network = receiver.network
  PROVE  SendAddress(sender, PaymentCode(receiver), i) = ReceiveAddress(receiver, PaymentCode(sender), i)
<1> DEFINE b == receiver.prv[i]
           a == sender.prv[0]
<1>1. Order \in Nat /\ 0 \in Children
  BY KeysAssumption
<1>2. a \in 0 .. Order - 1 /\ b \in 0 .. Order - 1 /\ a \in Nat /\ b \in Nat
  BY <1>1 DEF Wallets
<1>3. PaymentCode(receiver).child[i] = Multiply(Base, b) /\ PaymentCode(sender).child[0] = Multiply(Base, a)
  BY <1>1 DEF PaymentCode
<1>4. Advertised(sender, PaymentCode(receiver)) = receiver.type
  BY DEF Advertised, PaymentCode, Wallets, Encodings
<1> HIDE DEF a, b
<1>5. Multiply(Base, a) = a /\ Multiply(Base, b) = b /\ Multiply(b, a) = Multiply(a, b)
  BY <1>2, MultiplyFacts
<1>6. SendAddress(sender, PaymentCode(receiver), i) = Tweaked(b, Multiply(b, a), receiver.type, sender.network)
  BY <1>3, <1>4, <1>5 DEF SendAddress, a, b
<1>7. ReceiveAddress(receiver, PaymentCode(sender), i) = Tweaked(b, Multiply(a, b), receiver.type, receiver.network)
  BY <1>3, <1>5 DEF ReceiveAddress, a, b
<1>8. QED BY <1>5, <1>6, <1>7

\* identity.ts: the key of an address spends it, and the indexer can be asked
\* about it.
LEMMA KeySpends ==
  ASSUME NEW receiver \in Wallets, NEW sender \in Wallets, NEW i \in Children,
         NEW address, address = ReceiveAddress(receiver, PaymentCode(sender), i), address # Throws
  PROVE  /\ Multiply(Base, ReceivePrivateKey(receiver, PaymentCode(sender), i)) = address.point
         /\ HashedScript(address, receiver.network) # <<>>
<1> DEFINE b == receiver.prv[i]
           shared == Multiply(PaymentCode(sender).child[0], b)
           s == Digest[XOf(shared)]
           key == (Multiply(Base, b) + Multiply(Base, s)) % Order
<1>1. Order \in Nat
  BY KeysAssumption
<1>2. b \in 0 .. Order - 1 /\ b \in Nat
  BY <1>1 DEF Wallets
<1>3. ReceivePrivateKey(receiver, PaymentCode(sender), i) = (b + s) % Order
  BY DEF ReceivePrivateKey
<1>4. ReceiveAddress(receiver, PaymentCode(sender), i) = Tweaked(Multiply(Base, b), shared, receiver.type, receiver.network)
  BY DEF ReceiveAddress
<1>5. Tweaked(Multiply(Base, b), shared, receiver.type, receiver.network)
        = IF s \notin 1 .. Order - 1 \/ key = 0 THEN Throws ELSE [type |-> receiver.type, point |-> key, network |-> receiver.network]
  BY DEF Tweaked
<1> HIDE DEF b, shared, s, key
<1>6. s \in 1 .. Order - 1 /\ address = [type |-> receiver.type, point |-> key, network |-> receiver.network]
  BY <1>4, <1>5
<1>7. s \in 0 .. Order - 1 /\ s \in Nat
  BY <1>1, <1>6
<1>8. key = (b + s) % Order
  BY <1>2, <1>7, MultiplyFacts DEF key
<1>9. (b + s) % Order \in 0 .. Order - 1
  BY <1>2, <1>7, MultiplyFacts
<1>10. Multiply(Base, (b + s) % Order) = (b + s) % Order
  BY <1>9, MultiplyFacts
<1>11. HashedScript(address, receiver.network) = <<receiver.type, key>>
  BY <1>6 DEF HashedScript
<1>12. address.point = key
  BY <1>6
<1>13. HashedScript(address, receiver.network) # <<>>
  BY <1>11
<1>14. Multiply(Base, ReceivePrivateKey(receiver, PaymentCode(sender), i)) = key
  BY <1>3, <1>8, <1>10
<1>15. QED BY <1>12, <1>13, <1>14

\* What the memo of a wallet may hold.
Entries(w, asked) == {<<call, ReceiveAddress(w, call[1], call[2])>> : call \in asked}

\* identity.ts: whatever it has dropped, the memo answers what a derivation
\* would, and goes on doing so.
LEMMA MemoAnswers ==
  ASSUME NEW w, NEW asked, NEW memo \in Seq(Entries(w, asked)), NEW call \in asked
  PROVE  /\ Memoised(w, memo, call).answer = ReceiveAddress(w, call[1], call[2])
         /\ Memoised(w, memo, call).memo \in Seq(Entries(w, asked))
<1> DEFINE hits == {k \in DOMAIN memo : memo[k][1] = call}
           address == ReceiveAddress(w, call[1], call[2])
           kept == IF Len(memo) >= CacheMax THEN Tail(memo) ELSE memo
<1>1. Memoised(w, memo, call) =
        IF hits # {} THEN [answer |-> memo[CHOOSE k \in hits : TRUE][2], memo |-> memo]
        ELSE IF address = Throws THEN [answer |-> Throws, memo |-> memo]
        ELSE [answer |-> address, memo |-> Append(kept, <<call, address>>)]
  BY DEF Memoised
<1>2. CASE hits # {}
  <2> DEFINE k == CHOOSE k \in hits : TRUE
  <2>1. k \in hits
    BY <1>2
  <2> HIDE DEF k
  <2>2. memo[k] \in Entries(w, asked) /\ memo[k][1] = call
    BY <2>1
  <2>3. memo[k][2] = address
    BY <2>2 DEF Entries
  <2>4. Memoised(w, memo, call) = [answer |-> memo[k][2], memo |-> memo]
    BY <1>1, <1>2 DEF k
  <2>5. QED BY <2>3, <2>4
<1>3. CASE hits = {} /\ address = Throws
  BY <1>1, <1>3
<1>4. CASE hits = {} /\ address # Throws
  <2>1. Memoised(w, memo, call) = [answer |-> address, memo |-> Append(kept, <<call, address>>)]
    BY <1>1, <1>4
  <2>2. <<call, address>> \in Entries(w, asked)
    BY DEF Entries
  <2>3. kept \in Seq(Entries(w, asked))
    <3>1. CASE memo = <<>>
      <4>1. Len(memo) = 0 /\ ~(0 >= CacheMax)
        BY <3>1, KeysAssumption
      <4>2. QED BY <4>1
    <3>2. CASE memo # <<>>
      BY <3>2, HeadTailProperties
    <3>3. QED BY <3>1, <3>2
  <2> HIDE DEF kept, address
  <2>4. Append(kept, <<call, address>>) \in Seq(Entries(w, asked))
    BY <2>2, <2>3, AppendProperties
  <2>5. QED BY <2>1, <2>4 DEF address
<1>5. QED BY <1>2, <1>3, <1>4

\* bip47.ts:224-227 and identity.ts.
LEMMA BothSidesAlwaysAgree == BothSidesAgree
<1>1. ASSUME NEW receiver \in Wallets, NEW sender \in Wallets, NEW i \in Children, sender.network = receiver.network
      PROVE  LET address == ReceiveAddress(receiver, PaymentCode(sender), i)
             IN  /\ SendAddress(sender, PaymentCode(receiver), i) = address
                 /\ address # Throws =>
                      /\ Multiply(Base, ReceivePrivateKey(receiver, PaymentCode(sender), i)) = address.point
                      /\ HashedScript(address, receiver.network) # <<>>
  BY <1>1, OneAddress, KeySpends
<1>2. ASSUME NEW w, NEW asked, NEW one \in asked, NEW two \in asked, NEW three \in asked
      PROVE  Memoised(w, Memoised(w, Memoised(w, <<>>, one).memo, two).memo, three).answer
               = ReceiveAddress(w, three[1], three[2])
  <2> DEFINE first == Memoised(w, <<>>, one).memo
             second == Memoised(w, first, two).memo
  <2>1. <<>> \in Seq(Entries(w, asked))
    OBVIOUS
  <2>2. first \in Seq(Entries(w, asked))
    BY <2>1, MemoAnswers
  <2> HIDE DEF first
  <2>3. second \in Seq(Entries(w, asked))
    BY <2>2, MemoAnswers
  <2> HIDE DEF second
  <2>4. Memoised(w, second, three).answer = ReceiveAddress(w, three[1], three[2])
    BY <2>3, MemoAnswers
  <2>5. QED BY <2>4 DEF first, second
<1>3. ASSUME NEW w \in Wallets
      PROVE  LET other == [w EXCEPT !.prv = [i \in Children |-> w.prv[0]]]
                 asked == {PaymentCode(w), PaymentCode(other)} \X Children
             IN  \A one \in asked, two \in asked, three \in asked :
                   Memoised(w, Memoised(w, Memoised(w, <<>>, one).memo, two).memo, three).answer
                     = ReceiveAddress(w, three[1], three[2])
  <2> DEFINE other == [w EXCEPT !.prv = [i \in Children |-> w.prv[0]]]
             asked == {PaymentCode(w), PaymentCode(other)} \X Children
  <2> HIDE DEF asked
  <2>1. \A one \in asked, two \in asked, three \in asked :
          Memoised(w, Memoised(w, Memoised(w, <<>>, one).memo, two).memo, three).answer
            = ReceiveAddress(w, three[1], three[2])
    BY <1>2
  <2>2. QED BY <2>1 DEF asked
<1>4. QED BY <1>1, <1>3, Zenon DEF BothSidesAgree

\* bip47.ts:224-227: for any group order, any child indices, any digest and a
\* memo of any size.
THEOREM PayerAndReceiverAgree == AllSpec => []DerivationAgrees
<1>1. DerivationAgrees
  BY BothSidesAlwaysAgree DEF DerivationAgrees
<1>2. QED BY <1>1, PTL

-----------------------------------------------------------------------------
(* The base-85 text of a payload.  A block stands for one number; its      *)
(* digits, and its bytes, are the remainders of what is left of it after   *)
(* each division by the base.  A short block is filled up with digits that *)
(* make the number larger by less than the bytes it has not got count.     *)

\* The bases, as numbers.
LEMMA Bases ==
  /\ ByteBase \in Nat \ {0} /\ DigitBase \in Nat \ {0} /\ ByteBase >= 2 /\ DigitBase >= 2 /\ ByteBase >= DigitBase
  /\ Filler \in 0 .. DigitBase - 1
BY Z85Assumption DEF Filler

\* A number is its quotient and its remainder, and no others.
LEMMA Division ==
  ASSUME NEW n \in Nat \ {0}, NEW a \in Nat
  PROVE  /\ a \div n \in Nat /\ a % n \in 0 .. n - 1 /\ a = n * (a \div n) + (a % n)
         /\ \A q \in Nat : \A r \in 0 .. n - 1 : a = n * q + r => a \div n = q /\ a % n = r
<1>1. a \div n \in Nat /\ a % n \in 0 .. n - 1 /\ a = n * (a \div n) + (a % n)
  OBVIOUS
<1>2. ASSUME NEW q \in Nat, NEW r \in 0 .. n - 1, a = n * q + r PROVE a \div n = q /\ a % n = r
  BY <1>2
<1>3. QED BY <1>1, <1>2

\* Dividing twice is dividing by the product.
LEMMA DivideTwice ==
  ASSUME NEW n \in Nat \ {0}, NEW m \in Nat \ {0}, NEW a \in Nat
  PROVE  (a \div n) \div m = a \div (n * m) /\ n * m \in Nat \ {0}
<1> DEFINE q == a \div n
           t == q \div m
<1>1. q \in Nat /\ a % n \in 0 .. n - 1 /\ a = n * q + (a % n)
  BY Division
<1> HIDE DEF q
<1>2. t \in Nat /\ q % m \in 0 .. m - 1 /\ q = m * t + (q % m)
  BY <1>1, Division
<1> HIDE DEF t
<1> DEFINE r == n * (q % m) + (a % n)
<1>3. n * m \in Nat \ {0}
  OBVIOUS
<1>4. r \in 0 .. n * m - 1
  <2> DEFINE u == q % m
  <2>1. u \in Nat /\ u <= m - 1
    BY <1>2
  <2> HIDE DEF u
  <2>2. n * u <= n * (m - 1) /\ n * (m - 1) = n * m - n
    BY <2>1
  <2>3. n * u \in Nat /\ n * m \in Nat
    BY <2>1
  <2>4. n * u + (a % n) \in 0 .. n * m - 1
    BY <2>2, <2>3, <1>1
  <2>5. QED BY <2>4 DEF u
<1>5. a = (n * m) * t + r
  <2> DEFINE u == q % m
  <2>1. u \in Nat /\ q = m * t + u
    BY <1>2
  <2> HIDE DEF u
  <2>2. n * (m * t + u) = (n * m) * t + n * u
    BY <2>1, <1>2
  <2>3. a = (n * m) * t + n * u + (a % n)
    BY <2>1, <2>2, <1>1, <1>2
  <2>4. QED BY <2>3, <2>1, <1>1, <1>2 DEF u
<1>6. a \div (n * m) = t
  <2> HIDE DEF r
  <2>1. QED BY <1>2, <1>3, <1>4, <1>5, Division
<1>7. QED BY <1>3, <1>6 DEF q, t

\* The quotients of a number that is put together item by item.
LEMMA Unshift ==
  ASSUME NEW base \in Nat \ {0}, NEW q \in Nat, NEW r \in 0 .. base - 1
  PROVE  /\ q * base + r \in Nat
         /\ (q * base + r) \div base = q /\ (q * base + r) % base = r
<1>1. q * base + r \in Nat /\ q * base + r = base * q + r
  OBVIOUS
<1> DEFINE a == q * base + r
<1>2. a \in Nat /\ a = base * q + r
  BY <1>1
<1> HIDE DEF a
<1>3. a \div base = q /\ a % base = r
  BY <1>2, Division
<1>4. QED BY <1>2, <1>3 DEF a

\* What the items of a block weigh, in five digits and in four bytes.
LEMMA WeightOf ==
  ASSUME NEW base \in Nat
  PROVE  /\ LET w == Weight(5, base)
            IN  /\ w[5] = 1 /\ w[4] = base /\ w[3] = base * base
                /\ w[2] = base * (base * base) /\ w[1] = base * (base * (base * base))
         /\ LET w == Weight(4, base)
            IN  w[4] = 1 /\ w[3] = base /\ w[2] = base * base /\ w[1] = base * (base * base)
<1> DEFINE g == [j \in 1 .. 5 |-> IF j = 5 THEN 1 ELSE IF j = 4 THEN base ELSE IF j = 3 THEN base * base
                                  ELSE IF j = 2 THEN base * (base * base) ELSE base * (base * (base * base))]
           h == [j \in 1 .. 4 |-> g[j + 1]]
           v == Weight(5, base)
           w == Weight(4, base)
<1>1. \A j \in 1 .. 5 : g[j] = IF j = 5 THEN 1 ELSE base * g[j + 1]
  <2>1. 1 .. 5 = {1, 2, 3, 4, 5}
    OBVIOUS
  <2>2. base * 1 = base
    OBVIOUS
  <2>3. /\ g[5] = 1 /\ g[4] = base * g[5] /\ g[3] = base * g[4]
        /\ g[2] = base * g[3] /\ g[1] = base * g[2]
    BY <2>2
  <2> HIDE DEF g
  <2>4. QED BY <2>1, <2>3
<1>2. \A j \in 1 .. 4 : h[j] = IF j = 4 THEN 1 ELSE base * h[j + 1]
  <2>1. \A j \in 1 .. 4 : j + 1 \in 1 .. 5 /\ (j + 1 = 5 <=> j = 4) /\ (j # 4 => j + 1 \in 1 .. 4)
    OBVIOUS
  <2> HIDE DEF g
  <2>2. QED BY <1>1, <2>1
<1>3. DOMAIN g = 1 .. 5 /\ DOMAIN h = 1 .. 4
  OBVIOUS
<1>4. g = [j \in 1 .. 5 |-> g[j]] /\ h = [j \in 1 .. 4 |-> h[j]]
  OBVIOUS
<1> HIDE DEF g, h
<1>5. g = [j \in 1 .. 5 |-> IF j = 5 THEN 1 ELSE base * g[j + 1]]
  BY <1>1, <1>4
<1>6. h = [j \in 1 .. 4 |-> IF j = 4 THEN 1 ELSE base * h[j + 1]]
  BY <1>2, <1>4
<1>7. v = [j \in 1 .. 5 |-> IF j = 5 THEN 1 ELSE base * v[j + 1]]
  BY <1>5, Zenon DEF Weight
<1>8. w = [j \in 1 .. 4 |-> IF j = 4 THEN 1 ELSE base * w[j + 1]]
  BY <1>6, Zenon DEF Weight
<1> HIDE DEF v, w
<1>9. v[5] = 1 /\ v[4] = base * v[5] /\ v[3] = base * v[4] /\ v[2] = base * v[3] /\ v[1] = base * v[2]
  BY <1>7
<1>10. w[4] = 1 /\ w[3] = base * w[4] /\ w[2] = base * w[3] /\ w[1] = base * w[2]
  BY <1>8
<1>11. base * 1 = base
  OBVIOUS
<1>12. QED BY <1>9, <1>10, <1>11 DEF v, w

\* The number the five items of a block stand for, one after the other.
LEMMA BlockOf5 ==
  ASSUME NEW s, NEW k, NEW base, NEW filler
  PROVE  LET e(j) == ItemAt(s, 5 * k + j, filler)
             v1 == 0 * base + e(1)
             v2 == v1 * base + e(2)
             v3 == v2 * base + e(3)
             v4 == v3 * base + e(4)
             v5 == v4 * base + e(5)
         IN  BlockValue(s, k, 5, base, filler) = v5
<1> DEFINE e(j) == ItemAt(s, 5 * k + j, filler)
           v1 == 0 * base + e(1)
           v2 == v1 * base + e(2)
           v3 == v2 * base + e(3)
           v4 == v3 * base + e(4)
           v5 == v4 * base + e(5)
           g == [j \in 0 .. 5 |-> IF j = 0 THEN 0 ELSE IF j = 1 THEN v1 ELSE IF j = 2 THEN v2 ELSE
                                  IF j = 3 THEN v3 ELSE IF j = 4 THEN v4 ELSE v5]
           c == CHOOSE v : v = [j \in 0 .. 5 |-> IF j = 0 THEN 0 ELSE v[j - 1] * base + e(j)]
<1>1. \A j \in 0 .. 5 : g[j] = IF j = 0 THEN 0 ELSE g[j - 1] * base + e(j)
  <2> HIDE DEF e
  <2>1. 0 .. 5 = {0, 1, 2, 3, 4, 5}
    OBVIOUS
  <2>2. /\ g[0] = 0 /\ g[1] = v1 /\ g[2] = v2 /\ g[3] = v3 /\ g[4] = v4 /\ g[5] = v5
    <3> HIDE DEF v1, v2, v3, v4, v5
    <3>1. QED OBVIOUS
  <2> HIDE DEF g
  <2>3. /\ g[0] = 0 /\ g[1] = g[0] * base + e(1) /\ g[2] = g[1] * base + e(2)
        /\ g[3] = g[2] * base + e(3) /\ g[4] = g[3] * base + e(4) /\ g[5] = g[4] * base + e(5)
    BY <2>2, Zenon
  <2> HIDE DEF v1, v2, v3, v4, v5
  <2>4. QED BY <2>1, <2>3
<1>2. g = [j \in 0 .. 5 |-> g[j]]
  OBVIOUS
<1> HIDE DEF g
<1>3. g = [j \in 0 .. 5 |-> IF j = 0 THEN 0 ELSE g[j - 1] * base + e(j)]
  BY <1>1, <1>2, Zenon
<1>4. c = [j \in 0 .. 5 |-> IF j = 0 THEN 0 ELSE c[j - 1] * base + e(j)]
  BY <1>3, Zenon
<1>5. BlockValue(s, k, 5, base, filler) = c[5]
  BY Zenon DEF BlockValue
<1> HIDE DEF c, e
<1>6. c[0] = 0 /\ c[1] = c[0] * base + e(1) /\ c[2] = c[1] * base + e(2)
      /\ c[3] = c[2] * base + e(3) /\ c[4] = c[3] * base + e(4) /\ c[5] = c[4] * base + e(5)
  BY <1>4
<1>7. c[5] = v5
  BY <1>6, Zenon
<1>8. QED BY <1>5, <1>7, Zenon DEF e

\* The number the four items of a block stand for, one after the other.
LEMMA BlockOf4 ==
  ASSUME NEW s, NEW k, NEW base, NEW filler
  PROVE  LET e(j) == ItemAt(s, 4 * k + j, filler)
             v1 == 0 * base + e(1)
             v2 == v1 * base + e(2)
             v3 == v2 * base + e(3)
             v4 == v3 * base + e(4)
         IN  BlockValue(s, k, 4, base, filler) = v4
<1> DEFINE e(j) == ItemAt(s, 4 * k + j, filler)
           v1 == 0 * base + e(1)
           v2 == v1 * base + e(2)
           v3 == v2 * base + e(3)
           v4 == v3 * base + e(4)
           g == [j \in 0 .. 4 |-> IF j = 0 THEN 0 ELSE IF j = 1 THEN v1 ELSE IF j = 2 THEN v2 ELSE
                                  IF j = 3 THEN v3 ELSE v4]
           c == CHOOSE v : v = [j \in 0 .. 4 |-> IF j = 0 THEN 0 ELSE v[j - 1] * base + e(j)]
<1>1. \A j \in 0 .. 4 : g[j] = IF j = 0 THEN 0 ELSE g[j - 1] * base + e(j)
  <2> HIDE DEF e
  <2>1. 0 .. 4 = {0, 1, 2, 3, 4}
    OBVIOUS
  <2>2. /\ g[0] = 0 /\ g[1] = v1 /\ g[2] = v2 /\ g[3] = v3 /\ g[4] = v4
    <3> HIDE DEF v1, v2, v3, v4
    <3>1. QED OBVIOUS
  <2> HIDE DEF g
  <2>3. /\ g[0] = 0 /\ g[1] = g[0] * base + e(1) /\ g[2] = g[1] * base + e(2)
        /\ g[3] = g[2] * base + e(3) /\ g[4] = g[3] * base + e(4)
    BY <2>2, Zenon
  <2> HIDE DEF v1, v2, v3, v4
  <2>4. QED BY <2>1, <2>3
<1>2. g = [j \in 0 .. 4 |-> g[j]]
  OBVIOUS
<1> HIDE DEF g
<1>3. g = [j \in 0 .. 4 |-> IF j = 0 THEN 0 ELSE g[j - 1] * base + e(j)]
  BY <1>1, <1>2, Zenon
<1>4. c = [j \in 0 .. 4 |-> IF j = 0 THEN 0 ELSE c[j - 1] * base + e(j)]
  BY <1>3, Zenon
<1>5. BlockValue(s, k, 4, base, filler) = c[4]
  BY Zenon DEF BlockValue
<1> HIDE DEF c, e
<1>6. c[0] = 0 /\ c[1] = c[0] * base + e(1) /\ c[2] = c[1] * base + e(2)
      /\ c[3] = c[2] * base + e(3) /\ c[4] = c[3] * base + e(4)
  BY <1>4
<1>7. c[4] = v4
  BY <1>6, Zenon
<1>8. QED BY <1>5, <1>7, Zenon DEF e

\* The quotients of a number by the weights, each from the one before.
LEMMA Quotients ==
  ASSUME NEW base \in Nat \ {0}, NEW value \in Nat
  PROVE  /\ LET q(j) == value \div Weight(5, base)[j]
            IN  /\ q(5) = value /\ q(4) = value \div base /\ q(3) = q(4) \div base
                /\ q(2) = q(3) \div base /\ q(1) = q(2) \div base
         /\ LET q(j) == value \div Weight(4, base)[j]
            IN  /\ q(4) = value /\ q(3) = value \div base /\ q(2) = q(3) \div base /\ q(1) = q(2) \div base
<1> DEFINE b2 == base * base
           b3 == base * b2
           b4 == base * b3
<1>1. b2 \in Nat \ {0} /\ b3 \in Nat \ {0} /\ b4 \in Nat \ {0}
  <2>1. b2 \in Nat \ {0}
    BY DivideTwice
  <2> HIDE DEF b2
  <2>2. b3 \in Nat \ {0}
    BY <2>1, DivideTwice
  <2> HIDE DEF b3
  <2>3. b4 \in Nat \ {0}
    BY <2>2, DivideTwice
  <2>4. QED BY <2>1, <2>2, <2>3
<1>2. b3 = b2 * base /\ b4 = b3 * base
  <2>1. b2 * base = base * b2 /\ b3 * base = base * b3
    <3> HIDE DEF b2
    <3>1. b2 \in Nat /\ b3 \in Nat
      BY <1>1
    <3> HIDE DEF b3
    <3>2. QED BY <1>1, <3>1
  <2>2. QED BY <2>1
<1>3. value \div 1 = value
  BY Division
<1>4. (value \div base) \div base = value \div b2
  BY DivideTwice
<1> HIDE DEF b2
<1>5. (value \div b2) \div base = value \div (b2 * base)
  BY <1>1, DivideTwice
<1>6. (value \div b2) \div base = value \div b3
  BY <1>5, <1>2
<1> HIDE DEF b3
<1>7. (value \div b3) \div base = value \div (b3 * base)
  BY <1>1, DivideTwice
<1>8. (value \div b3) \div base = value \div b4
  BY <1>7, <1>2
<1> HIDE DEF b4
<1>9. /\ Weight(5, base)[5] = 1 /\ Weight(5, base)[4] = base /\ Weight(5, base)[3] = b2
      /\ Weight(5, base)[2] = b3 /\ Weight(5, base)[1] = b4
  BY WeightOf, Zenon DEF b2, b3, b4
<1>10. /\ Weight(4, base)[4] = 1 /\ Weight(4, base)[3] = base /\ Weight(4, base)[2] = b2
       /\ Weight(4, base)[1] = b3
  BY WeightOf, Zenon DEF b2, b3, b4
<1>11. QED BY <1>3, <1>4, <1>6, <1>8, <1>9, <1>10, Zenon

\* Quotient and remainder put the number together again.
LEMMA Shift ==
  ASSUME NEW base \in Nat \ {0}, NEW value \in Nat
  PROVE  /\ value \div base \in Nat /\ value % base \in 0 .. base - 1
         /\ (value \div base) * base + (value % base) = value
<1> DEFINE q == value \div base
<1>1. q \in Nat /\ value % base \in 0 .. base - 1 /\ value = base * q + (value % base)
  BY Division
<1> HIDE DEF q
<1>2. base * q = q * base
  BY <1>1
<1>3. q * base + (value % base) = value
  BY <1>1, <1>2
<1>4. QED BY <1>1, <1>3 DEF q

\* The digits of a number that fits in five of them, first to last.
LEMMA FiveDigits ==
  ASSUME NEW base \in Nat \ {0}, NEW value \in Nat, value < base * (base * (base * (base * base)))
  PROVE  LET q(j) == value \div Weight(5, base)[j]
         IN  /\ \A j \in 1 .. 5 : q(j) \in Nat
             /\ 0 * base + (q(1) % base) = q(1)
             /\ q(1) * base + (q(2) % base) = q(2)
             /\ q(2) * base + (q(3) % base) = q(3)
             /\ q(3) * base + (q(4) % base) = q(4)
             /\ q(4) * base + (q(5) % base) = q(5)
             /\ q(5) = value
<1> DEFINE q(j) == value \div Weight(5, base)[j]
           top == base * (base * (base * base))
<1>1. /\ q(5) = value /\ q(4) = q(5) \div base /\ q(3) = q(4) \div base
      /\ q(2) = q(3) \div base /\ q(1) = q(2) \div base
  BY Quotients
<1>2. q(1) = value \div top
  BY WeightOf, Zenon
<1> HIDE DEF q
<1>3. q(5) \in Nat /\ q(4) \in Nat /\ q(3) \in Nat /\ q(2) \in Nat /\ q(1) \in Nat
  <2>1. q(5) \in Nat /\ q(4) \in Nat
    BY <1>1, Shift
  <2>2. q(3) \in Nat
    BY <1>1, <2>1, Shift
  <2>3. q(2) \in Nat
    BY <1>1, <2>2, Shift
  <2>4. q(1) \in Nat
    BY <1>1, <2>3, Shift
  <2>5. QED BY <2>1, <2>2, <2>3, <2>4
<1>4. /\ q(1) * base + (q(2) % base) = q(2) /\ q(2) * base + (q(3) % base) = q(3)
      /\ q(3) * base + (q(4) % base) = q(4) /\ q(4) * base + (q(5) % base) = q(5)
  BY <1>1, <1>3, Shift
<1>5. top \in Nat \ {0} /\ q(1) \div base = value \div (top * base)
  <2>1. base * base \in Nat \ {0}
    BY DivideTwice
  <2>2. base * (base * base) \in Nat \ {0}
    BY <2>1, DivideTwice
  <2>3. top \in Nat \ {0}
    BY <2>2, DivideTwice
  <2> HIDE DEF top
  <2>4. QED BY <2>3, <1>2, DivideTwice
<1>6. value < top * base
  <2>1. base * top = top * base
    <3> HIDE DEF top
    <3>1. QED BY <1>5
  <2>2. QED BY <2>1
<1>7. value \div (top * base) = 0
  <2> HIDE DEF top
  <2> DEFINE n == top * base
  <2>1. n \in Nat \ {0}
    BY <1>5, DivideTwice
  <2>2. value < n
    BY <1>6
  <2> HIDE DEF n
  <2>3. value \in 0 .. n - 1 /\ value = n * 0 + value
    BY <2>1, <2>2
  <2>4. value \div n = 0
    BY <2>1, <2>3, Division
  <2>5. QED BY <2>4 DEF n
<1>8. 0 * base + (q(1) % base) = q(1)
  BY <1>3, <1>5, <1>7, Shift
<1>9. \A j \in 1 .. 5 : q(j) \in Nat
  <2>1. 1 .. 5 = {1, 2, 3, 4, 5}
    OBVIOUS
  <2>2. QED BY <2>1, <1>3
<1>10. QED BY <1>1, <1>4, <1>8, <1>9 DEF q

\* The bytes of a block, found again in the number it stands for.
LEMMA FourBytes ==
  ASSUME NEW base \in Nat \ {0}, NEW b1 \in 0 .. base - 1, NEW b2 \in 0 .. base - 1,
         NEW b3 \in 0 .. base - 1, NEW b4 \in 0 .. base - 1
  PROVE  LET v1 == 0 * base + b1
             v2 == v1 * base + b2
             v3 == v2 * base + b3
             v4 == v3 * base + b4
             q(j) == v4 \div Weight(4, base)[j]
         IN  /\ v1 \in Nat /\ v2 \in Nat /\ v3 \in Nat /\ v4 \in Nat
             /\ q(4) = v4 /\ q(3) = v3 /\ q(2) = v2 /\ q(1) = v1
             /\ q(4) % base = b4 /\ q(3) % base = b3 /\ q(2) % base = b2 /\ q(1) % base = b1
             /\ v4 < base * base * base * base
<1> DEFINE v1 == 0 * base + b1
           v2 == v1 * base + b2
           v3 == v2 * base + b3
           v4 == v3 * base + b4
           q(j) == v4 \div Weight(4, base)[j]
<1>1. v1 \in Nat /\ v1 % base = b1 /\ v1 <= base - 1
  <2>1. v1 \in Nat /\ v1 % base = b1
    BY Unshift
  <2>2. QED BY <2>1
<1>2. v2 \in Nat /\ v2 % base = b2 /\ v2 \div base = v1 /\ v2 <= base * base - 1
  <2> HIDE DEF v1
  <2>1. v2 \in Nat /\ v2 % base = b2 /\ v2 \div base = v1
    BY <1>1, Unshift
  <2>2. v1 * base <= (base - 1) * base
    BY <1>1
  <2>3. QED BY <2>1, <2>2
<1> HIDE DEF v1
<1>3. v3 \in Nat /\ v3 % base = b3 /\ v3 \div base = v2 /\ v3 <= base * base * base - 1
  <2> HIDE DEF v2
  <2>1. v3 \in Nat /\ v3 % base = b3 /\ v3 \div base = v2
    BY <1>2, Unshift
  <2> DEFINE s == base * base
  <2>2. s \in Nat /\ v2 <= s - 1
    BY <1>2
  <2> HIDE DEF s
  <2>3. v2 * base <= (s - 1) * base
    BY <1>2, <2>2
  <2>4. v3 <= s * base - 1
    BY <1>2, <2>2, <2>3
  <2>5. QED BY <2>1, <2>4 DEF s
<1> HIDE DEF v2
<1>4. v4 \in Nat /\ v4 % base = b4 /\ v4 \div base = v3 /\ v4 <= base * base * base * base - 1
  <2> HIDE DEF v3
  <2>1. v4 \in Nat /\ v4 % base = b4 /\ v4 \div base = v3
    BY <1>3, Unshift
  <2> DEFINE s == base * base * base
  <2>2. s \in Nat /\ v3 <= s - 1
    BY <1>3
  <2> HIDE DEF s
  <2>3. v3 * base <= (s - 1) * base
    BY <1>3, <2>2
  <2>4. v4 <= s * base - 1
    BY <1>3, <2>2, <2>3
  <2>5. QED BY <2>1, <2>4 DEF s
<1> HIDE DEF v3
<1>5. v4 < base * base * base * base
  <2> DEFINE s == base * base * base * base
  <2>1. s \in Nat /\ v4 <= s - 1
    BY <1>4
  <2> HIDE DEF v4, s
  <2>2. v4 < s
    BY <1>4, <2>1
  <2>3. QED BY <2>2 DEF s
<1> HIDE DEF v4
<1>6. q(4) = v4 /\ q(3) = v4 \div base /\ q(2) = q(3) \div base /\ q(1) = q(2) \div base
  BY <1>4, Quotients
<1> HIDE DEF q
<1>7. q(4) = v4 /\ q(3) = v3 /\ q(2) = v2 /\ q(1) = v1
  BY <1>6, <1>2, <1>3, <1>4
<1>8. q(4) % base = b4 /\ q(3) % base = b3 /\ q(2) % base = b2 /\ q(1) % base = b1
  BY <1>7, <1>1, <1>2, <1>3, <1>4
<1>9. QED BY <1>1, <1>2, <1>3, <1>4, <1>5, <1>7, <1>8 DEF q, v1, v2, v3, v4

\* A number between a multiple and the next has its quotient.
LEMMA Between ==
  ASSUME NEW n \in Nat \ {0}, NEW u \in Nat, NEW w \in Nat, n * u <= w, w < n * u + n
  PROVE  w \div n = u
<1>1. n * u \in Nat
  OBVIOUS
<1> DEFINE r == w - n * u
<1>2. r \in 0 .. n - 1 /\ w = n * u + r
  BY <1>1
<1> HIDE DEF r
<1>3. QED BY <1>2, Division

\* The last digit replaced by the filler: no more than a byte is added.
LEMMA FilledOnce ==
  ASSUME NEW q \in Nat
  PROVE  LET w == (q \div DigitBase) * DigitBase + Filler IN w \in Nat /\ q <= w /\ w < q + ByteBase
<1> DEFINE t == q \div DigitBase
<1>1. t \in Nat /\ q % DigitBase \in 0 .. DigitBase - 1 /\ t * DigitBase + (q % DigitBase) = q
  BY Bases, Shift
<1> HIDE DEF t
<1>2. t * DigitBase \in Nat
  BY <1>1, Bases
<1>3. Filler = DigitBase - 1
  BY DEF Filler
<1>4. QED BY <1>1, <1>2, <1>3, Bases DEF t

\* A number that has grown by less than m, shifted by a digit: it has grown by
\* less than m bytes.
LEMMA FilledAgain ==
  ASSUME NEW q \in Nat, NEW m \in Nat \ {0}, NEW x \in Nat,
         q \div DigitBase <= x, x < (q \div DigitBase) + m
  PROVE  LET w == x * DigitBase + Filler IN w \in Nat /\ q <= w /\ w < q + m * ByteBase
<1> DEFINE t == q \div DigitBase
           w == x * DigitBase + Filler
<1>1. t \in Nat /\ q % DigitBase \in 0 .. DigitBase - 1 /\ t * DigitBase + (q % DigitBase) = q
  BY Bases, Shift
<1>2. t <= x /\ x <= t + (m - 1)
  BY <1>1
<1> HIDE DEF t
<1>3. Filler = DigitBase - 1 /\ DigitBase \in Nat /\ ByteBase \in Nat /\ DigitBase >= 2 /\ DigitBase <= ByteBase
  BY Bases DEF Filler
<1>4. t * DigitBase <= x * DigitBase /\ x * DigitBase <= (t + (m - 1)) * DigitBase
  BY <1>1, <1>2, <1>3
<1>5. (t + (m - 1)) * DigitBase = t * DigitBase + m * DigitBase - DigitBase
  BY <1>1, <1>3
<1>6. m * DigitBase <= m * ByteBase /\ m * DigitBase \in Nat /\ m * ByteBase \in Nat
  BY <1>3
<1>7. t * DigitBase \in Nat /\ x * DigitBase \in Nat
  BY <1>1, <1>3
<1>8. w \in Nat /\ q <= w /\ w < q + m * ByteBase
  BY <1>1, <1>3, <1>4, <1>5, <1>6, <1>7
<1>9. QED BY <1>8

\* A product is the same from both sides.
LEMMA Regrouped ==
  ASSUME NEW n \in Nat, NEW v \in Nat
  PROVE  v * n + 0 = n * v /\ (v * n + 0) * n + 0 = (n * n) * v
         /\ ((v * n + 0) * n + 0) * n + 0 = ((n * n) * n) * v
OBVIOUS

\* The numbers that four bytes and five digits stand for.
Quad(b) == (((0 * ByteBase + b[1]) * ByteBase + b[2]) * ByteBase + b[3]) * ByteBase + b[4]
Quint(e) ==
  ((((0 * DigitBase + e[1]) * DigitBase + e[2]) * DigitBase + e[3]) * DigitBase + e[4]) * DigitBase + e[5]

\* A block gives its bytes back: all four of them, or the first r if it is
\* short, for the digits that were dropped and are filled up again with the last
\* of the alphabet change the number by less than the missing bytes count.
LEMMA BlockBack ==
  ASSUME NEW b \in [1 .. 4 -> 0 .. ByteBase - 1], NEW e, NEW r \in 1 .. 4,
         \A j \in 1 .. 4 : j > r => b[j] = 0,
         NEW value, value = Quad(b),
         \A j \in 1 .. 5 : e[j] = IF j <= r + 1 THEN (value \div Weight(5, DigitBase)[j]) % DigitBase ELSE Filler,
         NEW back, back = Quint(e)
  PROVE  \A j \in 1 .. r : (back \div Weight(4, ByteBase)[j]) % ByteBase = b[j]
<1> DEFINE B == ByteBase
           D == DigitBase
           v1 == 0 * B + b[1]
           v2 == v1 * B + b[2]
           v3 == v2 * B + b[3]
           v4 == v3 * B + b[4]
           t(j) == v4 \div Weight(4, B)[j]
           q(j) == value \div Weight(5, D)[j]
           u(j) == value \div Weight(4, B)[j]
           w(j) == back \div Weight(4, B)[j]
           h1 == 0 * D + e[1]
           h2 == h1 * D + e[2]
           h3 == h2 * D + e[3]
           h4 == h3 * D + e[4]
<1>1. B \in Nat \ {0} /\ D \in Nat \ {0} /\ b[1] \in 0 .. B - 1 /\ b[2] \in 0 .. B - 1 /\ b[3] \in 0 .. B - 1
      /\ b[4] \in 0 .. B - 1
  BY Bases
<1>2. /\ value \in Nat /\ v1 \in Nat /\ v2 \in Nat /\ v3 \in Nat
      /\ u(4) = value /\ u(3) = v3 /\ u(2) = v2 /\ u(1) = v1
      /\ u(4) % B = b[4] /\ u(3) % B = b[3] /\ u(2) % B = b[2] /\ u(1) % B = b[1]
      /\ value < B * B * B * B
  <2>1. /\ v1 \in Nat /\ v2 \in Nat /\ v3 \in Nat /\ v4 \in Nat
        /\ t(4) = v4 /\ t(3) = v3 /\ t(2) = v2 /\ t(1) = v1
        /\ t(4) % B = b[4] /\ t(3) % B = b[3] /\ t(2) % B = b[2] /\ t(1) % B = b[1]
        /\ v4 < B * B * B * B
    BY <1>1, FourBytes, Zenon
  <2>2. value = v4
    BY Zenon DEF Quad
  <2> HIDE DEF v1, v2, v3, v4
  <2>3. QED BY <2>1, <2>2, Zenon
<1>3. value < D * (D * (D * (D * D)))
  <2> DEFINE s == B * B * B * B
             top == D * D * D * D * D
  <2>1. top >= s /\ top = D * (D * (D * (D * D))) /\ s \in Nat /\ top \in Nat
    BY Z85Assumption
  <2>2. value < s
    BY <1>2
  <2> HIDE DEF s, top
  <2>3. value < top
    BY <1>2, <2>1, <2>2
  <2>4. QED BY <2>1, <2>3
<1>4. /\ \A j \in 1 .. 5 : q(j) \in Nat
      /\ 0 * D + (q(1) % D) = q(1) /\ q(1) * D + (q(2) % D) = q(2) /\ q(2) * D + (q(3) % D) = q(3)
      /\ q(3) * D + (q(4) % D) = q(4) /\ q(4) * D + (q(5) % D) = q(5) /\ q(5) = value
  BY <1>1, <1>2, <1>3, FiveDigits, Zenon
<1>5. q(4) = value \div D /\ q(3) = q(4) \div D /\ q(2) = q(3) \div D /\ q(4) \in Nat /\ q(3) \in Nat /\ q(2) \in Nat
  BY <1>1, <1>2, <1>4, Quotients
<1>6. \A j \in 1 .. 5 : e[j] = IF j <= r + 1 THEN q(j) % D ELSE Filler
  OBVIOUS
<1>7. back = h4 * D + e[5]
  BY Zenon DEF Quint
<1> HIDE DEF q
<1>8. h1 = q(1) /\ h2 = q(2)
  BY <1>4, <1>6
<1>9. r >= 2 => h3 = q(3)
  BY <1>4, <1>6, <1>8
<1>10. r >= 3 => h4 = q(4)
  BY <1>4, <1>6, <1>9
<1>11. r = 4 => back = value
  BY <1>4, <1>6, <1>7, <1>10
<1>12. (r <= 3 => e[5] = Filler) /\ (r <= 2 => e[4] = Filler) /\ (r <= 1 => e[3] = Filler)
  BY <1>6
<1> HIDE DEF h1, h2
<1>13. back \in Nat => /\ w(4) = back /\ w(3) = back \div B /\ w(2) = back \div (B * B)
                       /\ w(1) = back \div ((B * B) * B)
  <2> SUFFICES ASSUME back \in Nat
               PROVE  w(4) = back /\ w(3) = back \div B /\ w(2) = back \div (B * B) /\ w(1) = back \div ((B * B) * B)
    OBVIOUS
  <2>1. w(4) = back /\ w(3) = back \div B /\ w(2) = w(3) \div B /\ w(1) = w(2) \div B
    BY <1>1, Quotients
  <2> DEFINE s == B * B
  <2>2. (back \div B) \div B = back \div s /\ s \in Nat \ {0}
    BY <1>1, DivideTwice
  <2> HIDE DEF s
  <2>3. (back \div s) \div B = back \div (s * B)
    BY <1>1, <2>2, DivideTwice
  <2>4. QED BY <2>1, <2>2, <2>3 DEF s
<1>14. /\ u(2) = u(3) \div B /\ u(1) = u(2) \div B
       /\ back \in Nat => w(2) = w(3) \div B /\ w(1) = w(2) \div B
  BY <1>1, <1>2, Quotients
<1>15. B * B \in Nat \ {0} /\ B * B * B \in Nat \ {0}
  <2>1. B * B \in Nat \ {0}
    BY <1>1, DivideTwice
  <2> DEFINE s == B * B
  <2> HIDE DEF s
  <2>2. s * B \in Nat \ {0}
    BY <1>1, <2>1, DivideTwice DEF s
  <2>3. QED BY <2>1, <2>2 DEF s
<1> HIDE DEF u, w, v1, v2, v3, v4, t
<1>16. CASE r = 4
  <2>1. back \in Nat /\ w(4) = u(4)
    BY <1>2, <1>11, <1>13, <1>16
  <2>2. w(3) = u(3) /\ w(2) = u(2) /\ w(1) = u(1)
    BY <1>1, <1>2, <1>11, <1>16, Zenon DEF u, w
  <2>3. 1 .. r = {1, 2, 3, 4}
    BY <1>16
  <2>4. \A j \in 1 .. r : w(j) % B = b[j]
    BY <2>1, <2>2, <2>3, <1>2
  <2>5. QED BY <2>4 DEF w
<1>17. CASE r = 3
  <2>1. h4 = q(4) /\ e[5] = Filler /\ b[4] = 0
    BY <1>10, <1>12, <1>17
  <2>2. back \in Nat /\ value <= back /\ back < value + B
    <3>1. back = (value \div D) * D + Filler
      BY <2>1, <1>5, <1>7
    <3>2. QED BY <3>1, <1>2, FilledOnce
  <2>3. value = B * v3
    <3>1. value = v3 * B + 0
      BY <2>1, Zenon DEF Quad, v3, v2, v1
    <3>2. QED BY <3>1, <1>1, <1>2, Regrouped, Zenon
  <2>4. back \div B = v3
    BY <2>2, <2>3, <1>1, <1>2, Between
  <2>5. w(3) = u(3) /\ w(2) = u(2) /\ w(1) = u(1)
    BY <2>2, <2>4, <1>2, <1>13, <1>14
  <2>6. 1 .. r = {1, 2, 3}
    BY <1>17
  <2>7. \A j \in 1 .. r : w(j) % B = b[j]
    BY <2>5, <2>6, <1>2
  <2>8. QED BY <2>7 DEF w
<1>18. CASE r = 2
  <2>1. h3 = q(3) /\ e[5] = Filler /\ e[4] = Filler /\ b[4] = 0 /\ b[3] = 0
    BY <1>9, <1>12, <1>18
  <2> HIDE DEF h3
  <2>2. h4 \in Nat /\ q(4) <= h4 /\ h4 < q(4) + B
    <3>1. h4 = (q(4) \div D) * D + Filler
      BY <2>1, <1>5
    <3>2. QED BY <3>1, <1>5, FilledOnce
  <2> HIDE DEF h4
  <2>3. back \in Nat /\ value <= back /\ back < value + B * B
    <3>1. back = h4 * D + Filler /\ value \div D <= h4 /\ h4 < (value \div D) + B
      BY <2>1, <2>2, <1>5, <1>7
    <3>2. h4 * D + Filler \in Nat /\ value <= h4 * D + Filler /\ h4 * D + Filler < value + B * B
      <4> HIDE DEF B
      <4>1. B \in Nat \ {0} /\ value \in Nat /\ h4 \in Nat /\ B = ByteBase /\ D = DigitBase
        BY <2>2, <1>1, <1>2 DEF B
      <4>2. h4 * DigitBase + Filler \in Nat /\ value <= h4 * DigitBase + Filler
            /\ h4 * DigitBase + Filler < value + B * ByteBase
        BY <3>1, <4>1, FilledAgain
      <4>3. QED BY <4>1, <4>2, Zenon
    <3>3. QED BY <3>1, <3>2, Zenon
  <2>4. value = (B * B) * v2
    <3>1. value = (v2 * B + 0) * B + 0
      BY <2>1, Zenon DEF Quad, v2, v1
    <3>2. QED BY <3>1, <1>1, <1>2, Regrouped, Zenon
  <2>5. back \div (B * B) = v2
    <3> DEFINE s == B * B
    <3>1. s \in Nat \ {0} /\ s * v2 <= back /\ back < s * v2 + s
      BY <2>3, <2>4, <1>15
    <3> HIDE DEF s
    <3>2. back \div s = v2
      BY <3>1, <2>3, <1>2, Between
    <3>3. QED BY <3>2 DEF s
  <2>6. w(2) = u(2) /\ w(1) = u(1)
    BY <2>3, <2>5, <1>2, <1>13, <1>14
  <2>7. 1 .. r = {1, 2}
    BY <1>18
  <2>8. \A j \in 1 .. r : w(j) % B = b[j]
    BY <2>6, <2>7, <1>2
  <2>9. QED BY <2>8 DEF w
<1>19. CASE r = 1
  <2>1. h2 = q(2) /\ e[5] = Filler /\ e[4] = Filler /\ e[3] = Filler /\ b[4] = 0 /\ b[3] = 0 /\ b[2] = 0
    BY <1>8, <1>12, <1>19
  <2>2. h3 \in Nat /\ q(3) <= h3 /\ h3 < q(3) + B
    <3>1. h3 = (q(3) \div D) * D + Filler
      BY <2>1, <1>5
    <3>2. QED BY <3>1, <1>5, FilledOnce
  <2> HIDE DEF h3
  <2>3. h4 \in Nat /\ q(4) <= h4 /\ h4 < q(4) + B * B
    <3>1. h4 = h3 * D + Filler /\ q(4) \div D <= h3 /\ h3 < (q(4) \div D) + B
      BY <2>1, <2>2, <1>5
    <3>2. QED BY <3>1, <2>2, <1>1, <1>5, FilledAgain
  <2> HIDE DEF h4
  <2>4. back \in Nat /\ value <= back /\ back < value + (B * B) * B
    <3> DEFINE s == B * B
    <3>1. s \in Nat \ {0} /\ back = h4 * D + Filler /\ value \div D <= h4 /\ h4 < (value \div D) + s
      BY <2>1, <2>3, <1>5, <1>7, <1>15
    <3> HIDE DEF s
    <3>2. back \in Nat /\ value <= back /\ back < value + s * B
      BY <3>1, <2>3, <1>2, FilledAgain
    <3>3. QED BY <3>2 DEF s
  <2>5. value = ((B * B) * B) * v1
    <3>1. value = ((v1 * B + 0) * B + 0) * B + 0
      BY <2>1, Zenon DEF Quad, v1
    <3>2. QED BY <3>1, <1>1, <1>2, Regrouped, Zenon
  <2>6. back \div ((B * B) * B) = v1
    <3> DEFINE s == (B * B) * B
    <3>1. s \in Nat \ {0} /\ s * v1 <= back /\ back < s * v1 + s
      BY <2>4, <2>5, <1>15
    <3> HIDE DEF s
    <3>2. back \div s = v1
      BY <3>1, <2>4, <1>2, Between
    <3>3. QED BY <3>2 DEF s
  <2>7. w(1) = u(1)
    BY <2>4, <2>6, <1>2, <1>13
  <2>8. 1 .. r = {1}
    BY <1>19
  <2>9. \A j \in 1 .. r : w(j) % B = b[j]
    BY <2>7, <2>8, <1>2
  <2>10. QED BY <2>9 DEF w
<1>20. QED BY <1>16, <1>17, <1>18, <1>19

\* Where item j of block k is, in blocks of four and of five.
LEMMA Places ==
  ASSUME NEW k \in Nat
  PROVE  /\ \A j \in 1 .. 4 : ((4 * k + j) - 1) \div 4 = k /\ 1 + (((4 * k + j) - 1) % 4) = j
         /\ \A j \in 1 .. 5 : ((5 * k + j) - 1) \div 5 = k /\ 1 + (((5 * k + j) - 1) % 5) = j
OBVIOUS

\* As many bytes as there are after the last full block, dropped digits as
\* there are bytes missing.
LEMMA Lengths ==
  ASSUME NEW n \in Nat
  PROVE  LET K == n \div 4
             r == n % 4
             m == ((n + Padding(n, 4)) \div 4) * 5 - Padding(n, 4)
         IN  /\ K \in Nat /\ r \in 0 .. 3 /\ n = 4 * K + r
             /\ m = (IF r = 0 THEN 5 * K ELSE 5 * K + r + 1) /\ m \in Nat
             /\ m \div 5 = K
             /\ ((m + Padding(m, 5)) \div 5) * 4 - Padding(m, 5) = n
<1> DEFINE K == n \div 4
           r == n % 4
           p == IF r = 0 THEN 0 ELSE 4 - r
           m == IF r = 0 THEN 5 * K ELSE 5 * K + r + 1
<1>1. K \in Nat /\ r \in 0 .. 3 /\ n = 4 * K + r
  OBVIOUS
<1>2. Padding(n, 4) = p
  BY DEF Padding
<1> HIDE DEF K, r
<1>3. ((n + p) \div 4) * 5 - p = m /\ m \in Nat
  BY <1>1
<1>4. m \div 5 = K /\ m % 5 = IF r = 0 THEN 0 ELSE r + 1
  BY <1>1
<1>5. Padding(m, 5) = p
  <2> HIDE DEF m
  <2>1. QED BY <1>1, <1>4 DEF Padding
<1>6. ((m + p) \div 5) * 4 - p = n
  BY <1>1
<1>7. QED
  <2> HIDE DEF m, p
  <2>1. QED BY <1>1, <1>2, <1>3, <1>4, <1>5, <1>6 DEF K, r, m

\* An item by its block and its place in the block.
LEMMA SpreadAt ==
  ASSUME NEW value, NEW base, NEW k \in Nat
  PROVE  /\ \A j \in 1 .. 4 : Spread(value, 4 * k + j, 4, base) = (value[k] \div Weight(4, base)[j]) % base
         /\ \A j \in 1 .. 5 : Spread(value, 5 * k + j, 5, base) = (value[k] \div Weight(5, base)[j]) % base
<1>1. ASSUME NEW n, NEW j, NEW i, (i - 1) \div n = k, 1 + ((i - 1) % n) = j
      PROVE  Spread(value, i, n, base) = (value[k] \div Weight(n, base)[j]) % base
  BY <1>1 DEF Spread
<1>2. ASSUME NEW j \in 1 .. 4 PROVE Spread(value, 4 * k + j, 4, base) = (value[k] \div Weight(4, base)[j]) % base
  <2> DEFINE i == 4 * k + j
  <2>1. (i - 1) \div 4 = k /\ 1 + ((i - 1) % 4) = j
    BY Places
  <2> HIDE DEF i
  <2>2. Spread(value, i, 4, base) = (value[k] \div Weight(4, base)[j]) % base
    BY <2>1, <1>1, Zenon
  <2>3. QED BY <2>2, Zenon DEF i
<1>3. ASSUME NEW j \in 1 .. 5 PROVE Spread(value, 5 * k + j, 5, base) = (value[k] \div Weight(5, base)[j]) % base
  <2> DEFINE i == 5 * k + j
  <2>1. (i - 1) \div 5 = k /\ 1 + ((i - 1) % 5) = j
    BY Places
  <2> HIDE DEF i
  <2>2. Spread(value, i, 5, base) = (value[k] \div Weight(5, base)[j]) % base
    BY <2>1, <1>1, Zenon
  <2>3. QED BY <2>2, Zenon DEF i
<1>4. QED BY <1>2, <1>3, Zenon

\* samourai.ts:48-92: whatever the bases, and however many bytes, the text of a
\* payload gives them back.
THEOREM TextGivesBack ==
  ASSUME NEW n \in Nat, NEW bytes \in [1 .. n -> 0 .. ByteBase - 1]
  PROVE  Z85Decode(Z85Encode(bytes)) = bytes
<1> DEFINE K == n \div 4
           r == n % 4
           m == ((n + Padding(n, 4)) \div 4) * 5 - Padding(n, 4)
           V == [k \in 0 .. K |-> BlockValue(bytes, k, 4, ByteBase, 0)]
           text == [i \in 1 .. m |-> Spread(V, i, 5, DigitBase)]
           W == [k \in 0 .. K |-> BlockValue(text, k, 5, DigitBase, Filler)]
           out == [i \in 1 .. n |-> Spread(W, i, 4, ByteBase)]
<1>1. /\ K \in Nat /\ r \in 0 .. 3 /\ n = 4 * K + r
      /\ m = (IF r = 0 THEN 5 * K ELSE 5 * K + r + 1) /\ m \in Nat
      /\ m \div 5 = K
      /\ ((m + Padding(m, 5)) \div 5) * 4 - Padding(m, 5) = n
  BY Lengths, Zenon
<1> HIDE DEF K, r, m
<1>2. Len(bytes) = n
  OBVIOUS
<1>3. Len(text) = m
  BY <1>1
<1>4. Z85Encode(bytes) = text
  BY <1>2, Zenon DEF Z85Encode, K, m
<1>5. Z85Decode(text) = out
  <2> HIDE DEF text
  <2>1. QED BY <1>1, <1>3, Zenon DEF Z85Decode
<1>6. ASSUME NEW k \in 0 .. K, NEW s \in 1 .. 4, s = IF k < K THEN 4 ELSE r
      PROVE  \A j \in 1 .. s : 4 * k + j \in 1 .. n /\ out[4 * k + j] = bytes[4 * k + j]
  <2> DEFINE b == [j \in 1 .. 4 |-> ItemAt(bytes, 4 * k + j, 0)]
             e == [j \in 1 .. 5 |-> ItemAt(text, 5 * k + j, Filler)]
  <2>1. k \in Nat /\ 0 \in 0 .. ByteBase - 1 /\ (k < K => 4 * k + 4 <= 4 * K /\ 5 * k + 5 <= 5 * K)
    BY <1>1, Bases
  <2>2. \A j \in 1 .. s : 4 * k + j \in 1 .. n
    BY <1>1, <1>6, <2>1
  <2>3. \A j \in 1 .. 4 : j > s => ~(4 * k + j <= n)
    BY <1>1, <1>6, <2>1
  <2>4. \A j \in 1 .. 5 : 5 * k + j \in Nat /\ 5 * k + j >= 1 /\ (5 * k + j <= m <=> j <= s + 1)
    BY <1>1, <1>6, <2>1
  <2>5. b \in [1 .. 4 -> 0 .. ByteBase - 1] /\ (\A j \in 1 .. s : b[j] = bytes[4 * k + j])
        /\ \A j \in 1 .. 4 : j > s => b[j] = 0
    <3>1. \A j \in 1 .. 4 : 4 * k + j <= n => 4 * k + j \in 1 .. n
      BY <1>1, <2>1
    <3>2. \A j \in 1 .. 4 : ItemAt(bytes, 4 * k + j, 0) = IF 4 * k + j <= n THEN bytes[4 * k + j] ELSE 0
      BY <1>2 DEF ItemAt
    <3>3. \A j \in 1 .. 4 : ItemAt(bytes, 4 * k + j, 0) \in 0 .. ByteBase - 1
      BY <2>1, <3>1, <3>2
    <3>4. \A j \in 1 .. s : j \in 1 .. 4 /\ 4 * k + j <= n
      <4> SUFFICES ASSUME NEW j \in 1 .. s PROVE j \in 1 .. 4 /\ 4 * k + j <= n
        BY Zenon
      <4>1. j \in 1 .. 4
        OBVIOUS
      <4>2. 4 * k + j \in 1 .. n
        BY <2>2
      <4> HIDE DEF V, text, W, out, b, e
      <4>3. QED BY <4>1, <4>2, <2>1
    <3>5. QED BY <2>3, <3>2, <3>3, <3>4
  <2>6. \A j \in 1 .. 5 : e[j] = IF j <= s + 1 THEN (V[k] \div Weight(5, DigitBase)[j]) % DigitBase ELSE Filler
    <3> SUFFICES ASSUME NEW j \in 1 .. 5
                 PROVE  e[j] = IF j <= s + 1 THEN (V[k] \div Weight(5, DigitBase)[j]) % DigitBase ELSE Filler
      BY Zenon
    <3>1. e[j] = IF 5 * k + j <= m THEN text[5 * k + j] ELSE Filler
      <4> HIDE DEF text
      <4>1. QED BY <1>3 DEF ItemAt
    <3>2. CASE j <= s + 1
      <4>1. 5 * k + j \in 1 .. m
        BY <1>1, <2>4, <3>2
      <4>2. text[5 * k + j] = Spread(V, 5 * k + j, 5, DigitBase)
        BY <4>1, Zenon
      <4>3. Spread(V, 5 * k + j, 5, DigitBase) = (V[k] \div Weight(5, DigitBase)[j]) % DigitBase
        <5> HIDE DEF V
        <5>1. QED BY <2>1, SpreadAt, Zenon
      <4> HIDE DEF e, text, V
      <4>4. QED BY <2>4, <3>1, <3>2, <4>2, <4>3, Zenon
    <3>3. CASE ~(j <= s + 1)
      <4> HIDE DEF e, text, V
      <4>1. QED BY <2>4, <3>1, <3>3
    <3>4. QED BY <3>2, <3>3
  <2>7. V[k] = Quad(b)
    <3>1. V[k] = BlockValue(bytes, k, 4, ByteBase, 0)
      OBVIOUS
    <3>2. /\ b[1] = ItemAt(bytes, 4 * k + 1, 0) /\ b[2] = ItemAt(bytes, 4 * k + 2, 0)
          /\ b[3] = ItemAt(bytes, 4 * k + 3, 0) /\ b[4] = ItemAt(bytes, 4 * k + 4, 0)
      OBVIOUS
    <3> HIDE DEF V, b
    <3>3. QED BY <3>1, <3>2, BlockOf4, Zenon DEF Quad
  <2>8. W[k] = Quint(e)
    <3>1. W[k] = BlockValue(text, k, 5, DigitBase, Filler)
      OBVIOUS
    <3>2. /\ e[1] = ItemAt(text, 5 * k + 1, Filler) /\ e[2] = ItemAt(text, 5 * k + 2, Filler)
          /\ e[3] = ItemAt(text, 5 * k + 3, Filler) /\ e[4] = ItemAt(text, 5 * k + 4, Filler)
          /\ e[5] = ItemAt(text, 5 * k + 5, Filler)
      <4> HIDE DEF text
      <4>1. QED OBVIOUS
    <3> HIDE DEF W, e, text
    <3>3. QED BY <3>1, <3>2, BlockOf5, Zenon DEF Quint
  <2> HIDE DEF b, e, V, W, text
  <2>9. \A j \in 1 .. s : (W[k] \div Weight(4, ByteBase)[j]) % ByteBase = b[j]
    BY <2>5, <2>6, <2>7, <2>8, BlockBack
  <2>10. \A j \in 1 .. s : out[4 * k + j] = (W[k] \div Weight(4, ByteBase)[j]) % ByteBase
    <3> SUFFICES ASSUME NEW j \in 1 .. s
                 PROVE  out[4 * k + j] = (W[k] \div Weight(4, ByteBase)[j]) % ByteBase
      BY Zenon
    <3>1. out[4 * k + j] = Spread(W, 4 * k + j, 4, ByteBase)
      BY <2>2, Zenon
    <3>2. j \in 1 .. 4
      OBVIOUS
    <3>3. QED BY <2>1, <3>1, <3>2, SpreadAt, Zenon
  <2> HIDE DEF out
  <2>11. QED BY <2>2, <2>5, <2>9, <2>10, Zenon
<1>7. ASSUME NEW i \in 1 .. n PROVE out[i] = bytes[i]
  <2> DEFINE k == (i - 1) \div 4
             j == 1 + ((i - 1) % 4)
             s == IF k < K THEN 4 ELSE r
  <2>1. k \in Nat /\ j \in 1 .. 4 /\ i = 4 * k + j
    OBVIOUS
  <2> HIDE DEF k, j
  <2>2. k \in 0 .. K /\ s \in 1 .. 4 /\ j \in 1 .. s
    BY <1>1, <2>1
  <2> HIDE DEF out
  <2>3. out[4 * k + j] = bytes[4 * k + j]
    BY <1>6, <2>2, Zenon
  <2>4. QED BY <2>1, <2>3, Zenon
<1>8. out = bytes
  <2>1. DOMAIN out = 1 .. n /\ out = [i \in 1 .. n |-> out[i]] /\ bytes = [i \in 1 .. n |-> bytes[i]]
    <3> HIDE DEF W, text
    <3>1. QED OBVIOUS
  <2> HIDE DEF out
  <2>2. QED BY <1>7, <2>1
<1>9. QED BY <1>4, <1>5, <1>8, Zenon

\* samourai.ts:32-34: the run's instance of it.
THEOREM PayloadTextInverts == AllSpec => []TextGivesBytesBack
<1>1. ASSUME NEW n \in 0 .. 5, NEW bytes \in [1 .. n -> 0 .. ByteBase - 1]
      PROVE  Z85Decode(Z85Encode(bytes)) = bytes
  <2>1. n \in Nat
    OBVIOUS
  <2>2. QED BY <2>1, TextGivesBack
<1>2. TextGivesBytesBack
  BY <1>1, Zenon DEF TextGivesBytesBack, Z85Inverts
<1>3. QED BY <1>2, PTL

-----------------------------------------------------------------------------
(* The endpoints of an installation: parsing what was parsed changes it no *)
(* more, so the service has what the installer probed.                     *)

\* Nothing is found but a candidate.
LEMMA ProbeFinds ==
  ASSUME NEW C, NEW candidates \in Seq(C), NEW up, Probe(candidates, up) # <<>>
  PROVE  \E i \in DOMAIN candidates : Probe(candidates, up) = <<candidates[i]>>
<1> DEFINE Up == {i \in DOMAIN candidates : candidates[i].host \in up}
           first == CHOOSE i \in Up : \A j \in Up : i <= j
<1>1. Up # {} /\ Probe(candidates, up) = <<candidates[first]>>
  BY Zenon DEF Probe
<1>2. Up \subseteq Nat
  <2>1. DOMAIN candidates \subseteq Nat
    BY LenProperties
  <2>2. QED BY <2>1
<1> HIDE DEF Up
<1>3. \E i \in Up : \A j \in Up : i <= j
  BY <1>1, <1>2, LeastElement
<1>4. first \in Up
  BY <1>3, Zenon
<1>5. first \in DOMAIN candidates
  BY <1>4 DEF Up
<1>6. QED BY <1>1, <1>5, Zenon

\* What docker shows is on this machine.
LEMMA DockerIsLocal ==
  ASSUME NEW port, NEW gateway, NEW container
  PROVE  LET c == CandidatesFor(port, gateway, container)
         IN  /\ c \in Seq({Candidate("loopback", port), Candidate("dojonet", port)})
             /\ \A i \in DOMAIN c : c[i] \in {Candidate("loopback", port), Candidate("dojonet", port)}
<1> DEFINE C == {Candidate("loopback", port), Candidate("dojonet", port)}
           here == <<Candidate("loopback", port)>>
           bridge == IF gateway THEN <<Candidate("dojonet", port)>> ELSE <<>>
           inside == IF container THEN <<Candidate("dojonet", port)>> ELSE <<>>
<1>1. here \in Seq(C) /\ bridge \in Seq(C) /\ inside \in Seq(C)
  <2>1. \A S : \A x \in S : <<x>> \in Seq(S) /\ <<>> \in Seq(S)
    OBVIOUS
  <2>2. Candidate("loopback", port) \in C /\ Candidate("dojonet", port) \in C
    BY Zenon
  <2> HIDE DEF C
  <2>3. <<Candidate("loopback", port)>> \in Seq(C) /\ <<Candidate("dojonet", port)>> \in Seq(C) /\ <<>> \in Seq(C)
    BY <2>1, <2>2, Zenon
  <2>4. QED BY <2>3, Zenon
<1> HIDE DEF C, here, bridge, inside
<1>2. here \o bridge \in Seq(C)
  BY <1>1, ConcatProperties
<1>3. (here \o bridge) \o inside \in Seq(C)
  BY <1>1, <1>2, ConcatProperties
<1>4. CandidatesFor(port, gateway, container) = (here \o bridge) \o inside
  BY Zenon DEF CandidatesFor, here, bridge, inside
<1>5. CandidatesFor(port, gateway, container) \in Seq(C)
  BY <1>3, <1>4
<1>6. \A c \in Seq(C) : \A i \in DOMAIN c : c[i] \in C
  BY LenProperties
<1>7. QED BY <1>5, <1>6 DEF C

\* Parsing what was parsed changes nothing.
LEMMA ParsedTwice ==
  ASSUME NEW typed
  PROVE  /\ ParseElectrumEndpoint(ParseElectrumEndpoint(typed)) = ParseElectrumEndpoint(typed)
         /\ NormaliseSorobanUrl(NormaliseSorobanUrl(typed)) = NormaliseSorobanUrl(typed)
<1>1. ParseElectrumEndpoint(ParseElectrumEndpoint(typed)) = ParseElectrumEndpoint(typed)
  BY DEF ParseElectrumEndpoint, ElectrumPort
<1>2. NormaliseSorobanUrl(NormaliseSorobanUrl(typed)) = NormaliseSorobanUrl(typed)
  <2> DEFINE url == NormaliseSorobanUrl(typed)
             scheme == IF typed.scheme = "" THEN "http" ELSE typed.scheme
  <2>1. /\ url.scheme = scheme /\ url.host = typed.host /\ url.path = RpcPath(typed.path)
        /\ url.port = IF typed.port = DefaultPort(scheme) THEN 0 ELSE typed.port
    BY DEF NormaliseSorobanUrl
  <2>2. url = [scheme |-> scheme, host |-> typed.host, port |-> url.port, path |-> RpcPath(typed.path)]
    BY <2>1 DEF NormaliseSorobanUrl
  <2> HIDE DEF url
  <2>3. scheme # "" /\ (IF url.scheme = "" THEN "http" ELSE url.scheme) = scheme
    BY <2>1
  <2> HIDE DEF scheme
  <2>4. RpcPath(url.path) = RpcPath(typed.path)
    BY <2>1 DEF RpcPath
  <2>5. (IF url.port = DefaultPort(scheme) THEN 0 ELSE url.port) = url.port
    BY <2>1 DEF DefaultPort
  <2>6. NormaliseSorobanUrl(url) = [scheme |-> scheme, host |-> url.host,
          port |-> IF url.port = DefaultPort(scheme) THEN 0 ELSE url.port, path |-> RpcPath(url.path)]
    BY <2>3, Zenon DEF NormaliseSorobanUrl
  <2>7. NormaliseSorobanUrl(url) = url
    BY <2>1, <2>2, <2>4, <2>5, <2>6
  <2>8. QED BY <2>7 DEF url
<1>3. QED BY <1>1, <1>2

\* What ServiceRunsWhereProbed asks of the endpoints that were found.
RunsThere(q, e, s) ==
  LET config == LoadConfig(Unit(q, e, s))
  IN  /\ Candidate(config.electrum.host, config.electrum.port) = e
      /\ IndexerAllowed(q.network, config.electrum.host, config.allow)
      /\ (q.remote => Plain(q.soroban)) => Reached(config.soroban) = Reached(SorobanUrlFor(s))
      /\ (q.remote /\ q.soroban.path \notin {"", "/"}) => config.soroban.path = q.soroban.path
      /\ DoctorElectrum(TRUE, config, q) = <<e>>
      /\ (q.remote => Plain(q.soroban)) =>
           Reached(SorobanUrlFor(DoctorSoroban(TRUE, config, q)[1])) = Reached(config.soroban)

\* What fetch or the tunnel reaches by a URL is what it reaches by the host and
\* the port of the URL, if the URL is plain.
LEMMA PlainReaches ==
  ASSUME NEW url, url.scheme = "http", url.path = "/rpc", url.port # 80
  PROVE  Reached(url) = Reached(SorobanUrlFor(Candidate(url.host, IF url.port = 0 THEN 80 ELSE url.port)))
<1> DEFINE c == Candidate(url.host, IF url.port = 0 THEN 80 ELSE url.port)
           back == SorobanUrlFor(c)
<1>1. c.host = url.host /\ c.port = IF url.port = 0 THEN 80 ELSE url.port
  BY DEF Candidate
<1> HIDE DEF c
<1>2. back.scheme = "http" /\ back.host = url.host /\ back.port = url.port /\ back.path = "/rpc"
  BY <1>1 DEF SorobanUrlFor
<1> HIDE DEF back
<1>3. Reached(back) = Reached(url)
  BY <1>2, Zenon DEF Reached
<1>4. QED BY <1>3 DEF back, c

\* The service is configured with what was parsed, and the candidate is its host
\* and its port.
LEMMA RunsByUrl ==
  ASSUME NEW q, NEW endpoint, NEW e, NEW s, NEW url,
         endpoint = ParseElectrumEndpoint(endpoint), url = NormaliseSorobanUrl(url),
         e = Candidate(endpoint.host, endpoint.port),
         s = Candidate(url.host, IF url.port = 0 THEN 80 ELSE url.port),
         Unit(q, e, s).soroban = url,
         IndexerAllowed(q.network, e.host, q.allow),
         (q.remote => Plain(q.soroban)) => url.scheme = "http" /\ url.path = "/rpc" /\ url.port # 80,
         (q.remote /\ q.soroban.path \notin {"", "/"}) => url.path = q.soroban.path
  PROVE  RunsThere(q, e, s)
<1> DEFINE config == LoadConfig(Unit(q, e, s))
           at == [host |-> endpoint.host, port |-> endpoint.port]
<1>1. e.host = endpoint.host /\ e.port = endpoint.port
  BY DEF Candidate
<1>2. Unit(q, e, s).electrum = at /\ Unit(q, e, s).allow = q.allow
  BY <1>1 DEF Unit
<1>3. at = endpoint
  BY DEF ParseElectrumEndpoint
<1>4. config.soroban = url /\ config.electrum = endpoint /\ config.allow = q.allow
  <2> HIDE DEF at
  <2>1. /\ config.soroban = NormaliseSorobanUrl(Unit(q, e, s).soroban)
        /\ config.electrum = ParseElectrumEndpoint(Unit(q, e, s).electrum)
        /\ config.allow = Unit(q, e, s).allow
    BY DEF LoadConfig
  <2>2. QED BY <2>1, <1>2, <1>3, Zenon
<1> HIDE DEF config, at
<1>5. DoctorElectrum(TRUE, config, q) = <<e>>
  BY <1>4, Zenon DEF DoctorElectrum, ExplicitCandidate
<1>6. DoctorSoroban(TRUE, config, q) = <<s>> /\ DoctorSoroban(TRUE, config, q)[1] = s
  <2>1. DoctorSoroban(TRUE, config, q) = <<s>>
    BY <1>4, Zenon DEF DoctorSoroban, ExplicitCandidate
  <2>2. <<s>>[1] = s
    OBVIOUS
  <2>3. QED BY <2>1, <2>2, Zenon
<1>7. (q.remote => Plain(q.soroban)) => Reached(url) = Reached(SorobanUrlFor(s))
  BY PlainReaches, Zenon
<1>8. QED BY <1>1, <1>4, <1>5, <1>6, <1>7, Zenon DEF RunsThere, config

\* What is asked: a remote Dojo has the endpoints that were typed.
LEMMA AskedFields ==
  ASSUME NEW q \in AskedFor
  PROVE  q.remote = TRUE /\ q.soroban.scheme \in {"", "http", "https"}
BY DEF AskedFor

\* An endpoint that was typed is probed and written as it was parsed.
LEMMA AskedRuns ==
  ASSUME NEW q \in AskedFor, NEW up,
         Probe(ElectrumCandidates(q), up) # <<>>, Probe(SorobanCandidates(q), up) # <<>>,
         IndexerAllowed(q.network, Probe(ElectrumCandidates(q), up)[1].host, q.allow)
  PROVE  \E e, s : /\ Probe(ElectrumCandidates(q), up) = <<e>> /\ Probe(SorobanCandidates(q), up) = <<s>>
                   /\ RunsThere(q, e, s)
<1> DEFINE endpoint == ParseElectrumEndpoint(q.electrum)
           url == NormaliseSorobanUrl(q.soroban)
           e == Candidate(endpoint.host, endpoint.port)
           s == Candidate(url.host, IF url.port = 0 THEN 80 ELSE url.port)
<1>1. q.remote = TRUE /\ q.soroban.scheme \in {"", "http", "https"}
  BY AskedFields, Zenon
<1>2. ElectrumCandidates(q) = <<e>> /\ SorobanCandidates(q) = <<s>>
  <2>1. q.remote
    BY <1>1
  <2>2. ElectrumCandidates(q) = <<e>>
    BY <2>1, Zenon DEF ElectrumCandidates, ExplicitCandidate
  <2>3. SorobanCandidates(q) = <<s>>
    BY <2>1, Zenon DEF SorobanCandidates, ExplicitCandidate
  <2>4. QED BY <2>2, <2>3
<1>3. ASSUME NEW c, Probe(<<c>>, up) # <<>> PROVE Probe(<<c>>, up) = <<c>>
  <2>1. <<c>> \in Seq({c}) /\ \A i \in DOMAIN <<c>> : <<c>>[i] = c
    OBVIOUS
  <2>2. \E i \in DOMAIN <<c>> : Probe(<<c>>, up) = << <<c>>[i] >>
    BY <1>3, <2>1, ProbeFinds
  <2>3. QED BY <2>1, <2>2, Zenon
<1> HIDE DEF e, s
<1>4. Probe(ElectrumCandidates(q), up) = <<e>> /\ Probe(SorobanCandidates(q), up) = <<s>>
  BY <1>2, <1>3, Zenon
<1>5. <<e>>[1] = e
  OBVIOUS
<1>6. IndexerAllowed(q.network, e.host, q.allow)
  BY <1>4, <1>5, Zenon
<1>7. endpoint = ParseElectrumEndpoint(endpoint) /\ url = NormaliseSorobanUrl(url)
  BY ParsedTwice, Zenon
<1>8. Unit(q, e, s).soroban = url
  BY <1>1 DEF Unit
<1>9. Plain(q.soroban) => url.scheme = "http" /\ url.path = "/rpc" /\ url.port # 80
  <2> SUFFICES ASSUME Plain(q.soroban) PROVE url.scheme = "http" /\ url.path = "/rpc" /\ url.port # 80
    BY Zenon
  <2>1. (IF q.soroban.scheme = "" THEN "http" ELSE q.soroban.scheme) = "http"
    BY <1>1, Zenon DEF Plain
  <2>2. RpcPath(q.soroban.path) = "/rpc"
    BY Zenon DEF Plain, RpcPath
  <2>3. DefaultPort("http") = 80
    BY DEF DefaultPort
  <2>4. url = [scheme |-> "http", host |-> q.soroban.host,
               port |-> IF q.soroban.port = 80 THEN 0 ELSE q.soroban.port, path |-> "/rpc"]
    BY <2>1, <2>2, <2>3, Zenon DEF NormaliseSorobanUrl
  <2> HIDE DEF url
  <2>5. QED BY <2>4
<1>10. q.soroban.path \notin {"", "/"} => url.path = q.soroban.path
  BY DEF NormaliseSorobanUrl, RpcPath
<1> HIDE DEF endpoint, url
<1>11. RunsThere(q, e, s)
  BY <1>1, <1>6, <1>7, <1>8, <1>9, <1>10, RunsByUrl, Zenon DEF e, s
<1>12. QED BY <1>4, <1>11, Zenon

\* A service that docker shows is where the unit says it is.
LEMMA DiscoveredRuns ==
  ASSUME NEW q \in Discovered, NEW up,
         Probe(ElectrumCandidates(q), up) # <<>>, Probe(SorobanCandidates(q), up) # <<>>,
         IndexerAllowed(q.network, Probe(ElectrumCandidates(q), up)[1].host, q.allow)
  PROVE  \E e, s : /\ Probe(ElectrumCandidates(q), up) = <<e>> /\ Probe(SorobanCandidates(q), up) = <<s>>
                   /\ RunsThere(q, e, s)
<1>1. q.remote = FALSE
  BY DEF Discovered
<1>2. ASSUME NEW port, Probe(CandidatesFor(port, q.gateway, q.container), up) # <<>>
      PROVE  \E host : Probe(CandidatesFor(port, q.gateway, q.container), up) = <<Candidate(host, port)>>
  <2> DEFINE c == CandidatesFor(port, q.gateway, q.container)
             C == {Candidate("loopback", port), Candidate("dojonet", port)}
  <2>1. c \in Seq(C) /\ \A i \in DOMAIN c : c[i] \in C
    BY DockerIsLocal, Zenon
  <2> HIDE DEF c
  <2>2. Probe(c, up) # <<>>
    BY <1>2 DEF c
  <2>3. PICK i \in DOMAIN c : Probe(c, up) = <<c[i]>>
    BY <2>1, <2>2, ProbeFinds
  <2>4. c[i] = Candidate("loopback", port) \/ c[i] = Candidate("dojonet", port)
    BY <2>1, Zenon
  <2>5. QED BY <2>3, <2>4, Zenon DEF c
<1>3. PICK a : Probe(ElectrumCandidates(q), up) = <<Candidate(a, ElectrumPort)>>
  BY <1>1, <1>2, Zenon DEF ElectrumCandidates
<1>4. PICK b : Probe(SorobanCandidates(q), up) = <<Candidate(b, SorobanPort)>>
  BY <1>1, <1>2, Zenon DEF SorobanCandidates
<1> DEFINE e == Candidate(a, ElectrumPort)
           s == Candidate(b, SorobanPort)
           endpoint == [host |-> a, port |-> ElectrumPort]
           url == SorobanUrlFor(s)
<1>5. IndexerAllowed(q.network, e.host, q.allow)
  <2>1. <<e>>[1] = e
    OBVIOUS
  <2>2. QED BY <1>3, <2>1, Zenon
<1>6. endpoint = ParseElectrumEndpoint(endpoint) /\ e = Candidate(endpoint.host, endpoint.port)
  BY DEF ParseElectrumEndpoint, ElectrumPort
<1>7. /\ url = [scheme |-> "http", host |-> b, port |-> 4242, path |-> "/rpc"]
      /\ url.scheme = "http" /\ url.host = b /\ url.port = 4242 /\ url.path = "/rpc"
  BY DEF SorobanUrlFor, Candidate, SorobanPort
<1>8. Unit(q, e, s).soroban = url
  BY <1>1 DEF Unit
<1> HIDE DEF url
<1>9. url = NormaliseSorobanUrl(url)
  BY <1>7 DEF NormaliseSorobanUrl, DefaultPort, RpcPath
<1>10. s = Candidate(url.host, IF url.port = 0 THEN 80 ELSE url.port)
  BY <1>7 DEF SorobanPort
<1> HIDE DEF e, s, endpoint
<1>11. url.port # 80
  BY <1>7
<1>12. RunsThere(q, e, s)
  <2>1. ~q.remote
    BY <1>1
  <2>2. /\ (q.remote => Plain(q.soroban)) => url.scheme = "http" /\ url.path = "/rpc" /\ url.port # 80
        /\ (q.remote /\ q.soroban.path \notin {"", "/"}) => url.path = q.soroban.path
    BY <2>1, <1>7, <1>11, Zenon
  <2>3. QED BY <2>2, <1>5, <1>6, <1>8, <1>9, <1>10, RunsByUrl, Zenon
<1>13. QED BY <1>3, <1>4, <1>12, Zenon DEF e, s

\* Whatever is typed, and whatever answers.
LEMMA AlwaysRunsWhereProbed == ServiceRunsWhereProbed
<1>1. ASSUME NEW q \in AskedFor \cup Discovered, NEW up,
             Probe(ElectrumCandidates(q), up) # <<>>, Probe(SorobanCandidates(q), up) # <<>>,
             IndexerAllowed(q.network, Probe(ElectrumCandidates(q), up)[1].host, q.allow)
      PROVE  LET e == Probe(ElectrumCandidates(q), up)
                 s == Probe(SorobanCandidates(q), up)
                 config == LoadConfig(Unit(q, e[1], s[1]))
             IN  /\ Candidate(config.electrum.host, config.electrum.port) = e[1]
                 /\ IndexerAllowed(q.network, config.electrum.host, config.allow)
                 /\ (q.remote => Plain(q.soroban)) => Reached(config.soroban) = Reached(SorobanUrlFor(s[1]))
                 /\ (q.remote /\ q.soroban.path \notin {"", "/"}) => config.soroban.path = q.soroban.path
                 /\ DoctorElectrum(TRUE, config, q) = e
                 /\ (q.remote => Plain(q.soroban)) =>
                      Reached(SorobanUrlFor(DoctorSoroban(TRUE, config, q)[1])) = Reached(config.soroban)
  <2>1. PICK e, s : /\ Probe(ElectrumCandidates(q), up) = <<e>> /\ Probe(SorobanCandidates(q), up) = <<s>>
                    /\ RunsThere(q, e, s)
    BY <1>1, AskedRuns, DiscoveredRuns, Zenon
  <2>2. <<e>>[1] = e /\ <<s>>[1] = s
    OBVIOUS
  <2>3. QED BY <2>1, <2>2, Zenon DEF RunsThere
<1>2. QED BY <1>1, Zenon DEF ServiceRunsWhereProbed

\* install.ts:275-276, 309-310 and bin/paynym-bot.ts:376-377: for any ports and
\* any paths an operator may type.
THEOREM RunsHoweverTyped == AllSpec => []RunsAsInstalled
<1>1. RunsAsInstalled
  BY AlwaysRunsWhereProbed DEF RunsAsInstalled
<1>2. QED BY <1>1, PTL

-----------------------------------------------------------------------------
(* What the run of Algorithms checks, of its specification.                *)

\* The registry and the bucket of a behaviour each go their own way.
LEMMA AllGoTheirWay == AllSpec => Spec /\ BucketSpec
<1>1. AllInit => Init /\ BucketInit
  BY DEF AllInit
<1>2. [AllNext]_<<vars, bucketVars>> => [Next]_vars /\ [BucketNext]_bucketVars
  BY DEF AllNext, vars, bucketVars
<1>3. QED BY <1>1, <1>2, PTL DEF AllSpec, Spec, BucketSpec

\* register.ts, watcher.ts and server.ts: the loops and the bucket side by side.
THEOREM LoopsAndBucketHold == AllSpec => [](AnyOrderAdvances /\ WindowIsLookahead /\ GrantsBounded)
<1>1. QED BY AllGoTheirWay, CreditsInAnyOrder, LoopEmitsTheWindow, BucketHolds, PTL
=============================================================================
