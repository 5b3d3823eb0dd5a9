--------------------------- MODULE RegistryCheck ---------------------------
(***************************************************************************)
(* The loops of the code against the definitions of Registry: one call of  *)
(* Registry.advance per credited index, in every order, and the counting   *)
(* loop of watchWindow.  "Registry.advance is order-independent in any     *)
(* case" (watcher.ts) is what lets Receiver credit a pass in one step.     *)
(***************************************************************************)
EXTENDS Registry

VARIABLES start, given, rec, todo

vars == <<start, given, rec, todo>>

Records == {r \in [nextIndex : 0 .. (MaxIndex + 1), usedAhead : SUBSET Index, firstSeen : {0}] :
              \A i \in r.usedAhead : i > r.nextIndex}

\* while (ahead.has(rec.nextIndex)) { ahead.delete(rec.nextIndex); rec.nextIndex++ }
Slide(ahead) ==
  LET slide[k \in 0 .. (MaxIndex + 1)] == IF k \in ahead THEN slide[k + 1] ELSE k
  IN  slide

AdvanceLoop(r, i) ==
  LET ahead == r.usedAhead \cup {i}
      next == Slide(ahead)[r.nextIndex]
  IN  IF i < r.nextIndex THEN r
      ELSE [r EXCEPT !.nextIndex = next,
                     !.usedAhead = ahead \ (r.nextIndex .. (next - 1))]

\* for (let i = rec.nextIndex; emitted < gap; i++): what it emits from <<i, left>>
\* on, where left indices are still to be emitted.
Emit(ahead) ==
  LET emit[p \in Nat \X (0 .. Gap)] ==
        IF p[2] = 0 THEN {}
        ELSE IF p[1] \in ahead THEN emit[<<p[1] + 1, p[2]>>]
        ELSE {p[1]} \cup emit[<<p[1] + 1, p[2] - 1>>]
  IN  emit

WindowLoop(r) == Emit(r.usedAhead)[<<r.nextIndex, Gap>>]

Init ==
  /\ start \in Records
  /\ given \in SUBSET Index
  /\ rec = start
  /\ todo = given

CreditNext(i) ==
  /\ rec' = AdvanceLoop(rec, i)
  /\ todo' = todo \ {i}
  /\ UNCHANGED <<start, given>>

Next == \E i \in todo : CreditNext(i)

Spec == Init /\ [][Next]_vars

\* Whatever the order in which a pass applies its credits, the record ends up
\* as Advance says: the least unused cursor, the rest kept above it.
AnyOrderAdvances == todo = {} => rec = Advance(start, given)

\* The lookahead is the set of the first Gap unused indices, also for a
\* customer who pays out of order.
WindowIsLookahead == WatchWindow(rec) = WindowLoop(rec)
=============================================================================
