------------------------------- MODULE Torrc -------------------------------
(***************************************************************************)
(* The edits of torrc (src/src/torrc.ts) as functions on sequences of      *)
(* lines: a text is what its split at the newlines gives, so a text that   *)
(* ends in a newline has an empty last line.                               *)
(***************************************************************************)
EXTENDS Integers, Sequences, FiniteSets

Begin == "# >>> paynym-bot (managed) >>>"
End == "# <<< paynym-bot (managed) <<<"
Empty == ""
OwnDir == "HiddenServiceDir /var/lib/tor/paynym-bot"
OwnPort == "HiddenServicePort 80"

Block == <<Begin, OwnDir, OwnPort, End>>

\* True of any strings; the provers do not find it for a literal.
ASSUME LineAssumption == {Begin, End, Empty, OwnDir, OwnPort} \subseteq STRING

Count(l, f) == Cardinality({i \in DOMAIN f : f[i] = l})

\* Mutant: a damaged block is not noticed.
BalancedUnchecked(f) == TRUE

\* assertBalancedMarkers: the markers are counted, their order is not looked at.
Balanced(f) == Count(Begin, f) = Count(End, f)

\* The lines of f at the indices I, in order.
Pick(f, I) ==
  [k \in 1 .. Cardinality(I) |-> f[CHOOSE i \in I : Cardinality({j \in I : j <= i}) = k]]

\* The last marker up to line i is a BEGIN.
Inside(f, i) == \E b \in 1 .. i : f[b] = Begin /\ \A e \in b .. i : f[e] # End

Outside(f) == Pick(f, {i \in DOMAIN f : f[i] # End /\ ~Inside(f, i)})

\* Three newlines or more become two: the second empty line of a run goes, and
\* at the very top the third.
Collapse(f) == Pick(f, {i \in DOMAIN f : ~(i >= 3 /\ f[i] = Empty /\ f[i - 1] = Empty)})

\* Without the empty lines at its end.
Trim(f) == Pick(f, {i \in DOMAIN f : \E j \in i .. Len(f) : f[j] # Empty})

\* Nor at its top: a text as the uninstaller compares it.
Content(f) == Pick(f, {i \in DOMAIN f : \A I \in {1 .. i, i .. Len(f)} : \E j \in I : f[j] # Empty})

RemoveBlock(f) ==
  LET rest == Trim(Collapse(Outside(f)))
  IN (IF rest = <<>> THEN <<Empty>> ELSE rest) \o <<Empty>>

HasUnmanagedService(f) == OwnDir \in {f[i] : i \in {j \in DOMAIN f : f[j] # End /\ ~Inside(f, j)}}

\* mergeTorrc throws unless this holds; then it returns MergeTorrc.
MayMerge(f) == Balanced(f) /\ ~HasUnmanagedService(f)

MergeTorrc(f) ==
  LET base == Trim(RemoveBlock(f))
  IN (IF base = <<>> THEN <<>> ELSE base \o <<Empty>>) \o Block \o <<Empty>>

\* What belongs to somebody else.
Foreign(l) == l \notin {Begin, End, Empty, OwnDir, OwnPort}

Theirs(f) == Pick(f, {i \in DOMAIN f : Foreign(f[i])})

\* A text whose block holds nothing of theirs and is closed: what stands in
\* the block is replaced with it, and a BEGIN behind the last END swallows
\* the rest of the text.
Tidy(f) == (\A i \in DOMAIN f : Foreign(f[i]) => ~Inside(f, i)) /\ ~Inside(f, Len(f))
=============================================================================
