------------------------------ MODULE ScanPass ------------------------------
(***************************************************************************)
(* What scanOnce (src/src/watcher.ts) promises the daemon, whatever the    *)
(* workers, the socket and the indexer behind it do: passes, one at a      *)
(* time, that each end once.  One that resolves has seen every watched     *)
(* address that was paid before it began and none that is not paid, and    *)
(* what it has seen is settled then, whoever is still looking up.          *)
(***************************************************************************)
CONSTANTS
  Addresses,    \* what may be paid
  Watched       \* ... and those of the window

VARIABLES
  scan,    \* "idle" before the first pass and after one that failed
  known,   \* what was paid when the pass began
  seen,    \* the addresses the pass has resolved with
  paid

Init == scan = "idle" /\ known = {} /\ seen = {} /\ paid = {}

Begin ==
  /\ scan # "running"
  /\ scan' = "running" /\ known' = paid /\ seen' = {}
  /\ UNCHANGED paid

Resolve ==
  /\ scan = "running"
  /\ scan' = "resolved"
  /\ seen' \in SUBSET (Watched \cap paid) /\ known \cap Watched \subseteq seen'
  /\ UNCHANGED <<known, paid>>

Fail ==
  /\ scan = "running"
  /\ scan' = "idle"
  /\ UNCHANGED <<known, seen, paid>>

Pay(a) == paid' = paid \cup {a} /\ UNCHANGED <<scan, known, seen>>

Next == Begin \/ Resolve \/ Fail \/ \E a \in Addresses : Pay(a)

Spec == Init /\ [][Next]_<<scan, known, seen, paid>>
=============================================================================
