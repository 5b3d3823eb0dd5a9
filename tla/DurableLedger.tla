--------------------------- MODULE DurableLedger ---------------------------
(***************************************************************************)
(* What the state file promises, whatever the jobs, customers, failures    *)
(* and crashes behind it do: a ledger from registered payment codes to the *)
(* indices known to be paid.  Customers come, and customers no payment is  *)
(* known of go, in any combination per write; one with a known payment     *)
(* stays for ever (register.ts: "A sender with any payment history is      *)
(* never pruned, whatever its age"), and nothing is credited that was not  *)
(* paid.                                                                   *)
(***************************************************************************)
EXTENDS Integers

CONSTANTS
  Codes,        \* payment codes
  MaxIndex,     \* bound: payments are made at indices 0..MaxIndex
  Rosters       \* the sets of payment codes the ledger has room for

VARIABLES ledger, funded

Index == 0 .. MaxIndex
Ledgers == UNION {[D -> SUBSET Index] : D \in Rosters}

Init ==
  /\ ledger = [c \in {} |-> {}]
  /\ funded = {}

\* A payment arrives at an address of c.
Pay(c, i) ==
  /\ funded' = funded \cup {<<c, i>>}
  /\ UNCHANGED ledger

Kept(c) == c \in DOMAIN ledger' /\ ledger[c] \subseteq ledger'[c]

\* One write of the file.
Write ==
  /\ ledger' \in Ledgers
  /\ \A c \in DOMAIN ledger : ledger[c] # {} => Kept(c)
  /\ \A c \in DOMAIN ledger' : {c} \X ledger'[c] \subseteq funded
  /\ UNCHANGED funded

Next == Write \/ \E c \in Codes, i \in Index : Pay(c, i)

Spec == Init /\ [][Next]_<<ledger, funded>>
=============================================================================
