---------------------------- MODULE MCStorefront ----------------------------
(***************************************************************************)
(* Small instances of Storefront: customers come through the page only.    *)
(***************************************************************************)
EXTENDS Storefront, TLC

CONSTANTS c1, c2, n1, n2, s1, s2

MCNoEntries == [e \in {} |-> NoCode]
MCNoDirs == [e \in {} |-> "ours"]

\* Page loads, session ids and customers are alike.
MCSymmetry ==
  Permutations({n1, n2}) \cup Permutations({s1, s2}) \cup Permutations({c1, c2})
=============================================================================
