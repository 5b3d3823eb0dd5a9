----------------------------- MODULE MCReceiver -----------------------------
(***************************************************************************)
(* Small instances of Receiver: two customers, and entries that reach the  *)
(* receiver through both directories.                                      *)
(***************************************************************************)
EXTENDS Receiver, TLC

CONSTANTS c1, c2, e1, e2, e3, e4

\* c1 posts to both directories, c2 to ours; e4 is junk in the second one.
MCEntryCode == e1 :> c1 @@ e2 :> c1 @@ e3 :> c2 @@ e4 :> NoCode
MCEntryDir == e1 :> "ours" @@ e2 :> "samourai" @@ e3 :> "ours" @@ e4 :> "samourai"

MCEntryCodeOne == e1 :> c1
MCEntryDirOne == e1 :> "ours"
=============================================================================
