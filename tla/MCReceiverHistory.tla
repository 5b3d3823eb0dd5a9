------------------------- MODULE MCReceiverHistory -------------------------
(***************************************************************************)
(* Receiver with a history variable that survives re-registrations: every  *)
(* credit ever announced.                                                  *)
(***************************************************************************)
EXTENDS MCReceiver

VARIABLE everAnnounced

HistoryInit == Init /\ everAnnounced = {}
HistoryNext == Next /\ everAnnounced' = everAnnounced \cup announced'
HistorySpec == HistoryInit /\ [][HistoryNext]_<<vars, everAnnounced>>

\* watcher.ts:41-43 and test/daemon.test.ts ("no double credit on re-scan"): a
\* payment is credited once, however often its address is looked up.
NoPaymentCreditedTwice ==
  [][Credit => scan.found \cap everAnnounced = {}]_<<vars, everAnnounced>>
=============================================================================
