----------------------------- MODULE MCScanPool -----------------------------
(***************************************************************************)
(* Small instances of ScanPool.                                            *)
(***************************************************************************)
EXTENDS ScanPool

CONSTANTS a1, a2

MCCallers == (1 .. MaxPass) \X (1 .. Concurrency)
MCWindow == <<a1, a2>>
=============================================================================
