\* One page load of a customer with three addresses, paid in any order: the scan
\* against the prune, the storefront, crashes and failed writes.
SPECIFICATION ShopSpec
CONSTANTS
  c1 = c1  c2 = c2  n1 = n1  n2 = n2  s1 = s1  s2 = s2
  Codes = {c1}
  NoCode = NoCode
  Entries = {}
  EntryCode <- MCNoEntries
  EntryDir <- MCNoDirs
  Nonces = {n1}
  SessionIds = {s1}
  NoSession = NoSession
  MaxSenders = 1
  Gap = 2
  UnpaidTtl = 1
  MaxIndex = 2
  MaxNow = 2
  NonceTtl = 0
  PollDelay = 1
  SessionTtl = 1
  MaxLiveNonces = 2
INVARIANTS
  NewcomerIsWatched
  ShownLeavesNoGap
  PaidIsFunded
  DiskLagsSafely
  KnownUsedIsFunded
  AnnouncedIsDurable
  AnnouncedOnce
  RestartFindsAgain
PROPERTIES
  ImplementsReceiver
  ImplementsLedger
