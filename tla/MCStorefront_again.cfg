\* A page that has reset does not start over.
SPECIFICATION ShopFairSpec
CONSTANTS
  c1 = c1  c2 = c2  n1 = n1  n2 = n2  s1 = s1  s2 = s2
  Codes = {c1}
  NoCode = NoCode
  Entries = {}
  EntryCode <- MCNoEntries
  EntryDir <- MCNoDirs
  Nonces = {n1}
  SessionIds = {s1}
  NoSession = NoSession
  MaxSenders = 1
  Gap = 1
  UnpaidTtl = 1
  MaxIndex = 0
  MaxNow = 2
  NonceTtl = 0
  PollDelay = 1
  SessionTtl = 1
  MaxLiveNonces = 2
PROPERTY
  ScanAgainWorks
