\* The scan credits the payment before the page asks for it.
SPECIFICATION ShopFairSpec
CONSTANTS
  c1 = c1  c2 = c2  n1 = n1  n2 = n2  s1 = s1  s2 = s2
  Codes = {c1}
  NoCode = NoCode
  Entries = {}
  EntryCode <- MCNoEntries
  EntryDir <- MCNoDirs
  Nonces = {n1}
  SessionIds = {s1}
  NoSession = NoSession
  MaxSenders = 1
  Gap = 1
  UnpaidTtl = 2
  MaxIndex = 1
  MaxNow = 1
  NonceTtl = 0
  PollDelay = 1
  SessionTtl = 2
  MaxLiveNonces = 2
PROPERTY
  PaymentShown
