\* A payment seen while its registration is pruned is credited twice.
SPECIFICATION HistorySpec
CONSTANTS
  c1 = c1  c2 = c2  e1 = e1  e2 = e2  e3 = e3  e4 = e4
  Codes = {c1}
  NoCode = NoCode
  Entries = {e1}
  EntryCode <- MCEntryCodeOne
  EntryDir <- MCEntryDirOne
  MaxSenders = 1
  Gap = 1
  UnpaidTtl = 1
  MaxIndex = 0
  MaxNow = 2
PROPERTY
  NoPaymentCreditedTwice
