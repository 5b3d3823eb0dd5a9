\* The inbox drain over both directories with room for one customer of two, and
\* its progress once the faults have stopped.
SPECIFICATION FairSpec
CONSTANTS
  c1 = c1  c2 = c2  e1 = e1  e2 = e2  e3 = e3  e4 = e4
  Codes = {c1, c2}
  NoCode = NoCode
  Entries = {e1, e2, e3, e4}
  EntryCode <- MCEntryCode
  EntryDir <- MCEntryDir
  MaxSenders = 1
  Gap = 1
  UnpaidTtl = 0
  MaxIndex = 0
  MaxNow = 1
INVARIANTS
  TypeOK
  MemIsOnDisk
  RemovedOnlyOnceDurable
  WithinCapacity
PROPERTIES
  EntryLeaves
  PaymentNoticed
