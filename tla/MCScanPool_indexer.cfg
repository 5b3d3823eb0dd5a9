\* Two passes of two workers over two addresses.
SPECIFICATION FairSpec
CONSTANTS
  a1 = a1  a2 = a2
  NoAddress = NoAddress
  Addresses = {a1, a2}
  Payable = {a1}
  Window <- MCWindow
  Callers <- MCCallers
  Concurrency = 2
  MaxPass = 2
  MaxId = 4
INVARIANTS
  OwnAnswer
  RepliesSettle
  InFlightOnThisSocket
PROPERTIES
  ImplementsPass
  PassEnds
CHECK_DEADLOCK FALSE
