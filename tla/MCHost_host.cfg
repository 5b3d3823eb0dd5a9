\* Two commands, one customer, one edit by hand.
SPECIFICATION Spec
CONSTANTS
  Phrases = {"p1", "p2"}
  Passwords = {"", "w"}
  NoPassword = ""
  Networks = {"mainnet"}
  Customers = {c1}
  Torrcs <- MCTorrcs
  Added = {"HiddenServiceDir b"}
  Forces = {FALSE, TRUE}
  MaxCommands = 2
  MaxEdits = 1
INVARIANTS
  HostTypeOK
  
  RecordedStays
  OthersServicesKept
CHECK_DEADLOCK FALSE
