\* One call after another against every proxy and node of MCSoroban.
SPECIFICATION FairSpec
CONSTANTS
  Scripts <- MCScripts
  Bodies <- MCBodies
  MaxCalls = 2
PROPERTIES
  CallSettles
CHECK_DEADLOCK FALSE
