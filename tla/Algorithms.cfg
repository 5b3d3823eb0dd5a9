\* Records over five indices; a group of seven elements; bases in which every
\* block is enumerated; three parties; a bucket of two tokens.
SPECIFICATION AllSpec
CONSTANTS
  Codes = {}
  MaxSenders = 1
  Gap = 3
  UnpaidTtl = 0
  MaxIndex = 4
  MaxNow = 0
  ByteBase = 5
  DigitBase = 4
  Order = 7
  Children = {0, 1}
  Digest <- MCDigest
  CacheMax = 2
  Parties = {p1, p2, p3}
  Ephemeral = Ephemeral
  MaxSkew = 2
  MaxClock = 4
  SiteNames = {"shop", "other"}
  PaymentCodes = {p1, p2}
  TypedPorts = {0, 80, 443, 4242, 60001}
  TypedPaths = {"", "/", "/rpc", "/node/rpc"}
  Capacity = 2
  Rate = 1
  TokenUnits = 2
  MaxTime = 5
  MaxCalls = 5
INVARIANTS
  AnyOrderAdvances
  WindowIsLookahead
  TextGivesBytesBack
  DerivationAgrees
  TakenAsSealed
  LoginAnySpelling
  RunsAsInstalled
  GrantsBounded
CHECK_DEADLOCK FALSE
