CONSTANTS
  Profiles = {"status-helper", "refund-assistant"}
  Scopes = {"orders:read", "refunds:propose", "refunds:approve"}
  NeverDelegable = {"refunds:approve"}
  Ceiling <- MCCeiling
  Operations = {"propose_refund"}
  Needs <- MCNeeds
  UserLife = 2
  Lifetime = 2
  GatewayLifetime = 1
  Leeway = 1
  BrokerDepth = 2
  ApiDepth = 2
  ApiLifetime = 2
  CacheFor = 2
  RefetchAfter = 1
  MaxTime = 4
  MaxTokens = 3
  MaxChanges = 1
SPECIFICATION Spec
INVARIANTS
  NarrowsAlongTheChain
  DelegatedDiesWithUser
  MintedIsAcceptable
PROPERTY
  RetiredKeysDie
CONSTRAINTS
  OneVerifier
  ChainOrKeys
CHECK_DEADLOCK FALSE
