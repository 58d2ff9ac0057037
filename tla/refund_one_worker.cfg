CONSTANTS
  None = None
  Actions = {a1, a2}
  Users = {ann, bob}
  Requesters = {ann}
  Approvers = {ann, bob}
  Payloads = {p1, p2}
  Workers = {w1}
  MaxAttempts = 3
  InMemoryProvider = FALSE
  MaxFaults <- ProviderOnly
SPECIFICATION FairSpec
INVARIANTS
  FailureIsReal
PROPERTIES
  JobsSettleOrStrand
  PaymentIsReported
CHECK_DEADLOCK FALSE
