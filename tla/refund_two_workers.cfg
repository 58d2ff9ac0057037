CONSTANTS
  None = None
  Actions = {a1}
  Users = {ann, bob}
  Requesters = {ann}
  Approvers = {ann, bob}
  Payloads = {p1, p2}
  Workers = {w1, w2}
  MaxAttempts = 3
  InMemoryProvider = FALSE
  MaxFaults <- NoFaults
SPECIFICATION Spec
INVARIANT
  FailureIsReal
CHECK_DEADLOCK FALSE
