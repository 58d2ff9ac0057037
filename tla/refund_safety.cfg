CONSTANTS
  None = None
  Actions = {a1}
  Users = {ann, bob, cat}
  Requesters = {ann}
  Approvers = {ann, bob, cat}
  Payloads = {p1, p2}
  Workers = {w1, w2}
  MaxAttempts = 3
  InMemoryProvider = TRUE
  MaxFaults <- TwoEach
SPECIFICATION Spec
INVARIANTS
  AtMostOneEffect
  EffectWasApproved
  SuccessIsReal
PROPERTIES
  VerdictsAreFinal
  KeepsPromise
SYMMETRY Symmetry
CHECK_DEADLOCK FALSE
