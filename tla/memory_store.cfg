CONSTANTS
  None = None
  Records = {r1, r2}
  Users = {u1, u2}
  Requests = {q1, q2}
  InitWhileServing = FALSE
  MaxFaults = 1
  MaxArms = 1
SPECIFICATION Spec
INVARIANTS
  MissingIsPending
  ConfirmedWasVouched
PROPERTY
  InitRepairs
SYMMETRY Symmetry
CHECK_DEADLOCK FALSE
