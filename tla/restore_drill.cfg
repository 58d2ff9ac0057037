CONSTANTS
  r1 = r1
  r2 = r2
  Requests <- TwoRequests
  MaxAttempts = 2
  MaxVersion = 2
  MaxDrills = 2
  MaxCrashes = 2
SYMMETRY Symmetry
SPECIFICATION Spec
INVARIANTS
  PaysOncePerApproval
  NothingWaitsForNobody
CHECK_DEADLOCK FALSE
