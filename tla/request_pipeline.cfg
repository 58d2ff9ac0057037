CONSTANTS
  None = None
  r1 = r1  r2 = r2  ann = ann
  ord = ord  tkt = tkt  cus = cus  far = far
  Requests = {r1, r2}
  Users = {ann}
  Orgs = {1, 2}
  Home <- MCHome
  Kind <- MCKind
  Total <- MCTotal
  Amounts = {2, 3, 4}
  TokenScopes <- MCScopes
  Intent <- MCIntent
  StartMembers <- MCMembers
  StartRows <- MCRows
  MaxChanges = 1
  MaxFailures = 1
  ActionMaximum = 3
  RoleLimit <- MCLimit
  RequireMfa = FALSE
  RequiredScope <- MCScope
  NeverDelegable = {"refund.approve"}
SPECIFICATION Spec
INVARIANTS
  AnswersRestOnMembership
  RestrictedStaysHidden
  EffectsAreEvidenced
  ProposalsWithinLimits
  NotesMeetExpectation
CHECK_DEADLOCK FALSE
