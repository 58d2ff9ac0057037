CONSTANTS
  People = {"agent", "manager", "approver"}
  Orgs = {"north", "south"}
  Roles = {"support_agent", "support_manager"}
  Written = {"user", "tool"}
  Hired <- MCHired
  Requests = {"a", "b"}
  RuleIds = {1}
  SessionIds = {1}
  Texts = {"text"}
  HistoryTail = 2
  MaxTurns = 2
  MaxRequests = 3
  MaxChanges = 2
SPECIFICATION Spec
INVARIANTS
  RulesNeedAnotherPerson
  TurnsFormASequence
  ShownOnlyToThoseItIsFor
CHECK_DEADLOCK FALSE
