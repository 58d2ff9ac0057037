CONSTANTS
  Customers = {1, 2, 3}
  Names = {1, 2, 3}
  Matching = {1, 2}
  Requested = 1
  EndpointMax = 2
  PolicyMax = 1
  Calls = {"a", "b"}
  MaxPages = 3
  ShownForgotten = 2
  Entries = {"search", "forget", "confirm", "gateway", "direct", "exchange", "chain"}
  MaxCalls = 3
  MaxFaults = 2
  MaxChanges = 1
SPECIFICATION ServiceSpec
INVARIANTS
  ServiceTypeOK
  WalkCountsWhoStayed
  RunsForgetTheirOwn
  SurvivorStaysNameable
  RowTellsWhatReached
CONSTRAINT OneSubject
CHECK_DEADLOCK FALSE
