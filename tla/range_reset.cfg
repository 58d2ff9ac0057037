CONSTANTS
  Tables = {"rls.orders.force_off"}
  Variants = {"role", "undefined"}
  Settings = {"rules.self_activate", "forget.scope"}
  Leaky = {"rules.self_activate", "forget.scope"}
  ByMemoryInit = {"forget.scope"}
  Switches = {"chain.widen"}
  Order <- MCOrder
  MaxArms = 2
  MaxEvents = 1
  MaxRequests = 2
SPECIFICATION Spec
INVARIANT ResetRestoresTheWindow
CHECK_DEADLOCK FALSE
