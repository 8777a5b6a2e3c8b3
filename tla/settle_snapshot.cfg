CONSTANTS
  a1 = a1  a2 = a2  e1 = e1
  Asks <- OneAsk
  Events <- NoEvents
  Bindable <- AllBindable
  DefaultRowAction = "deny"
  Capacity = 9
  MaxClients = 1
  MaxGeneration = 1
  MaxRequests = 0
  MaxWallSteps = 0
  MaxSnapshots = 1
SPECIFICATION Spec
INVARIANTS
  NoStalePrompt
CHECK_DEADLOCK FALSE
