CONSTANTS
  a1 = a1  a2 = a2  e1 = e1
  Asks <- TwoAsks
  Events <- NoEvents
  Bindable <- AllBindable
  DefaultRowAction = "deny"
  Capacity = 1
  MaxClients = 1
  MaxGeneration = 1
  MaxRequests = 1
  MaxWallSteps = 0
  MaxSnapshots = 0
SPECIFICATION Spec
INVARIANTS
  AnswersAreTold
  NoneLeftWaiting
PROPERTIES
  DecisionIsFinal
SYMMETRY Symmetry
CHECK_DEADLOCK FALSE
