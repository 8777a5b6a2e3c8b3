CONSTANTS
  a1 = a1  a2 = a2  e1 = e1
  Asks <- OneAsk
  Events <- OneEvent
  Bindable <- NoneBindable
  DefaultRowAction = "deny"
  Capacity = 1
  MaxClients = 1
  MaxGeneration = 1
  MaxRequests = 2
  MaxWallSteps = 0
  MaxSnapshots = 1
SPECIFICATION Spec
INVARIANTS
  PausedOnlyByOwnSession
  GuisAreShownWhatIs
CHECK_DEADLOCK FALSE
