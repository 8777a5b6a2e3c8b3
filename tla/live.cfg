CONSTANTS
  a1 = a1  a2 = a2  e1 = e1
  Asks <- OneAsk
  Events <- NoEvents
  Bindable <- AllBindable
  DefaultRowAction = "deny"
  Capacity = 9
  MaxClients = 1
  MaxGeneration = 1
  MaxRequests = 1
  MaxWallSteps = 1
  MaxSnapshots = 0
  MaxPending = 0
  MaxBlocks = 2
  MaxTraySnapshots = 0
  StartFiles <- NoFiles
  Lengths = {2}
  LearningMax = 2
  MaxWall = 2
  MaxSetBacks = 1
  MaxChoices = 1
  MaxThreads = 1
  MaxRestarts = 1
  Parts = {"settlement", "tray", "learning"}
SPECIFICATION LiveSpec
PROPERTIES
  NothingLasts
CHECK_DEADLOCK FALSE
