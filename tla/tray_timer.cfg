CONSTANTS
  MaxPending = 2
  MaxBlocks = 2
  MaxTraySnapshots = 0
SPECIFICATION TraySpec
PROPERTIES
  OwnTimerReverts
