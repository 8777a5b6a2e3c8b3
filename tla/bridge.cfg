CONSTANTS
  r1 = r1
  Names <- OneName
  MaxFilesLeft = 2
  MaxJournal = 2
  StuckFileStays = TRUE
  MaxSubs = 2
  MaxReadopts = 1
  MaxChanges = 2
  MaxPending = 1
  MaxBlocks = 1
  MaxTraySnapshots = 1
  SlotRows = {"p", "q"}
  MaxMisses = 1
  MaxUptime = 1
  MaxDaemons = 2
  MaxGenerations = 1
  MaxHolds = 3
  Window = 1
  Slack = 0
  BatchCap = 1
  MaxTime = 3
  MaxHits = 2
  MaxDaemonRuns = 2
  MaxBridgeRuns = 2
  MaxSaveFaults = 1
  StartFiles <- SomeFiles
  Lengths = {1}
  LearningMax = 1
  MaxWall = 2
  MaxSetBacks = 0
  MaxChoices = 1
  MaxThreads = 2
  MaxRestarts = 0
  WireIds = {"r1"}
  QueueCap = 1
  FeedCap = 1
  MaxActs = 3
  Advertised <- ThreeBridges
  Parts = {"sync", "tray", "slot", "hits", "learning", "link"}
SPECIFICATION BridgeSpec
INVARIANTS
  BridgeTypeOK
  GuisHaveTheDaemons
  TrayIsShown
  SlotIsTold
  GapIsTold
  OwnersWordKept
  ShownIsWanted
  AnswersAreTrue
  SilentAnswersAll
PROPERTIES
  NothingTakenBack
CHECK_DEADLOCK FALSE
