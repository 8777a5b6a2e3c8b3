CONSTANTS
  Profiles = {1, 2}
  Networks = {"home", "office"}
  NoNet = "none"
  MaxNetChanges = 2
  MaxSwitchEdits = 1
  MaxSwitchFaults = 1
  ProfileIds = {1, 2}
  RuleIds = {1, 2, 3}
  GoodRules = {"a", "b"}
  BadRules = {"bad"}
  StartRules <- SomeRules
  StartMem <- SomeMem
  MaxRulesPerProfile = 2
  MaxProfileEdits = 1
  MaxProfileFaults = 1
  MaxAsks = 2
  MaxCurFaults = 1
  MaxOutside = 1
  StartEvents <- SomeEvents
  Totals <- NearSmallest
  QueueMaxBytes = 3
  QueueMaxCount = 3
  RowsPerTxn = 2
  VacuumSteps = 2
  EvictionRounds = 1
  MaxPages = 5
  HighWater = 2
  Stamps = {1, 2}
  Hashes = {"h", "k"}
  Sizes = {1, 2}
  MaxPushes = 3
  MaxHistoryFaults = 1
  HitNames = {"a", "b", "c"}
  MaxTracked = 2
  SideMax = 1
  MaxMapHits = 2
  MaxMapRuns = 2
  Savers = {"s1", "s2"}
  Readers = {"r1"}
  Retries = 2
  MaxSaves = 4
  MaxCrashes = 1
  Parts = {"switch", "enforcer", "curated", "history", "names", "file", "budget"}
SPECIFICATION WorkersSpec
INVARIANTS
  WorkersTypeOK
  ProfileIsRight
  ProfileIsEnforced
  StatusIsTrue
  
  BudgetsKept
  HitsStay
  FileIsSafe
PROPERTIES
  
  
  OldestGoFirst
  KeepsPromise
  WorkersLive
CHECK_DEADLOCK FALSE
