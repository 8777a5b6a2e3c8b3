CONSTANTS
  ruleA = ruleA  ruleB = ruleB  ruleC = ruleC
  RuleNames <- ThreeRules
  Recommended <- LastIsCurated
  NoRule = NoRule
  Bodies = {"x"}
  Requests = {1, 2}
  StartFiles <- OneFile
  MaxLinkFaults = 1
  ImportCount = 2
  MaxInFlight = 1
  MaxUnansweredInARow = 2
  SendRetries = 1
  MaxImports = 1
  MaxListChanges = 1
  MaxStreams = 2
  ListIds = {1, 2}
  Downloads <- SomeDownloads
  AggregateCap = 3
  StoredCap = 3
  MaxSubscriptions = 2
  MaxReleased = 1
  JobCapacity = 2
  MaxListRequests = 3
  MaxListFaults = 1
  CountNames = {"a", "t"}
  Timed = {"t"}
  QuietPings = 2
  PingsToRaise = 3
  PingsToClear = 3
  MaxMaybeApplied = 1
  MaxCountChanges = 2
  RuleNumbers = {1, 2, 3}
  Leaves <- SomeLeaves
  Leaf <- SomeLeaf
  Texts <- SomeTexts
  FoldOf <- SomeFold
  LowerOf <- SomeLower
  Plain <- PlainOnes
  AddrBits = 1
  NotKnown = NotKnown
  StartLists <- AllLists
  NewLists <- TwoLists
  MaxAnalyzed = 2
  MaxListGenerations = 2
  Parts = {"commands", "import", "blocklists", "count", "insights"}
SPECIFICATION RulesSpec
INVARIANTS
  RulesTypeOK
  NoRuleIsLost
  ImportIsExact
  
  HintIsTrue
  FindingsAreTrue
  SimulationIsRight
PROPERTIES
  ResultsTellTheDaemon
  RulesLive
CHECK_DEADLOCK FALSE
