SPECIFICATION BackgroundSpec
CONSTANTS
  haiku = haiku
  opus = opus
  other = other
  mini = mini
  None = None
  Tick = {a1, a2}
  Job <- LargeOnly
  Model <- Models
  TierModel <- TierModels
  Keyed <- KeyedModels
  Fallback <- Fallbacks
  DefaultModel = opus
  RoutingEnabled = TRUE
  Pin <- Pins
  Price <- Prices
  MaxPrice = 1
  MaxIterations = 1
  Cap = 1
  MergeNeedsApproval = TRUE
  MaxRequested = 2
  MaxFaults = 1
  q1 = q1
  q2 = q2
  w1 = w1
  w2 = w2
  LoopIterations = 3
  CallRetries = 2
  MaxTools = 2
  MaxRetries = 2
  Asker = {q1, q2}
  Interval = 2
  MaxTasks = 2
  MaxUpkeepFaults = 2
  Writer = {w1, w2}
  SeedLimit = 2
  ListLimit = 3
  QueueLimit = 1
  MaxEmitted = 3
  MaxStreamFaults = 1
INVARIANT SpendBounded
INVARIANT PinnedModels
INVARIANT ToolUsesAnswered
INVARIANT CallsBounded
INVARIANT SavedOutcomeIsTrue
INVARIANT SurveysBoundBacklog
INVARIANT StreamIsExact
PROPERTY ContractSpec
PROPERTY RunEnds
PROPERTY HaltsAtCap
PROPERTY PollHeals
CHECK_DEADLOCK FALSE
