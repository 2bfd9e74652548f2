SPECIFICATION Spec
CONSTANTS
  haiku = haiku
  opus = opus
  other = other
  mini = mini
  None = None
  Tick = {a1}
  Job <- Both
  Model <- Models
  TierModel <- TierModels
  Keyed <- KeyedModels
  Fallback <- Fallbacks
  DefaultModel = opus
  RoutingEnabled = TRUE
  Pin <- Pins
  Price <- Prices
  MaxPrice = 2
  MaxIterations = 1
  Cap = 2
  MergeNeedsApproval = TRUE
  MaxRequested = 2
  MaxFaults = 0
INVARIANT RunsOnRoutedModel
