SPECIFICATION Spec
CONSTANTS
  b1 = b1
  b2 = b2
  c1 = c1
  c2 = c2
  c3 = c3
  x1 = x1
  x2 = x2
  r1 = r1
  r2 = r2
  j1 = j1
  a1 = a1
  a2 = a2
  g1 = g1
  g2 = g2
  g3 = g3
  fe = fe
  be = be
  Tab = {b1, b2}
  Call = {c1, c2, c3}
  TabOf <- TabsOf
  Exchange = {x1, x2}
  MaxTokens = 3
  MaxEvents = 1
  Nobody = Nobody
  Recorder = {r1, r2}
  MinTrials = 2
  MaxVariants = 2
  MaxOutcomes = 4
  Repo = {g1, g2, g3}
  Role = {fe, be}
  Rank <- Ranks
  Codebase <- Codebases
  MaxDepth = 3
  Many = 4
  MaxBuilds = 2
  Project = {j1}
  Shared = Shared
  Pass = {a1, a2}
  MinAccess = 1
  MaxPromotions = 1
  TopK = 2
  KeepTop = 1
  MaxRows = 3
  k1 = k1
  k2 = k2
  f1 = f1
  f2 = f2
  Path = {f1, f2}
  Present = {f1}
  Worker = {k1, k2}
  MaxFiles = 1
  MaxVersions = 4
  MaxTrouble = 2
  sf = sf
  u1 = u1
  u2 = u2
  u3 = u3
  SourceFile = sf
  Function = {u1, u2, u3}
  GodDegree = 3
  HubFanIn = 1
  ChainLength = 4
  MaxRebuilds = 2
SYMMETRY Alike
INVARIANT TalliesMatchLog
INVARIANT DependenciesFirst
INVARIANT CycleReported
INVARIANT DepthsAreDistances
INVARIANT RiskIsRight
INVARIANT PromotedOnce
INVARIANT CleanBillIsTrue
PROPERTY SessionsDoNotMultiply
PROPERTY SignedOutForCause
PROPERTY PoolSurvives
PROPERTY PushesStay
PROPERTY NothingUnseenReplaced
CHECK_DEADLOCK FALSE
