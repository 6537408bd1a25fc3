CONSTANTS
  Mid = 5
  Sweep = 2
  Sizes = {1, 2}
  VenueIds = {"o1"}
  MaxOrders = 6
  Assets <- MCAssets
  Frames = {1, 2, 3}
  Bars <- MCBars
  Trail = 1
  MaxHoldBars = 2
  Slippage = 0
  Fee = 0
  Reach = 1
  Risks = {1, 2}
  HeatCap = 2
  MaxDrawdown = 2
  Ids = {"i1", "x1"}
  Exits = {"x1"}
  MaxRetries = 2
  Approved = 5
  Grids = {2, 3}
  MinSize = 4
  DryRun = FALSE
  MaxLosses = 3
  Held = {"a1", "a2"}
  MaxHeld = 1
  Unit = 2
  MaxLost = 1
  MaxStale = 2
  LastTick = 6
  LastCandle = 4
  Skippable = {2, 3}
  VenueLimit = 2
  MaxLen = 2
  MaxExponent = 1
  PageLimit = 2
  MaxPages = 2
  Windows = {3}
  Offers <- MCOffers
  MaxBatch = 3
  Equities = {90, 100}
  Peaks = {0, 100}
  MaxPositions = 2
  ExposurePct = 20
  SinglePct = 15
  WarnPct = 3
  BlockPct = 5
  FlattenPct = 8
  Moves <- MCMoves
  Clocked = TRUE
  Histories <- MCHistories
  Day = 2
  CpcvConfigs <- MCCpcvConfigs
  WalkConfigs <- MCWalkConfigs
  SplitAssets = {"btc", "eth"}
  Writers = {w1, w2}
  Trades = {t1, t2}
  Endings = {win}
  MaxTrades = 2
  MaxCrashes = 2
  MaxCompactions = 1
  RotateAt = 2
  Absent = Absent
  Torn = Torn
  Unknown = Unknown
  Days <- MCDays
  MaxRecords = 4
  MaxDate = 2
  Window = 3
  MinDays = 2
  MaxRestarts = 1
SPECIFICATION MCSpec
INVARIANTS BookTypeOK BacktestTypeOK AdapterTypeOK RecoveryTypeOK StalenessTypeOK FeedsTypeOK AllocationTypeOK SplitsTypeOK GraphTypeOK PromotionTypeOK FetchIsComplete
CHECK_DEADLOCK FALSE
