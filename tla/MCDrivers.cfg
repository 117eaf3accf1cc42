SPECIFICATION MCSpec
CONSTANTS
  Symbols = {a}
  Prices <- AccountPrices
  OrderSizes <- Sizes
  InitialCash = 1900
  Slip = 1
  SlipDen = 10
  Comm = 1
  CommDen = 10
  Dust = 1
  Cent = 10
  DrawdownDen = 1000
  MaxDrawdown = 300
  PctDen = 20
  MaxPosition = 10
  MaxExposure = 12
  StrengthDen = 10
  MinStrength = 1
  Features <- Moods
  MomentumPct = 7
  SentimentPct = 10
  MomentumFloor = 2
  SentimentFloor = 3
  MaxJump = 1
  JumpDen = 2
  Candles <- Feed
  BufferCap = 2
  Closes = {0, 2, 12, 15}
  Warmup = 1
  BracketUnit = 5
  StopPct <- Stops
  TargetPct <- Targets
  DeskPrices = {0, 2}
  Convictions = {0, 7, 30}
  GraphPct = 3
  Fallback = 7
  MaxFed = 3
  MaxQueue = 3
  MaxBars = 4
CHECK_DEADLOCK FALSE
INVARIANTS
  DriversTypeOK
  BufferExplained
  PointInTime
  ReportAddsUp
  DeskDecides
PROPERTIES
  FreshSnapshot
  StaleEntry
  BacktestIsAccount
  ExitsInBracket
