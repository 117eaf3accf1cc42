SPECIFICATION MCSpec
CONSTANTS
  btc = btc
  eth = eth
  deep = deep
  short = short
  Processes = {"server", "worker"}
  Consumers = {"server", "worker"}
  Jobs = {"server", "worker"}
  Pipelines = {"pipe1", "pipe2"}
  MaxRetries = 2
  Instances = {1, 2, 3, 4}
  ReadCount = 2
  MaxMessages = 3
  Names = {btc, eth}
  Venues <- MCVenues
  Markets <- MCMarkets
  Liquidity <- MCLiquidity
  PageCap <- MCPageCap
  PageLimit = 5
  InQuote = {btc, eth}
  Limit = 1
  Splits = 2
  MinFold = 2
  TrainPct = 70
  Inexact = {}
  WarmupBars = 1
  ReplySizes = {0}
  BufferCap = 3
  MinCandles = 2
  Histories = {4, 10}
INVARIANTS
  ProcessesTypeOK
  LossExplained
  WorkerTypeOK
  PromotedByServerOnly
PROPERTIES
  AtMostOnce
  DeactivationUndone
  BuffersResearched
