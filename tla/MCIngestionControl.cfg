SPECIFICATION MCFairSpec
CONSTANTS
  Clients = {ann, bob}
  Exchanges = {binance, kraken}
  MaxTasks = 2
INVARIANTS
  TypeOK
  OnlyKnownLoop
  LeakExplained
PROPERTIES
  StopReturns
CHECK_DEADLOCK FALSE
