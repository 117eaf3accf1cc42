SPECIFICATION MCSpec
CONSTANTS
  Clients = {ann, bob}
  Exchanges = {binance, kraken}
  MaxTasks = 2
INVARIANTS
  SessionsReleased
SYMMETRY Symmetry
CHECK_DEADLOCK FALSE
