SPECIFICATION MCSpec
CONSTANTS
  Clients = {ann, bob}
  Exchanges = {binance, kraken}
  MaxTasks = 3
INVARIANTS
  AtMostOneLoop
SYMMETRY Symmetry
CHECK_DEADLOCK FALSE
