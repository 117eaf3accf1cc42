SPECIFICATION MCSpec
CONSTANTS
  Symbols = {a, b}
  Prices = {2, 3}
  OrderSizes = {0, 1, 3}
  InitialCash = 2000
  Slip = 1
  SlipDen = 10
  Comm = 1
  CommDen = 10
  Dust = 1
  MaxFills = 3
INVARIANTS
  EngineTypeOK
  Conservation
  EntryWithinPaid
PROPERTIES
  StepAccounting
SYMMETRY Symmetry
