SPECIFICATION MCFairSpec
CONSTANTS
  Symbols = {a, b}
  Prices = {2}
  OrderSizes = {0, 1, 2, 3, 4, 5}
  InitialCash = 4000
  Slip = 1
  SlipDen = 10
  Comm = 1
  CommDen = 10
  Dust = 1
  Cent = 10
  DrawdownDen = 1000
  MaxDrawdown = 100
  PctDen = 20
  MaxPosition = 4
  MaxExposure = 12
  StrengthDen = 10
  MinStrength = 1
  Features <- Entries
  MomentumPct = 8
  SentimentPct = 10
  MomentumFloor = 1
  SentimentFloor = 1
  MaxOrders = 4
INVARIANTS
  PositionCap
PROPERTIES
  FirstPurchaseFitsExposure
  EverySymbolServed
  CyclesGoOn
