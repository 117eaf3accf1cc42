SPECIFICATION MCSpec
CONSTANTS
  Symbols = {a, b, c}
  Prices = {2}
  OrderSizes = {0, 1, 2, 3, 4, 5}
  InitialCash = 2000000
  Slip = 1
  SlipDen = 100
  Comm = 1
  CommDen = 100
  Dust = 1
  Cent = 100
  DrawdownDen = 1000
  MaxDrawdown = 100
  PctDen = 20
  MaxPosition = 4
  MaxExposure = 16
  StrengthDen = 10
  MinStrength = 1
  Features <- Entries
  MomentumPct = 3
  SentimentPct = 4
  MomentumFloor = 2
  SentimentFloor = 3
  MaxOrders = 6
PROPERTIES
  PurchaseFitsExposure
SYMMETRY Symmetry
