SPECIFICATION MCSpec
CONSTANTS
  Symbols = {a}
  Prices = {0, 2, 3}
  OrderSizes = {0, 1, 2, 3, 4, 5}
  InitialCash = 1900
  Slip = 1
  SlipDen = 10
  Comm = 1
  CommDen = 10
  Dust = 1
  Cent = 10
  DrawdownDen = 1000
  MaxDrawdown = 100
  PctDen = 20
  MaxPosition = 10
  MaxExposure = 12
  StrengthDen = 10
  MinStrength = 1
  Features <- Lively
  MomentumPct = 7
  SentimentPct = 10
  MomentumFloor = 1
  SentimentFloor = 1
  MaxOrders = 5
INVARIANTS
  LoopTypeOK
  CashNeverNegative
PROPERTIES
  SalesCloseWhole
  RejectedExitIsSecond
  BreakerLatches
  KeepsJournal
