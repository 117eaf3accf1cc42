SPECIFICATION MCFairSpec
CONSTANTS
  candle = candle
  signal = signal
  onCandle = onCandle
  onSignal = onSignal
  Topics = {candle, signal}
  Publishers = {feed, news}
  Subscriptions = {onCandle, onSignal}
  Listens <- Heard
  Emits <- Emitted
  MaxQueue = 2
  MaxEvents = 5
INVARIANTS
  TypeOK
  QueueIsRest
PROPERTIES
  KeepsOrder
  StuckForGood
  PublishReturnsOrStuck
