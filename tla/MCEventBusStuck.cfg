SPECIFICATION MCFairSpec
CONSTANTS
  candle = candle
  signal = signal
  onCandle = onCandle
  onSignal = onSignal
  Topics = {candle, signal}
  Publishers = {feed}
  Subscriptions = {onCandle, onSignal}
  Listens <- Heard
  Emits <- Emitted
  MaxQueue = 1
  MaxEvents = 4
PROPERTIES
  PublishReturns
