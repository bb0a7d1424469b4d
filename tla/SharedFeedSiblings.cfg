SPECIFICATION Spec
CONSTANTS
  Topics = {a, b}
  ImageConsumers = {image}
  DeltaConsumers = {}
  Slots = {0, 1}
  NoKey = NoKey
  MaxFeeds = 2
  MaxEvents = 1
INVARIANTS HealthyStaysSubscribed
CHECK_DEADLOCK FALSE
