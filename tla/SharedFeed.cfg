SPECIFICATION Spec
CONSTANTS
  Topics = {a}
  ImageConsumers = {image}
  DeltaConsumers = {delta}
  Slots = {0}
  NoKey = NoKey
  MaxFeeds = 2
  MaxEvents = 2
INVARIANTS HubConsistent NoPhantomFeed  RecoveryIsUnderWay
PROPERTIES RecoveryEnds
CHECK_DEADLOCK FALSE
