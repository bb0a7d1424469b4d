SPECIFICATION SinkSpec
CONSTANTS
  Senders = {s1, s2}
  First = s1
  Terminator = term
  Capacity = 2
  MaxUpdates = 2
  Errors = {revoked}
  NoError = none
  Nobody = nobody
  MaxItems = 1
  MaxMessages = 4
INVARIANTS
  IInv
  NothingAfterTerminal EndsForAReason
  NoSilentLoss 
PROPERTIES LossyStream NoDeliveryAfterEnd StreamEnds
CHECK_DEADLOCK FALSE
