SPECIFICATION Spec
CONSTANTS
  Keys = {k1, k2}
  Limit = 2
  MaxChanges = 2
SYMMETRY KeySymmetry
INVARIANTS DeliveryConsistent WaitingIsWoken DrainComplete
PROPERTIES ImplementsView
CHECK_DEADLOCK FALSE
