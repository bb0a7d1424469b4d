SPECIFICATION Spec
CONSTANTS
  Calls = {c1, c2}
  Services = {refdata, mktdata}
  Nobody = nobody
  Dispatcher = dispatcher
  Stopper = stopper
  MaxRevocations = 1
  Claims = {d1, d2}
  MaxSessions = 2
  NoWorker = none
INVARIANTS
  LatchConsistent SlotsConsistent 
  TableConsistent OwnAttempt ShutdownSettlesOpens
  SessionBound CleanHandover StopLeavesNothing
 
SYMMETRY Symmetry
CHECK_DEADLOCK FALSE
