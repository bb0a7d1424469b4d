CONSTANTS
  Calls = {c1, c2, c3}
  Dispatcher = dispatcher
  Stopper = stopper
  MaxRevocations = 1
SPECIFICATION LatchSpec
INVARIANT TimeoutFailsOwnAttempt
CHECK_DEADLOCK FALSE
