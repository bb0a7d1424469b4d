SPECIFICATION Spec
CONSTANTS
  Senders = {s1, s2}
  First = s1
  Terminator = term
  Capacity = 1
  MaxUpdates = 2
  Errors = {dataloss}
  NoError = none
INVARIANTS IInv NoSilentGap
PROPERTIES EofIsFinal StrictStream
