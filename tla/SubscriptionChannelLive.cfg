SPECIFICATION FairSpec
CONSTANTS
  Senders = {s1, s2}
  First = s1
  Terminator = term
  Capacity = 1
  MaxUpdates = 1
  Errors = {dataloss}
  NoError = none
PROPERTIES NoLostWakeup ClosureReported SendResolves
