SPECIFICATION Spec
\* Every change may have been made and every connection lost.
CHECK_DEADLOCK FALSE
CONSTANTS
  MaxWrites = 2
  MaxLosses = 1
  Unreadable = {}
INVARIANT ExactAfterReconnect
