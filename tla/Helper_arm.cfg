\* A block stands and the next start cannot arm its own.
SPECIFICATION Spec
CONSTANTS
  w1 = w1
  w2 = w2
  None = None
  Holds = {w1, w2}
  Requests <- MCRequests
  MaxRequests = 2
  MaxStarts = 2
  MaxFaults = 1
CHECK_DEADLOCK FALSE
INVARIANT Held
