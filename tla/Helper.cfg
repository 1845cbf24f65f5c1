\* Two blocks, two tunnels, three requests; crashes, SIGTERMs, updates, refusals, a hand.
SPECIFICATION FairSpec
CONSTANTS
  w1 = w1
  w2 = w2
  None = None
  Holds = {w1, w2}
  Requests <- MCRequests
  MaxRequests = 3
  MaxStarts = 2
  MaxFaults = 2
CHECK_DEADLOCK FALSE
INVARIANTS TypeOK Behind OneTunnel
PROPERTIES BlockStays NamesAreKept NamesComeBack
