\* Two lines of one country, three requests, two processes that die by themselves.
SPECIFICATION FairSpec
CONSTANTS
  A = A
  B = B
  None = None
  Locations = {A, B}
  MaxRequests = 3
  MaxDeaths = 2
CHECK_DEADLOCK FALSE
INVARIANTS TypeOK OnItsLine SomebodyTries HeldAfterDeath BlockIsSaid StopWins
PROPERTIES Noticed
