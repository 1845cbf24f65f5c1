CONSTANTS
  A = A
  B = B
  a1 = a1
  h1 = h1
  h2 = h2
  Handlers = {h1, h2}
  Tick = tick
  Loop = loop
  Refreshers = {}
  Remote = {A, B}
  Inline = {}
  Hosts <- SomeHosts
  Stored <- SomeStored
  Refused = Refused
  Down = Down
  Slots = 1
  Verbs = {"add"}
  Faults = {}
  MaxRequests = 2
  None = None
  Free = Free
SPECIFICATION Spec
PROPERTY AddedStays
CHECK_DEADLOCK FALSE
