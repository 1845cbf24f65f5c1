CONSTANTS
  A = A
  B = B
  p = p
  a1 = a1
  a2 = a2
  x = x
  y = y
  de = de
  h1 = h1
  Handlers = {h1}
  Tick = tick
  Loop = loop
  Refreshers = {tick}
  Remote = {A}
  Inline = {B}
  Hosts <- SomeHosts
  Stored <- SomeStored
  Lines <- SomeLines
  Labels = {x, y}
  Usable = {x, y}
  Raws = {a1, a2, B}
  CountryOf <- SomeCountry
  Matches <- SomeMatches
  Asks <- SomeAsks
  Refused = Refused
  Down = Down
  Slots = 1
  Verbs = {"connect", "remove", "add", "addInline"}
  Faults = {}
  MaxRequests = 1
  None = None
  Free = Free
SPECIFICATION FairSpec
INVARIANTS TypeOK TriesItsList
PROPERTIES KeepsItsList StaysInItsList ComesBack Rotates
