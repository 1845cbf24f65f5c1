CONSTANTS
  h1 = h1
  h2 = h2
  l1 = l1
  l2 = l2
  run = run
  refresh = refresh
  proxy = proxy
  tun = tun
  closed = closed
  Handlers = {h1}
  Run = run
  RefreshLoop = refresh
  Loops = {l1}
  Selections = {closed}
  Tun = {closed}
  KillSwitch = {closed}
  Verbs = {"connect", "remove", "refresh"}
  Faults = {}
  Free = Free
  None = None
  NoLoop = NoLoop
SPECIFICATION FairSpec
INVARIANTS LoopLiveExact CurIsHeld
PROPERTIES Answered
