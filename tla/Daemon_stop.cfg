CONSTANTS
  h1 = h1
  h2 = h2
  l1 = l1
  l2 = l2
  run = run
  refresh = refresh
  proxy = proxy
  tun = tun
  closed = closed
  Handlers = {h1}
  Run = run
  RefreshLoop = refresh
  Loops = {l1, l2}
  Selections = {closed}
  Tun = {closed}
  KillSwitch = {closed}
  Verbs = {"connect"}
  Faults = {}
  Free = Free
  None = None
  NoLoop = NoLoop
SPECIFICATION Spec
INVARIANT CleanStopOpens
