CONSTANTS
  h1 = h1
  h2 = h2
  l1 = l1
  l2 = l2
  run = run
  refresh = refresh
  proxy = proxy
  tun = tun
  closed = closed
  Handlers = {h1, h2}
  Run = run
  RefreshLoop = refresh
  Loops = {l1, l2}
  Selections = {tun}
  Tun = {tun}
  KillSwitch = {}
  Verbs = {"connect"}
  Faults = {}
  Free = Free
  None = None
  NoLoop = NoLoop
SPECIFICATION Spec
SYMMETRY LoopSymmetry
INVARIANT StoredIsRunning
