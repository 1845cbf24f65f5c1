CONSTANTS
  h1 = h1
  h2 = h2
  l1 = l1
  l2 = l2
  run = run
  refresh = refresh
  proxy = proxy
  tun = tun
  closed = closed
  Handlers = {h1}
  Run = run
  RefreshLoop = refresh
  Loops = {l1, l2}
  Selections = {tun, closed}
  Tun = {tun, closed}
  KillSwitch = {closed}
  Verbs = {"connect", "disconnect"}
  Faults = {"add", "remove", "save", "crash"}
  Free = Free
  None = None
  NoLoop = NoLoop
SPECIFICATION Spec
SYMMETRY LoopSymmetry
INVARIANTS TypeOK OneLoop NoOrphan SwitchStands InboundRules IdleIsOpen ShownIsRunning
PROPERTIES SwitchHeld SessionSpec
