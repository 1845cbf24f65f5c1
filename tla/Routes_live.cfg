CONSTANTS
  a1 = a1
  a2 = a2
  a3 = a3
  tunAddress = tunAddress
  Addresses = {a1, a2}
  TunAddress = tunAddress
  Kernels <- DualStack
  Faults = {"watch"}
  MaxChanges = 3
SPECIFICATION FairSpec
PROPERTIES Follows StopReturns
