CONSTANTS
  a1 = a1
  a2 = a2
  a3 = a3
  tunAddress = tunAddress
  Addresses = {a1}
  TunAddress = tunAddress
  Kernels <- AnyKernel
  Faults = {"list", "add", "remove"}
  MaxChanges = 1
SPECIFICATION Spec
INVARIANTS TypeOK Closed DropHasRoute FailedInstallOpens IdleIsClean SyncIsExact NoLateSync
