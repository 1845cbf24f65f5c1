CONSTANTS
  a1 = a1
  a2 = a2
  a3 = a3
  tunAddress = tunAddress
  Addresses = {a1}
  TunAddress = tunAddress
  Kernels <- V4Only
  Faults = {}
  MaxChanges = 1
SPECIFICATION Spec
INVARIANT V6HalfIsSkipped
