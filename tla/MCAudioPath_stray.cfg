SPECIFICATION Spec
CONSTANTS
  u1 = u1
  o1 = o1
  o2 = o2
  None = None
  b1 = b1
  b2 = b2
  b3 = b3
  b4 = b4
  Cap = 2
  Users = {u1}
  Outs <- TwoOuts
  Bufs = {b1, b2, b3, b4}
  ProviderDrainThreshold = 1
  MaxPackets = 3
  MaxRelayed = 1
  MaxSwitches = 2
SYMMETRY Symmetry
CHECK_DEADLOCK FALSE
INVARIANT NoStray
