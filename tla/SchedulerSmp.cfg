SPECIFICATION FairSpec
CONSTANTS
  ap = ap
  u1 = u1
  u2 = u2
  u3 = u3
  CPUs = {bsp, ap}
  bsp = bsp
  BSP = bsp
  BootYielders = {bsp, ap}
  UserThreads = {u1, u2, u3}
  First = u1
  Yielding = {}
  Exiting = {u1, u2}
  Starts <- ChainStarts
  t1 = u1
  t2 = u2
  t3 = u3
  SliceTicks = 1
  MaxSkip = 16
  NoThread = NoThread
INVARIANTS
  ExclusiveExecution
PROPERTIES
  EveryThreadRuns
