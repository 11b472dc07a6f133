SPECIFICATION FairSpec
CONSTANTS
  ap = ap
  bootstrap = bootstrap
  loader = loader
  pm = pm
  CPUs = {bsp, ap}
  bsp = bsp
  BSP = bsp
  BootYielders = {bsp}
  UserThreads = {bootstrap, loader, pm}
  First = bootstrap
  Yielding = {pm}
  Exiting = {bootstrap}
  Starts <- ChainStarts
  t1 = bootstrap
  t2 = loader
  t3 = pm
  SliceTicks = 2
  MaxSkip = 16
  NoThread = NoThread
PROPERTIES
  EveryThreadRuns
