SPECIFICATION Spec
CONSTANTS
  ap = ap
  u1 = u1
  u2 = u2
  u3 = u3
  CPUs = {bsp, ap}
  bsp = bsp
  BSP = bsp
  BootYielders = {bsp}
  UserThreads = {u1, u2, u3}
  First = u1
  Yielding = {u1, u2, u3}
  Exiting = {u1, u2, u3}
  Starts <- AllStarts
  t1 = u1
  t2 = u2
  t3 = u3
  SliceTicks = 2
  MaxSkip = 16
  NoThread = NoThread
INVARIANTS
  TypeOK
  QueueDiscipline
  EntryStateOwn
PROPERTIES
  WaitingNeverLost
