SPECIFICATION FairUserSpec
CONSTANTS
  Processes = {ldr, child}
  ldr = ldr
  child = child
  Bootstrap = ldr
  Child = child
  Kernel = Kernel
  Threads = {t0, t1}
  t0 = t0
  t1 = t1
  FirstThread = t0
  ChildThread = t1
  Allocated = {info, file, image, stack, b1, b2}
  info = info
  file = file
  image = image
  stack = stack
  b1 = b1
  b2 = b2
  BootInfo = info
  File = file
  Image = image
  Stack = stack
  HeapObjects = {b1, b2}
  MMIO = {}
  None = None
  Capabilities = {"ManageCaps", "ManageProcesses"}
  ObjectPages = 4
  LastPage = 13
  SearchStart = 6
  MaxHandles = 9
  LateFailures = TRUE
  BootModules <- MCBootModules
  RequestedIds <- MCRequestedIds
  RequestedCaps <- MCRequestedCaps
  PageSize = 4
  StackPage = 5
  Sizes = {0, 3}
  Alignments = {2, 3, 8}
  HeaderSize = 4
  DefaultAlignment = 2
  NameLength = 1
INVARIANTS
  UserTypeOK
  RunsWhatWasLoaded
  LoaderReleases
  BlocksExact
  MappingsPresent
PROPERTY LoadAnswered
CHECK_DEADLOCK FALSE
