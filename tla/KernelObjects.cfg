SPECIFICATION Spec
CONSTANTS
  Processes = {bootstrap, loader, service}
  bootstrap = bootstrap
  loader = loader
  service = service
  Bootstrap = bootstrap
  Kernel = Kernel
  Threads = {t0, t1}
  t0 = t0
  t1 = t1
  FirstThread = t0
  Allocated = {info, module}
  info = info
  module = module
  framebuffer = framebuffer
  MMIO = {framebuffer}
  BootInfo = info
  None = None
  Capabilities = {"ManageCaps", "MapMMIO", "ManageProcesses"}
  ObjectPages = 2
  LastPage = 3
  SearchStart = 2
  MaxHandles = 3
  LateFailures = FALSE
INVARIANTS
  TypeOK
  RefcountExact
  LiveWhileReferenced
  MappingsDisjoint
  PagesMatchMappings
  CapabilitiesConfined
CONSTRAINT
  ThirdProcessBound
CHECK_DEADLOCK FALSE
