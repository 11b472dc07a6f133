SPECIFICATION Spec
CONSTANTS
  Processes = {bootstrap, loader}
  bootstrap = bootstrap
  loader = loader
  Bootstrap = bootstrap
  Kernel = Kernel
  Threads = {t0, t1}
  t0 = t0
  t1 = t1
  FirstThread = t0
  Allocated = {info, module}
  info = info
  module = module
  framebuffer = framebuffer
  MMIO = {framebuffer}
  BootInfo = info
  None = None
  Capabilities = {"ManageCaps", "MapMMIO", "ManageProcesses"}
  ObjectPages = 2
  LastPage = 3
  SearchStart = 2
  MaxHandles = 3
  LateFailures = TRUE
INVARIANTS
  FreedFramesUnmapped
CHECK_DEADLOCK FALSE
