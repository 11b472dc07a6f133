SPECIFICATION Spec
CONSTANTS
  FANOUT = 2
  Processes = {p, q}
  p = p
  q = q
  Kernel = Kernel
  BootTables <- Boot
  BootRoot = 100
  Pool = {10, 11, 12, 13, 14, 15, 16, 17, 18, 19, 20, 21, 22, 23}
  MapPages = {0, 1, 6}
  MapFrames = {50}
  MapFlags <- Access
  None = None
INVARIANTS
  TypeOK
  TablesSound
  QueryTruthful
PROPERTY ImplementsAddressSpaces
