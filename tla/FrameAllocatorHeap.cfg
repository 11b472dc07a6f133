SPECIFICATION Spec
CONSTANTS
  MaxFrames = 11
  WordBits = 4
  Usable = {{1, 2}, {4, 5, 6, 7, 8}, {10}}
  LowMemory = {0, 1}
  KernelImage = {3}
  BootStack = {9}
  Failed = Failed
  Idle = Idle
INVARIANT HeapFramesKept
