SPECIFICATION Spec
CONSTANTS
  MaxProcesses = 6
  Capacity = 4
  MayFail = {"GetBootInfo", "GetBootModule"}
  LocalMayFail = TRUE
  ManagerPresent = {TRUE, FALSE}
  Pipelining = {TRUE, FALSE}
INVARIANT AllRequestsSurvive
CHECK_DEADLOCK FALSE
