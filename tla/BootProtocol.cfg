SPECIFICATION FairSpec
CONSTANTS
  MaxProcesses = 6
  Capacity = 4
  MayFail = {"GetBootInfo", "GetBootModule"}
  LocalMayFail = TRUE
  ManagerPresent = {TRUE, FALSE}
  Pipelining = {TRUE, FALSE}
INVARIANTS
  TypeOK
  DeliveredInOrder
  AnswerWaiting
  AnswersAuthentic
  RequestsSurvive
  ReplyTruthful
PROPERTIES
  NoEndlessWait
  BootEnds
  RequestsAnswered
CHECK_DEADLOCK FALSE
