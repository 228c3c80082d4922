CONSTANTS
  QueueLen <- MCQueueLen
  MaxRequests <- MCMaxRequests
  SetupMayFail = FALSE
SPECIFICATION Spec
INVARIANTS TypeOK
PROPERTIES StopHonoured
CHECK_DEADLOCK FALSE
