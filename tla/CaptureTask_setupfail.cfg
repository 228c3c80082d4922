CONSTANTS
  QueueLen <- MCQueueLen
  MaxRequests <- MCMaxRequests
  SetupMayFail = TRUE
SPECIFICATION Spec
PROPERTIES StopHonoured
CHECK_DEADLOCK FALSE
