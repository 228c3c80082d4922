CONSTANTS
  MaxReports <- MCMaxReports
  QueueLen <- MCQueueLen
SPECIFICATION Spec
INVARIANTS MlMutexReleased
CHECK_DEADLOCK FALSE
