CONSTANTS
  MaxReports <- MCMaxReports
  QueueLen <- MCQueueLen
SPECIFICATION Spec
INVARIANTS TypeOK SingleOwner
PROPERTIES EveryResultFreed
CHECK_DEADLOCK FALSE
