CONSTANTS
  MaxReports <- MCMaxReports
  QueueLen <- MCQueueLen
SPECIFICATION Spec
PROPERTIES NoUseAfterFree
CHECK_DEADLOCK FALSE
