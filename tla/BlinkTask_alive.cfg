\* The is-alive LED is meant to blink at a fixed interval.
CONSTANTS
  Changes <- MCChanges
  QueueLen <- MCQueueLen
  MaxChanges <- MCMaxChanges
  TickRateHz = 1000
  LedMayFail = FALSE
SPECIFICATION Spec
PROPERTIES AliveKeepsBlinking
CHECK_DEADLOCK FALSE
