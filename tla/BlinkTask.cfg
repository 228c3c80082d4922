\* The blink task with failing LED calls: LEDs follow the accepted
\* classifications in order, and every queued classification is handled.
CONSTANTS
  Changes <- MCChanges
  QueueLen <- MCQueueLen
  MaxChanges <- MCMaxChanges
  TickRateHz = 1000
  LedMayFail = TRUE
SPECIFICATION Spec
INVARIANTS TypeOK LedsFollowLastChange
PROPERTIES EveryChangeHandled
\* Once the ML side stops reporting, blink_task spins in its polling loop
\* and nothing changes any more: a real final state.
CHECK_DEADLOCK FALSE
