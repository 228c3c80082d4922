CONSTANTS
  BlockCount <- MCPollBlockCount
  MaxFrames <- MCPollMaxFrames
  MaxOverrun = 0
  Interrupt = FALSE
SPECIFICATION Spec
INVARIANTS ReadsFromBlockZero
CHECK_DEADLOCK FALSE
