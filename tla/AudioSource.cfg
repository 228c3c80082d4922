CONSTANTS
  BlockCount <- MCBlockCount
  MaxFrames <- MCMaxFrames
  MaxOverrun <- MCMaxOverrun
  Interrupt = TRUE
SPECIFICATION Spec
INVARIANTS TypeOK NoTornBlock
PROPERTIES LatestBlockEventuallyRead
CHECK_DEADLOCK FALSE
