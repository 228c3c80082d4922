\* The double buffer with the mutex created: integrity, monotonicity, liveness, and the refinement to LatestWindow.
CONSTANTS
  MaxWindow <- MCMaxWindow
  MutexCreated = TRUE
SPECIFICATION Spec
INVARIANTS TypeOK WindowIntegrity
PROPERTIES ReadsMonotonic LatestEventuallyRead ImplementsLatestWindow
\* The DSP scheduler may stop for good (dsp_task_stop); the ML task then
\* blocks in waitForDSPData forever: a real final state.
CHECK_DEADLOCK FALSE
