\* Start/stop control of the ML task.
CONSTANTS
  MaxNbInference <- MCMaxNbInference
  MaxWindow <- MCMaxWindow
  MaxCalls <- MCMaxCalls
SPECIFICATION Spec
INVARIANTS TypeOK StopTakesEffect
PROPERTIES StartResumes
\* The ML task really stops: it returns after a failed ml_interface_init or
\* RunInference, and blocks forever once no window or START comes.
CHECK_DEADLOCK FALSE
