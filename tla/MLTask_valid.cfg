\* Spec 6 (a failed pre/post-processing contributes no result) against ProcessAudio.
CONSTANTS
  MaxNbInference <- MCMaxNbInference
  MaxWindow <- MCMaxWindow
  MaxCalls <- MCMaxCalls
SPECIFICATION Spec
INVARIANTS ReportOnlyValid
CHECK_DEADLOCK FALSE
