----------------------------- MODULE MC_BlinkTask -----------------------------
(* Model-checking instance of BlinkTask: keywords for two LEDs and one    *)
(* state of the default case, a queue of 2 that four calls can fill, the  *)
(* default tick rate of 1000 Hz, and LED calls that may fail.             *)
EXTENDS BlinkTask

MCChanges == {"ML_HEARD_YES", "ML_HEARD_NO", "ML_HEARD_GO", "ML_UNKNOWN"}
MCQueueLen == 2
MCMaxChanges == 4

=============================================================================
