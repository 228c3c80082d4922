------------------------------ MODULE MC_MLTask ------------------------------
(* Model-checking instance of MLTask: the code's maxNbInference of 2,      *)
(* enough windows to report twice, and three start/stop calls so that a    *)
(* start, a stop and a restart all happen within one run.                  *)
EXTENDS MLTask

MCMaxNbInference == 2
MCMaxWindow == 4
MCMaxCalls == 3

=============================================================================
