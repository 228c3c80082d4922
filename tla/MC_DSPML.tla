------------------------------- MODULE MC_DSPML -------------------------------
(* Model-checking instance of DSPML: four windows, so that the DSP side   *)
(* can lap the ML side twice (each buffer is rewritten) within one run.   *)
EXTENDS DSPML

MCMaxWindow == 4

=============================================================================
