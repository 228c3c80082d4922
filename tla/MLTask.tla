-------------------------------- MODULE MLTask --------------------------------
(***************************************************************************)
(* The ML inference task and its start/stop control (ml_interface.cc):     *)
(* ml_task, ProcessAudio, ml_task_inference_start/stop, and the two bits   *)
(* ML_EVENT_START, ML_EVENT_STOP of the event group xAppEvents.            *)
(*                                                                         *)
(* The callers of ml_task_inference_start/stop are the OTA hooks of        *)
(* main.c (OTA_Not_Active_Hook, OTA_Active_Hook), run by one task: the     *)
(* supervisor below makes a bounded number of such calls, each of which    *)
(* is two event-group operations another task may run between.            *)
(*                                                                         *)
(* The double buffer is abstracted here to its semaphore (dataReady) and   *)
(* the number of the window mlBuffer holds (window); module DSPML models   *)
(* it in full.  The numeric content of pre-processing, inference and       *)
(* post-processing is abstracted to whether each call succeeded.           *)
(***************************************************************************)
EXTENDS Naturals, Sequences

CONSTANTS
  MaxNbInference,  \* maxNbInference: results aggregated before a report
  MaxWindow,       \* windows the DSP side delivers in a run
  MaxCalls         \* start/stop calls the supervisor makes in a run

ASSUME MLTaskAssumption ==
  /\ MaxNbInference \in Nat \ {0}
  /\ MaxWindow \in Nat
  /\ MaxCalls \in Nat

START == "ML_EVENT_START"
STOP  == "ML_EVENT_STOP"

(* One AsrResult, reduced to whether pre- and post-processing both        *)
(* succeeded for it.                                                       *)
Result == [valid : BOOLEAN]

VARIABLES
  events,          \* the ML bits of xAppEvents that are set
  mlPc,            \* where ml_task is
  inferenceIndex,  \* ProcessAudio's inferenceIndex
  results,         \* ProcessAudio's results vector
  reported,        \* history: the result vectors passed to PresentInferenceResult
  dataReady,       \* DSPML's binary semaphore
  window,          \* window number the DSP side last published
  supPc,           \* where the supervisor is in a start or stop call
  calls,           \* start/stop calls made so far
  lastRequest,     \* history: the last call the supervisor completed
  sinceStop        \* history: windows the task took since the last stop completed

vars == <<events, mlPc, inferenceIndex, results, reported, dataReady,
          window, supPc, calls, lastRequest, sinceStop>>

-----------------------------------------------------------------------------
(* ml_task starts blocked in xEventGroupWaitBits for ML_EVENT_START; the   *)
(* event group is created empty.  (xMlMutex creation failing ends the task *)
(* before it waits; that path is the same as "exited" here.)               *)
Init ==
  /\ events = {}
  /\ mlPc = "initialStart"
  /\ inferenceIndex = 0
  /\ results = <<>>
  /\ reported = <<>>
  /\ dataReady = FALSE
  /\ window = 0
  /\ supPc = "idle"
  /\ calls = 0
  /\ lastRequest = "none"
  /\ sinceStop = 0

-----------------------------------------------------------------------------
(* ml_task_inference_start: xEventGroupClearBits(STOP), then               *)
(* xEventGroupSetBits(START).                                              *)
InferenceStartClear ==
  /\ supPc = "idle"
  /\ calls < MaxCalls
  /\ events' = events \ {STOP}
  /\ supPc' = "startSet"
  /\ calls' = calls + 1
  /\ UNCHANGED <<mlPc, inferenceIndex, results, reported, dataReady,
                 window, lastRequest, sinceStop>>

(* Mutant: the start call forgets to set ML_EVENT_START.                   *)
InferenceStartSetMissing ==
  /\ supPc = "startSet"
  /\ supPc' = "idle"
  /\ lastRequest' = "start"
  /\ UNCHANGED <<events, mlPc, inferenceIndex, results, reported,
                 dataReady, window, calls, sinceStop>>

InferenceStartSet ==
  /\ supPc = "startSet"
  /\ events' = events \cup {START}
  /\ supPc' = "idle"
  /\ lastRequest' = "start"
  /\ UNCHANGED <<mlPc, inferenceIndex, results, reported, dataReady,
                 window, calls, sinceStop>>

(* ml_task_inference_stop: xEventGroupClearBits(START), then               *)
(* xEventGroupSetBits(STOP).                                               *)
InferenceStopClear ==
  /\ supPc = "idle"
  /\ calls < MaxCalls
  /\ events' = events \ {START}
  /\ supPc' = "stopSet"
  /\ calls' = calls + 1
  /\ UNCHANGED <<mlPc, inferenceIndex, results, reported, dataReady,
                 window, lastRequest, sinceStop>>

InferenceStopSet ==
  /\ supPc = "stopSet"
  /\ events' = events \cup {STOP}
  /\ supPc' = "idle"
  /\ lastRequest' = "stop"
  /\ sinceStop' = 0
  /\ UNCHANGED <<mlPc, inferenceIndex, results, reported, dataReady,
                 window, calls>>

(* The DSP side publishes a new window and gives the semaphore (a binary   *)
(* semaphore: giving it twice leaves it given once).                       *)
DSPDelivers ==
  /\ window < MaxWindow
  /\ window' = window + 1
  /\ dataReady' = TRUE
  /\ UNCHANGED <<events, mlPc, inferenceIndex, results, reported,
                 supPc, calls, lastRequest, sinceStop>>

-----------------------------------------------------------------------------
(* ml_task: xEventGroupWaitBits(START, clear on exit, portMAX_DELAY).      *)
(* portMAX_DELAY never times out, so the error branch is unreachable.      *)
WaitInitialStart ==
  /\ mlPc = "initialStart"
  /\ START \in events
  /\ events' = events \ {START}
  /\ mlPc' = "interfaceInit"
  /\ UNCHANGED <<inferenceIndex, results, reported, dataReady, window,
                 supPc, calls, lastRequest, sinceStop>>

(* ml_interface_init: NPU and model set-up; on failure the task returns.   *)
InterfaceInit ==
  /\ mlPc = "interfaceInit"
  /\ \E ok \in BOOLEAN : mlPc' = IF ok THEN "pollStop" ELSE "exited"
  /\ UNCHANGED <<events, inferenceIndex, results, reported, dataReady,
                 window, supPc, calls, lastRequest, sinceStop>>

(* ProcessAudio loop head: vTaskDelay(10), then the non-blocking           *)
(* xEventGroupWaitBits(STOP, clear on exit, 0); STOP set: leave for the    *)
(* restart loop.  results and inferenceIndex are kept.                     *)
(* Mutant: the poll tests the wrong bit and never sees STOP.               *)
PollStopBlind ==
  /\ mlPc = "pollStop"
  /\ mlPc' = "waitData"
  /\ UNCHANGED <<events, inferenceIndex, results, reported, dataReady,
                 window, supPc, calls, lastRequest, sinceStop>>

PollStop ==
  /\ mlPc = "pollStop"
  /\ IF STOP \in events
       THEN /\ events' = events \ {STOP}
            /\ mlPc' = "restartWait"
       ELSE /\ mlPc' = "waitData"
            /\ UNCHANGED events
  /\ UNCHANGED <<inferenceIndex, results, reported, dataReady, window,
                 supPc, calls, lastRequest, sinceStop>>

(* dspMLConnection->waitForDSPData(): blocks until the DSP side gives.     *)
WaitForDSPData ==
  /\ mlPc = "waitData"
  /\ dataReady
  /\ dataReady' = FALSE
  /\ mlPc' = "infer"
  /\ sinceStop' = sinceStop + 1
  /\ UNCHANGED <<events, inferenceIndex, results, reported, window,
                 supPc, calls, lastRequest>>

(* One iteration after the wait: copyFromMLBufferInto, the timestamp,      *)
(* DoPreProcess (failure only logged), RunInference (failure returns from *)
(* the task), DoPostProcess (failure only logged), the AsrResult appended, *)
(* and when inferenceIndex reaches maxNbInference: reset, report the       *)
(* results through PresentInferenceResult (which always returns true), and *)
(* clear them.                                                             *)
(* Mutant: inferenceIndex is not reset when the results are flushed.       *)
InferNoReset ==
  /\ mlPc = "infer"
  /\ \E pre, run, post \in BOOLEAN :
       IF ~run
         THEN /\ mlPc' = "exited"
              /\ UNCHANGED <<inferenceIndex, results, reported>>
         ELSE LET res == Append(results, [valid |-> pre /\ post])
              IN /\ mlPc' = "pollStop"
                 /\ inferenceIndex' = inferenceIndex + 1
                 /\ IF inferenceIndex + 1 = MaxNbInference
                      THEN /\ reported' = Append(reported, res)
                           /\ results' = <<>>
                      ELSE /\ results' = res
                           /\ UNCHANGED reported
  /\ UNCHANGED <<events, dataReady, window, supPc, calls, lastRequest,
                 sinceStop>>

Infer ==
  /\ mlPc = "infer"
  /\ \E pre, run, post \in BOOLEAN :
       IF ~run
         THEN /\ mlPc' = "exited"
              /\ UNCHANGED <<inferenceIndex, results, reported>>
         ELSE LET res == Append(results, [valid |-> pre /\ post])
              IN /\ mlPc' = "pollStop"
                 /\ IF inferenceIndex + 1 = MaxNbInference
                      THEN /\ inferenceIndex' = 0
                           /\ reported' = Append(reported, res)
                           /\ results' = <<>>
                      ELSE /\ inferenceIndex' = inferenceIndex + 1
                           /\ results' = res
                           /\ UNCHANGED reported
  /\ UNCHANGED <<events, dataReady, window, supPc, calls, lastRequest,
                 sinceStop>>

(* Restart loop: xEventGroupWaitBits(START, clear on exit, portMAX_DELAY). *)
RestartWait ==
  /\ mlPc = "restartWait"
  /\ START \in events
  /\ events' = events \ {START}
  /\ mlPc' = "pollStop"
  /\ UNCHANGED <<inferenceIndex, results, reported, dataReady, window,
                 supPc, calls, lastRequest, sinceStop>>

-----------------------------------------------------------------------------
SupervisorNext ==
  \/ InferenceStartClear \/ InferenceStartSet
  \/ InferenceStopClear \/ InferenceStopSet

TaskNext ==
  \/ WaitInitialStart \/ InterfaceInit \/ PollStop \/ WaitForDSPData
  \/ Infer \/ RestartWait

Next == SupervisorNext \/ DSPDelivers \/ TaskNext

(* The ML task runs whenever it is not blocked, and the OTA task that      *)
(* began a hook finishes it.  Neither new windows nor new calls are owed.  *)
Fairness ==
  /\ WF_vars(TaskNext)
  /\ WF_vars(InferenceStartSet \/ InferenceStopSet)

Spec == Init /\ [][Next]_vars /\ Fairness

-----------------------------------------------------------------------------
TypeOK ==
  /\ events \subseteq {START, STOP}
  /\ mlPc \in {"initialStart", "interfaceInit", "pollStop", "waitData",
               "infer", "restartWait", "exited"}
  /\ inferenceIndex \in 0 .. MaxNbInference - 1
  /\ results \in Seq(Result) /\ Len(results) = inferenceIndex
  /\ reported \in Seq(Seq(Result))
  /\ dataReady \in BOOLEAN
  /\ window \in 0 .. MaxWindow
  /\ supPc \in {"idle", "startSet", "stopSet"}
  /\ calls \in 0 .. MaxCalls
  /\ lastRequest \in {"none", "start", "stop"}
  /\ sinceStop \in Nat

(* Cooperative stop (spec section 5, 8): once a stop call has completed,   *)
(* and no start call has since, the ML task takes at most one more window *)
(* from the double buffer, the one of the iteration already under way.     *)
StopTakesEffect ==
  (lastRequest = "stop" /\ supPc = "idle") => sinceStop <= 1

(* A completed start call that no stop call follows brings the task back   *)
(* to processing audio (or it has exited on a failure): the START bit set  *)
(* by ml_task_inference_start is never lost.                               *)
StartResumes ==
  (lastRequest = "start" /\ supPc = "idle")
    ~> (mlPc \in {"pollStop", "waitData", "infer", "exited"}
          \/ lastRequest = "stop" \/ supPc # "idle")

(* Spec section 6: an iteration whose pre- or post-processing failed      *)
(* contributes no result; so every reported result is a valid one.         *)
ReportOnlyValid ==
  \A i \in 1 .. Len(reported) :
    \A j \in 1 .. Len(reported[i]) : reported[i][j].valid

=============================================================================
