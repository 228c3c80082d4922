---------------------------- MODULE MLTask_proofs ----------------------------
(***************************************************************************)
(* Proofs about MLTask: the ML task state stays well typed, and a stop     *)
(* call that has completed lets the task take at most one more window, for *)
(* every maxNbInference, number of windows and number of calls.            *)
(***************************************************************************)
EXTENDS MLTask, TLAPS

(* The supervisor has completed a stop call and made no call since.        *)
Stopped == lastRequest = "stop" /\ supPc = "idle"

(* StopTakesEffect is not inductive: it says nothing of what the ML task   *)
(* will still do.  SInv adds what a stop leaves behind: ML_EVENT_START     *)
(* stays clear from the clear of the stop call on (only the supervisor     *)
(* sets it), and ML_EVENT_STOP stays set until the loop head's poll        *)
(* consumes it, so a task that has not yet reached that poll is at most    *)
(* one window past the stop, and a task waiting for data has taken none.  *)
SInv ==
  /\ TypeOK
  /\ supPc = "stopSet" => START \notin events
  /\ Stopped =>
       /\ START \notin events
       /\ sinceStop <= 1
       /\ mlPc \in {"interfaceInit", "pollStop", "waitData", "infer"} => STOP \in events
       /\ mlPc = "waitData" => sinceStop = 0

-----------------------------------------------------------------------------
USE MLTaskAssumption DEF START, STOP

(* The initial state is well typed.                                        *)
LEMMA InitTypeOK == Init => TypeOK
<1> SUFFICES ASSUME Init PROVE TypeOK
  OBVIOUS
<1>1. 0 \in 0 .. MaxNbInference - 1 /\ 0 \in 0 .. MaxWindow /\ 0 \in 0 .. MaxCalls
  OBVIOUS
<1>2. results \in Seq(Result) /\ reported \in Seq(Seq(Result)) /\ Len(results) = 0
  BY DEF Init
<1>3. QED
  BY <1>1, <1>2, Zenon DEF Init, TypeOK

(* Infer keeps the types: the results vector grows by one AsrResult, or   *)
(* is handed to PresentInferenceResult and cleared when inferenceIndex     *)
(* reaches maxNbInference.                                                 *)
LEMMA InferTypeOK == TypeOK /\ Infer => TypeOK'
<1> SUFFICES ASSUME TypeOK, Infer PROVE TypeOK'
  OBVIOUS
<1>1. PICK pre, run, post \in BOOLEAN :
        IF ~run
          THEN /\ mlPc' = "exited"
               /\ UNCHANGED <<inferenceIndex, results, reported>>
          ELSE LET res == Append(results, [valid |-> pre /\ post])
               IN /\ mlPc' = "pollStop"
                  /\ IF inferenceIndex + 1 = MaxNbInference
                       THEN /\ inferenceIndex' = 0
                            /\ reported' = Append(reported, res)
                            /\ results' = <<>>
                       ELSE /\ inferenceIndex' = inferenceIndex + 1
                            /\ results' = res
                            /\ UNCHANGED reported
  BY DEF Infer
<1> DEFINE res == Append(results, [valid |-> pre /\ post])
<1>2. res \in Seq(Result) /\ Len(res) = inferenceIndex + 1
  BY <1>1 DEF TypeOK, Result
<1>3. UNCHANGED <<events, dataReady, window, supPc, calls, lastRequest, sinceStop>>
  BY DEF Infer
<1>4. CASE ~run
  BY <1>1, <1>3, <1>4 DEF TypeOK
<1>5. CASE run /\ inferenceIndex + 1 = MaxNbInference
  <2>1. inferenceIndex' = 0 /\ results' = <<>> /\ reported' = Append(reported, res)
        /\ mlPc' = "pollStop"
    BY <1>1, <1>5
  <2>2. reported' \in Seq(Seq(Result)) /\ results' \in Seq(Result) /\ Len(results') = 0
    BY <1>2, <2>1 DEF TypeOK
  <2>3. QED
    BY <1>3, <2>1, <2>2 DEF TypeOK
<1>6. CASE run /\ inferenceIndex + 1 # MaxNbInference
  <2>1. inferenceIndex' = inferenceIndex + 1 /\ results' = res /\ reported' = reported
        /\ mlPc' = "pollStop"
    BY <1>1, <1>6
  <2>2. inferenceIndex' \in 0 .. MaxNbInference - 1
    BY <1>6, <2>1 DEF TypeOK
  <2>3. QED
    BY <1>2, <1>3, <2>1, <2>2 DEF TypeOK
<1>7. QED
  BY <1>4, <1>5, <1>6

(* Every step keeps the types.                                             *)
LEMMA NextTypeOK == TypeOK /\ [Next]_vars => TypeOK'
<1> SUFFICES ASSUME TypeOK, [Next]_vars PROVE TypeOK'
  OBVIOUS
<1>1. CASE InferenceStartClear
  BY <1>1 DEF InferenceStartClear, TypeOK
<1>2. CASE InferenceStartSet
  BY <1>2 DEF InferenceStartSet, TypeOK
<1>3. CASE InferenceStopClear
  BY <1>3 DEF InferenceStopClear, TypeOK
<1>4. CASE InferenceStopSet
  BY <1>4 DEF InferenceStopSet, TypeOK
<1>5. CASE DSPDelivers
  BY <1>5 DEF DSPDelivers, TypeOK
<1>6. CASE WaitInitialStart
  BY <1>6 DEF WaitInitialStart, TypeOK
<1>7. CASE InterfaceInit
  BY <1>7 DEF InterfaceInit, TypeOK
<1>8. CASE PollStop
  BY <1>8 DEF PollStop, TypeOK
<1>9. CASE WaitForDSPData
  <2>1. sinceStop' \in Nat
    BY <1>9 DEF WaitForDSPData, TypeOK
  <2>2. QED
    BY <1>9, <2>1, Zenon DEF WaitForDSPData, TypeOK
<1>10. CASE Infer
  BY <1>10, InferTypeOK
<1>11. CASE RestartWait
  BY <1>11 DEF RestartWait, TypeOK
<1>12. CASE UNCHANGED vars
  BY <1>12 DEF vars, TypeOK
<1>13. QED
  BY <1>1, <1>2, <1>3, <1>4, <1>5, <1>6, <1>7, <1>8, <1>9, <1>10, <1>11, <1>12
  DEF Next, SupervisorNext, TaskNext

(* The ML task's state, the event bits and the supervisor's counters are   *)
(* always well typed.                                                      *)
THEOREM TypeCorrect == Spec => []TypeOK
BY InitTypeOK, NextTypeOK, PTL DEF Spec

(* The initial state satisfies SInv: no call has been made.                *)
LEMMA InitSInv == Init => SInv
BY InitTypeOK DEF Init, SInv, Stopped

(* Every step keeps SInv.  The supervisor's stop sets ML_EVENT_STOP with   *)
(* ML_EVENT_START already clear and the window count reset; only the      *)
(* supervisor sets START; only the loop head's poll clears STOP, and it    *)
(* then goes to the restart wait, which START never releases.             *)
LEMMA NextSInv == SInv /\ [Next]_vars => SInv'
<1> SUFFICES ASSUME SInv, [Next]_vars PROVE SInv'
  OBVIOUS
<1>0. TypeOK'
  BY NextTypeOK DEF SInv
<1>1. CASE InferenceStartClear
  BY <1>0, <1>1 DEF InferenceStartClear, SInv, Stopped
<1>2. CASE InferenceStartSet
  BY <1>0, <1>2 DEF InferenceStartSet, SInv, Stopped
<1>3. CASE InferenceStopClear
  BY <1>0, <1>3 DEF InferenceStopClear, SInv, Stopped
<1>4. CASE InferenceStopSet
  BY <1>0, <1>4 DEF InferenceStopSet, SInv, Stopped
<1>5. CASE DSPDelivers
  BY <1>0, <1>5 DEF DSPDelivers, SInv, Stopped
<1>6. CASE WaitInitialStart
  BY <1>0, <1>6 DEF WaitInitialStart, SInv, Stopped
<1>7. CASE InterfaceInit
  BY <1>0, <1>7 DEF InterfaceInit, SInv, Stopped
<1>8. CASE PollStop
  BY <1>0, <1>8 DEF PollStop, SInv, Stopped
<1>9. CASE WaitForDSPData
  BY <1>0, <1>9 DEF WaitForDSPData, SInv, Stopped
<1>10. CASE Infer
  <2>1. mlPc' \in {"exited", "pollStop"}
    BY <1>10 DEF Infer
  <2>2. QED
    BY <1>0, <1>10, <2>1 DEF Infer, SInv, Stopped
<1>11. CASE RestartWait
  BY <1>0, <1>11 DEF RestartWait, SInv, Stopped
<1>12. CASE UNCHANGED vars
  BY <1>0, <1>12 DEF vars, SInv, Stopped
<1>13. QED
  BY <1>1, <1>2, <1>3, <1>4, <1>5, <1>6, <1>7, <1>8, <1>9, <1>10, <1>11, <1>12
  DEF Next, SupervisorNext, TaskNext

(* Cooperative stop, for every maxNbInference, number of windows and of   *)
(* calls: once ml_task_inference_stop has returned, and until the next     *)
(* start call, the ML task takes at most one more window from the double   *)
(* buffer, the one its iteration already under way was waiting for.      *)
THEOREM StopTakesEffectHolds == Spec => []StopTakesEffect
<1>1. SInv => StopTakesEffect
  BY DEF SInv, Stopped, StopTakesEffect
<1>2. QED
  BY InitSInv, NextSInv, <1>1, PTL DEF Spec

=============================================================================
