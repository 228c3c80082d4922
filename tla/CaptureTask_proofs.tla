-------------------------- MODULE CaptureTask_proofs --------------------------
(***************************************************************************)
(* Proofs about CaptureTask: the task's state stays well typed, for every *)
(* queue length and number of control requests.                           *)
(***************************************************************************)
EXTENDS CaptureTask, TLAPS

(* AudioDrv_Setup has been called at most once.                           *)
SetupOnce == setupCalls <= 1

(* SetupOnce is not inductive: a state with setupCalls = 1 and            *)
(* first_launch still set would call AudioDrv_Setup again.  dsp_task      *)
(* clears first_launch in the same step as the call, so first_launch set  *)
(* means no call has been made.                                            *)
SetupInv ==
  /\ setupCalls \in Nat
  /\ firstLaunch \in BOOLEAN
  /\ firstLaunch => setupCalls = 0
  /\ SetupOnce

(* Every step keeps SetupInv: only the first launch calls AudioDrv_Setup, *)
(* and it clears first_launch in the same step.                            *)
LEMMA SetupOnceHoldsStep == SetupInv /\ [Next]_vars => SetupInv'
<1> SUFFICES ASSUME SetupInv, [Next]_vars PROVE SetupInv'
  OBVIOUS
<1>1. CASE \E m \in Msg : Send(m)
  BY <1>1 DEF SetupInv, SetupOnce, Send
<1>2. CASE CreateQueue
  BY <1>2 DEF SetupInv, SetupOnce, CreateQueue
<1>3. CASE WaitStart
  BY <1>3 DEF SetupInv, SetupOnce, WaitStart
<1>4. CASE Launch
  <2>1. CASE firstLaunch
    <3>1. setupCalls' = setupCalls + 1 /\ firstLaunch' = FALSE
      BY <1>4, <2>1 DEF Launch
    <3>2. setupCalls = 0
      BY <2>1 DEF SetupInv
    <3>3. setupCalls' = 1
      BY <3>1, <3>2
    <3>4. SetupOnce'
      BY <3>3 DEF SetupOnce
    <3>5. setupCalls' \in Nat
      BY <3>3
    <3>6. QED
      BY <3>1, <3>4, <3>5, Zenon DEF SetupInv
  <2>2. CASE ~firstLaunch
    <3>1. UNCHANGED <<setupCalls, firstLaunch>>
      BY <1>4, <2>2 DEF Launch
    <3>2. QED
      BY <3>1 DEF SetupInv, SetupOnce
  <2>3. QED
    BY <2>1, <2>2
<1>5. CASE SchedIteration
  BY <1>5 DEF SetupInv, SetupOnce, SchedIteration
<1>6. CASE SchedError
  BY <1>6 DEF SetupInv, SetupOnce, SchedError
<1>7. CASE UNCHANGED vars
  BY <1>7 DEF SetupInv, SetupOnce, vars
<1>8. QED
  BY <1>1, <1>2, <1>3, <1>4, <1>5, <1>6, <1>7
     DEF Next, ControlNext, TaskNext

-----------------------------------------------------------------------------
USE CaptureTaskAssumption

(* TypeOK is not inductive alone: its bound on setupCalls needs the fact   *)
(* that a second AudioDrv_Setup call never happens (SetupInv).            *)
CInv == TypeOK /\ SetupInv

(* The initial state: no queue, no message, no call.                       *)
LEMMA InitCInv == Init => CInv
<1> SUFFICES ASSUME Init PROVE CInv
  OBVIOUS
<1>1. queue \in Seq(Msg) /\ Len(queue) <= QueueLen
  BY DEF Init
<1>2. setupCalls \in 0 .. 1 + MaxRequests /\ requests \in 0 .. MaxRequests
  BY DEF Init
<1>3. lastAccepted \in Msg \cup {"none"}
  BY DEF Init
<1>4. TypeOK
  BY <1>1, <1>2, <1>3, Zenon DEF Init, TypeOK
<1>5. SetupInv
  BY DEF Init, SetupInv, SetupOnce
<1>6. QED
  BY <1>4, <1>5 DEF CInv

(* Every step keeps CInv: a send appends only below QueueLen and counts    *)
(* the call up to MaxRequests; the queue only shrinks in dsp_task; the     *)
(* single AudioDrv_Setup call keeps setupCalls at most 1.                  *)
LEMMA NextCInv == CInv /\ [Next]_vars => CInv'
<1> SUFFICES ASSUME CInv, [Next]_vars PROVE CInv'
  OBVIOUS
<1>0. SetupInv'
  BY SetupOnceHoldsStep DEF CInv
<1>1. setupCalls' \in 0 .. 1 + MaxRequests
  BY <1>0 DEF SetupInv, SetupOnce
<1> USE <1>0, <1>1 DEF CInv, TypeOK
<1>2. CASE \E m \in Msg : Send(m)
  <2>1. PICK m \in Msg : Send(m)
    BY <1>2
  <2>2. CASE queueCreated /\ Len(queue) < QueueLen
    BY <2>1, <2>2 DEF Send
  <2>3. CASE ~(queueCreated /\ Len(queue) < QueueLen)
    BY <2>1, <2>3 DEF Send
  <2>4. QED
    BY <2>2, <2>3
<1>3. CASE CreateQueue
  BY <1>3 DEF CreateQueue
<1>4. CASE WaitStart
  <2>1. queue' \in Seq(Msg) /\ Len(queue') <= QueueLen
    BY <1>4 DEF WaitStart
  <2>2. QED
    BY <1>4, <2>1 DEF WaitStart
<1>5. CASE Launch
  <2>1. CASE firstLaunch
    <3>1. PICK ok \in BOOLEAN : driverOk' = ok
      BY <1>5, <2>1 DEF Launch
    <3>2. QED
      BY <1>5, <2>1, <3>1 DEF Launch
  <2>2. CASE ~firstLaunch
    BY <1>5, <2>2 DEF Launch
  <2>3. QED
    BY <2>1, <2>2
<1>6. CASE SchedIteration
  <2>1. queue' \in Seq(Msg) /\ Len(queue') <= QueueLen
    BY <1>6 DEF SchedIteration
  <2>2. QED
    BY <1>6, <2>1 DEF SchedIteration
<1>7. CASE SchedError
  BY <1>7 DEF SchedError
<1>8. CASE UNCHANGED vars
  BY <1>8 DEF vars
<1>9. QED
  BY <1>2, <1>3, <1>4, <1>5, <1>6, <1>7, <1>8 DEF Next, ControlNext, TaskNext

(* dsp_task's state, the control queue and the call counters are always   *)
(* well typed: the queue never holds more than its QueueLen entries, for  *)
(* every QueueLen and number of dsp_task_start / dsp_task_stop calls.     *)
THEOREM TypeCorrect == Spec => []TypeOK
<1>1. CInv => TypeOK
  BY DEF CInv
<1>2. QED
  BY InitCInv, NextCInv, <1>1, PTL DEF Spec
=============================================================================
