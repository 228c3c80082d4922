----------------------------- MODULE CaptureTask -----------------------------
(***************************************************************************)
(* The capture side (dsp/src/dsp_task.cpp, AUDIO_VSI build): dsp_task      *)
(* creates dsp_msg_queue (10 entries), waits for a START message, sets up  *)
(* the audio driver on the first launch only, and runs the generated       *)
(* dataflow scheduler() until it returns; dsp_task_start / dsp_task_stop   *)
(* post START / STOP without blocking.                                     *)
(*                                                                         *)
(* scheduler() is generated code outside the repository: it is modelled    *)
(* from its contract (spec section 9): each iteration waits for an audio   *)
(* block (DspAudioSource::waitForNewBuffer, given by the VSI interrupt    *)
(* only once AudioDrv_Setup has succeeded), then polls the control queue  *)
(* without blocking and returns on STOP; it may also return on an error.  *)
(***************************************************************************)
EXTENDS Naturals, Sequences

CONSTANTS
  QueueLen,      \* length of dsp_msg_queue
  MaxRequests,   \* dsp_task_start / dsp_task_stop calls in a run
  SetupMayFail   \* whether AudioDrv_Setup can return -1

ASSUME CaptureTaskAssumption ==
  /\ QueueLen \in Nat \ {0}
  /\ MaxRequests \in Nat
  /\ SetupMayFail \in BOOLEAN

Msg == {"START", "STOP"}

VARIABLES
  queueCreated,  \* dsp_msg_queue is not NULL
  queue,         \* the messages dsp_msg_queue holds
  dspPc,         \* where dsp_task is
  firstLaunch,   \* dsp_task's first_launch
  driverOk,      \* the SAI driver receives: the VSI interrupt delivers blocks
  setupCalls,    \* history: AudioDrv_Setup calls made
  requests,      \* dsp_task_start / dsp_task_stop calls made
  lastAccepted   \* history: the last message a call put in the queue

vars == <<queueCreated, queue, dspPc, firstLaunch, driverOk, setupCalls,
          requests, lastAccepted>>

Init ==
  /\ queueCreated = FALSE
  /\ queue = <<>>
  /\ dspPc = "boot"
  /\ firstLaunch = TRUE
  /\ driverOk = FALSE
  /\ setupCalls = 0
  /\ requests = 0
  /\ lastAccepted = "none"

-----------------------------------------------------------------------------
(* dsp_task_start / dsp_task_stop: a NULL queue (dsp_task has not created  *)
(* it yet) makes the call return; xQueueSendToBack with timeout 0 drops    *)
(* the message when the queue is full.                                     *)
(* Mutant: the message is queued even when the queue is full.              *)
SendNoFullCheck(m) ==
  /\ requests < MaxRequests
  /\ requests' = requests + 1
  /\ IF queueCreated
       THEN /\ queue' = Append(queue, m)
            /\ lastAccepted' = m
       ELSE UNCHANGED <<queue, lastAccepted>>
  /\ UNCHANGED <<queueCreated, dspPc, firstLaunch, driverOk, setupCalls>>

Send(m) ==
  /\ requests < MaxRequests
  /\ requests' = requests + 1
  /\ IF queueCreated /\ Len(queue) < QueueLen
       THEN /\ queue' = Append(queue, m)
            /\ lastAccepted' = m
       ELSE UNCHANGED <<queue, lastAccepted>>
  /\ UNCHANGED <<queueCreated, dspPc, firstLaunch, driverOk, setupCalls>>

-----------------------------------------------------------------------------
(* dsp_task: xQueueCreate(10); on failure the task returns.                *)
CreateQueue ==
  /\ dspPc = "boot"
  /\ \E ok \in BOOLEAN :
       /\ queueCreated' = ok
       /\ dspPc' = IF ok THEN "waitStart" ELSE "exited"
  /\ UNCHANGED <<queue, firstLaunch, driverOk, setupCalls, requests,
                 lastAccepted>>

(* The wait loop: xQueueReceive(portMAX_DELAY); START leaves the loop,     *)
(* STOP is dropped and the loop waits again.                               *)
WaitStart ==
  /\ dspPc = "waitStart"
  /\ queue # <<>>
  /\ queue' = Tail(queue)
  /\ dspPc' = IF Head(queue) = "START" THEN "setup" ELSE "waitStart"
  /\ UNCHANGED <<queueCreated, firstLaunch, driverOk, setupCalls, requests,
                 lastAccepted>>

(* if (first_launch) { AudioDrv_Setup(...); first_launch = false; }: the   *)
(* result of AudioDrv_Setup is not looked at.                              *)
Launch ==
  /\ dspPc = "setup"
  /\ dspPc' = "sched"
  /\ IF firstLaunch
       THEN /\ \E ok \in IF SetupMayFail THEN BOOLEAN ELSE {TRUE} :
                 driverOk' = ok
            /\ firstLaunch' = FALSE
            /\ setupCalls' = setupCalls + 1
       ELSE UNCHANGED <<driverOk, firstLaunch, setupCalls>>
  /\ UNCHANGED <<queueCreated, queue, requests, lastAccepted>>

(* One scheduler iteration: an audio block arrives (only if the driver    *)
(* receives), is processed, then the control queue is polled: STOP ends   *)
(* scheduler(), which returns to the wait loop; START is consumed.         *)
(* Mutant: the poll consumes messages without ever ending on STOP.         *)
SchedIterationNoStop ==
  /\ dspPc = "sched"
  /\ driverOk
  /\ queue' = IF queue = <<>> THEN queue ELSE Tail(queue)
  /\ UNCHANGED <<dspPc, queueCreated, firstLaunch, driverOk, setupCalls,
                 requests, lastAccepted>>

SchedIteration ==
  /\ dspPc = "sched"
  /\ driverOk
  /\ IF queue # <<>> /\ Head(queue) = "STOP"
       THEN /\ queue' = Tail(queue)
            /\ dspPc' = "waitStart"
       ELSE /\ queue' = IF queue = <<>> THEN queue ELSE Tail(queue)
            /\ UNCHANGED dspPc
  /\ UNCHANGED <<queueCreated, firstLaunch, driverOk, setupCalls, requests,
                 lastAccepted>>

(* scheduler() returns with an error code from a node that processes a  *)
(* block; dsp_task logs it and waits for the next START.                   *)
SchedError ==
  /\ dspPc = "sched"
  /\ driverOk
  /\ dspPc' = "waitStart"
  /\ UNCHANGED <<queueCreated, queue, firstLaunch, driverOk, setupCalls,
                 requests, lastAccepted>>

-----------------------------------------------------------------------------
ControlNext == \E m \in Msg : Send(m)

TaskNext == CreateQueue \/ WaitStart \/ Launch \/ SchedIteration \/ SchedError

Next == ControlNext \/ TaskNext

(* dsp_task runs whenever it is ready; blocks keep arriving while the     *)
(* driver receives.  No control request and no scheduler error is owed.    *)
Fairness == WF_vars(CreateQueue \/ WaitStart \/ Launch \/ SchedIteration)

Spec == Init /\ [][Next]_vars /\ Fairness

-----------------------------------------------------------------------------
TypeOK ==
  /\ queueCreated \in BOOLEAN
  /\ queue \in Seq(Msg) /\ Len(queue) <= QueueLen
  /\ dspPc \in {"boot", "waitStart", "setup", "sched", "exited"}
  /\ firstLaunch \in BOOLEAN
  /\ driverOk \in BOOLEAN
  /\ setupCalls \in 0 .. 1 + MaxRequests
  /\ requests \in 0 .. MaxRequests
  /\ lastAccepted \in Msg \cup {"none"}

(* Cooperative stop (spec sections 4.3, 9): once a STOP has been queued,   *)
(* and no START after it, dsp_task ends up back in its wait loop (capture *)
(* stopped), or has exited.                                                *)
StopHonoured ==
  (lastAccepted = "STOP")
    ~> (dspPc \in {"waitStart", "exited"} \/ lastAccepted = "START")

=============================================================================
