---------------------------- MODULE ResultDelivery ----------------------------
(***************************************************************************)
(* Delivery of the decoded inference result, from the ML task to the MQTT *)
(* broker:                                                                 *)
(*   set_ml_processing_state (ml_interface.cc): under xMlMutex, malloc a  *)
(*     copy of the string and send it to xMlMqttQueue without blocking;    *)
(*   ml_mqtt_task (ml_interface.cc): receive, mqtt_send_message, free;    *)
(*   mqtt_send_message (main.c): under xMqttMutex, fill the STATIC         *)
(*     publishInfo / xCommandContext, clear the task notification,         *)
(*     MQTTAgent_Publish, wait for the completion notification at most     *)
(*     appMQTT_TIMEOUT_MS;                                                 *)
(*   prvAppPublishCommandCallback (main.c): run by the MQTT agent task     *)
(*     when the publish completes: writes xReturnStatus, notifies.         *)
(* The MQTT agent itself is outside this repository: it is modelled from   *)
(* the coreMQTT-Agent contract, as a FIFO of commands that each carry the  *)
(* address of the static publishInfo, sent later and completed later.     *)
(* A result string is a message number; its bytes are abstracted away.   *)
(***************************************************************************)
EXTENDS Naturals, Sequences, FiniteSets

CONSTANTS
  MaxReports,    \* results the ML task reports in a run
  QueueLen       \* length of xMlMqttQueue

ASSUME ResultDeliveryAssumption ==
  /\ MaxReports \in Nat \ {0}
  /\ QueueLen \in Nat \ {0}

Msgs == 1 .. MaxReports
None == 0

VARIABLES
  queueCreated,  \* xMlMqttQueue is not NULL (it is created outside src/)
  mlPc,          \* ML task: "idle", or inside set_ml_processing_state
  mlMutexHeld,   \* xMlMutex is taken
  nextMsg,       \* number of the next result string to allocate
  queue,         \* xMlMqttQueue: the messages it holds
  freeCount,     \* freeCount[m]: times the string m was freed (0: live)
  allocated,     \* strings that malloc returned
  mqttPc,        \* ml_mqtt_task / mqtt_send_message
  cur,           \* the message ml_mqtt_task is publishing
  payload,       \* publishInfo.pPayload (static)
  notified,      \* the mqtt task's notification is pending
  retFor,        \* the command whose completion last wrote xReturnStatus
  agentQueue,    \* commands queued to the MQTT agent, by the call that made them
  inflight       \* commands the agent has sent and not completed

vars == <<queueCreated, mlPc, mlMutexHeld, nextMsg, queue, freeCount, allocated, mqttPc, cur,
          payload, notified, retFor, agentQueue, inflight>>

Init ==
  /\ queueCreated \in BOOLEAN
  /\ mlPc = "idle"
  /\ mlMutexHeld = FALSE
  /\ nextMsg = 1
  /\ queue = <<>>
  /\ freeCount = [m \in Msgs |-> 0]
  /\ allocated = {}
  /\ mqttPc = "receive"
  /\ cur = None
  /\ payload = None
  /\ notified = FALSE
  /\ retFor = None
  /\ agentQueue = <<>>
  /\ inflight = {}

Free(m) == freeCount' = [freeCount EXCEPT ![m] = @ + 1]

-----------------------------------------------------------------------------
(* PresentInferenceResult calls set_ml_processing_state: ml_lock takes    *)
(* xMlMutex with portMAX_DELAY (a FreeRTOS mutex is not recursive: taking *)
(* it again blocks the task for good).                                    *)
MlLock ==
  /\ mlPc = "idle"
  /\ nextMsg <= MaxReports
  /\ ~mlMutexHeld
  /\ mlMutexHeld' = TRUE
  /\ mlPc' = "send"
  /\ UNCHANGED <<queueCreated, nextMsg, queue, freeCount, allocated, mqttPc, cur, payload,
                 notified, retFor, agentQueue, inflight>>

(* The rest of set_ml_processing_state: malloc (failure only warned);      *)
(* xMlMqttQueue NULL: free and return WITHOUT ml_unlock; otherwise copy   *)
(* and xQueueSendToBack with no wait, freeing the string when the queue   *)
(* is full; then ml_unlock.                                                *)
(* Mutant: the queue is taken as full one message too late.               *)
SetStateSendOverfill ==
  /\ mlPc = "send"
  /\ nextMsg' = nextMsg + 1
  /\ mlPc' = "idle"
  /\ \/ /\ mlMutexHeld' = FALSE
        /\ UNCHANGED <<queue, freeCount, allocated>>
     \/ /\ allocated' = allocated \cup {nextMsg}
        /\ CASE ~queueCreated ->
                  /\ Free(nextMsg)
                  /\ UNCHANGED <<mlMutexHeld, queue>>
             [] Len(queue) = QueueLen + 1 ->
                  /\ Free(nextMsg)
                  /\ mlMutexHeld' = FALSE
                  /\ UNCHANGED queue
             [] OTHER ->
                  /\ queue' = Append(queue, nextMsg)
                  /\ mlMutexHeld' = FALSE
                  /\ UNCHANGED freeCount
  /\ UNCHANGED <<queueCreated, mqttPc, cur, payload, notified, retFor, agentQueue, inflight>>

SetStateSend ==
  /\ mlPc = "send"
  /\ nextMsg' = nextMsg + 1
  /\ mlPc' = "idle"
  /\ \/ /\ mlMutexHeld' = FALSE
        /\ UNCHANGED <<queue, freeCount, allocated>>
     \/ /\ allocated' = allocated \cup {nextMsg}
        /\ CASE ~queueCreated ->
                  /\ Free(nextMsg)
                  /\ UNCHANGED <<mlMutexHeld, queue>>
             [] Len(queue) = QueueLen ->
                  /\ Free(nextMsg)
                  /\ mlMutexHeld' = FALSE
                  /\ UNCHANGED queue
             [] OTHER ->
                  /\ queue' = Append(queue, nextMsg)
                  /\ mlMutexHeld' = FALSE
                  /\ UNCHANGED freeCount
  /\ UNCHANGED <<queueCreated, mqttPc, cur, payload, notified, retFor, agentQueue, inflight>>

-----------------------------------------------------------------------------
(* ml_mqtt_task: xQueueReceive(portMAX_DELAY), then mqtt_send_message up   *)
(* to the publish: mqtt_lock (only this task takes xMqttMutex), the static *)
(* publishInfo.pPayload = message, xTaskToNotify = this task,              *)
(* xTaskNotifyStateClear.                                                  *)
(* Mutant: the message is peeked, not taken, from the queue.              *)
ReceiveAndPreparePeek ==
  /\ mqttPc = "receive"
  /\ queue # <<>>
  /\ cur' = Head(queue)
  /\ payload' = Head(queue)
  /\ notified' = FALSE
  /\ mqttPc' = "publish"
  /\ UNCHANGED <<queueCreated, queue, mlPc, mlMutexHeld, nextMsg, freeCount, allocated, retFor,
                 agentQueue, inflight>>

ReceiveAndPrepare ==
  /\ mqttPc = "receive"
  /\ queue # <<>>
  /\ cur' = Head(queue)
  /\ queue' = Tail(queue)
  /\ payload' = Head(queue)
  /\ notified' = FALSE
  /\ mqttPc' = "publish"
  /\ UNCHANGED <<queueCreated, mlPc, mlMutexHeld, nextMsg, freeCount, allocated, retFor,
                 agentQueue, inflight>>

(* MQTTAgent_Publish: queues a command pointing at the static publishInfo, *)
(* or fails (agent queue full after blockTimeMs, agent not running).       *)
(* Mutant: mqtt_send_message frees the message when the publish fails.    *)
AgentPublishFreeOnFail ==
  /\ mqttPc = "publish"
  /\ \/ /\ agentQueue' = Append(agentQueue, cur)
        /\ mqttPc' = "wait"
        /\ UNCHANGED freeCount
     \/ /\ mqttPc' = "release"
        /\ Free(cur)
        /\ UNCHANGED agentQueue
  /\ UNCHANGED <<queueCreated, mlPc, mlMutexHeld, nextMsg, queue, allocated, cur,
                 payload, notified, retFor, inflight>>

AgentPublish ==
  /\ mqttPc = "publish"
  /\ \/ /\ agentQueue' = Append(agentQueue, cur)
        /\ mqttPc' = "wait"
     \/ /\ mqttPc' = "release"
        /\ UNCHANGED agentQueue
  /\ UNCHANGED <<queueCreated, mlPc, mlMutexHeld, nextMsg, queue, freeCount, allocated, cur,
                 payload, notified, retFor, inflight>>

(* xTaskNotifyWait returns with the pending notification; the status read *)
(* is xCommandContext.xReturnStatus, whoever wrote it.                     *)
NotifyWaitReturns ==
  /\ mqttPc = "wait"
  /\ notified
  /\ notified' = FALSE
  /\ mqttPc' = "release"
  /\ UNCHANGED <<queueCreated, mlPc, mlMutexHeld, nextMsg, queue, freeCount, allocated, cur,
                 payload, retFor, agentQueue, inflight>>

(* Mutant: the wait has no timeout (portMAX_DELAY).                       *)
NotifyWaitNoTimeout == FALSE

(* ... or times out after appMQTT_TIMEOUT_MS with nothing pending:         *)
(* MQTTSendFailed.  The command stays with the agent.                      *)
NotifyWaitTimesOut ==
  /\ mqttPc = "wait"
  /\ ~notified
  /\ mqttPc' = "release"
  /\ UNCHANGED <<queueCreated, mlPc, mlMutexHeld, nextMsg, queue, freeCount, allocated, cur,
                 payload, notified, retFor, agentQueue, inflight>>

(* mqtt_unlock, return to ml_mqtt_task, free(msg.result).                  *)
ReleaseAndFree ==
  /\ mqttPc = "release"
  /\ Free(cur)
  /\ mqttPc' = "receive"
  /\ UNCHANGED <<queueCreated, mlPc, mlMutexHeld, nextMsg, queue, allocated, cur, payload,
                 notified, retFor, agentQueue, inflight>>

-----------------------------------------------------------------------------
(* The MQTT agent task sends the oldest queued publish: it serialises the  *)
(* payload publishInfo.pPayload points to now.                            *)
AgentSend ==
  /\ agentQueue # <<>>
  /\ agentQueue' = Tail(agentQueue)
  /\ inflight' = inflight \cup {Head(agentQueue)}
  /\ UNCHANGED <<queueCreated, mlPc, mlMutexHeld, nextMsg, queue, freeCount, allocated,
                 mqttPc, cur, payload, notified, retFor>>

(* The publish completes (PUBACK, or an error): the agent runs            *)
(* prvAppPublishCommandCallback, which writes xReturnStatus and notifies   *)
(* xTaskToNotify with eSetValueWithOverwrite.                              *)
AgentComplete ==
  /\ \E c \in inflight :
       /\ inflight' = inflight \ {c}
       /\ retFor' = c
       /\ notified' = TRUE
  /\ UNCHANGED <<queueCreated, mlPc, mlMutexHeld, nextMsg, queue, freeCount, allocated,
                 mqttPc, cur, payload, agentQueue>>

-----------------------------------------------------------------------------
MlNext == MlLock \/ SetStateSend

MqttTaskNext ==
  \/ ReceiveAndPrepare \/ AgentPublish \/ NotifyWaitReturns
  \/ NotifyWaitTimesOut \/ ReleaseAndFree

AgentNext == AgentSend \/ AgentComplete

Next == MlNext \/ MqttTaskNext \/ AgentNext

(* The ML and MQTT tasks run when they can; the agent owes nothing (the   *)
(* connection may be down), and the 5 s wait bounds the MQTT task.         *)
Fairness == WF_vars(MlNext) /\ WF_vars(MqttTaskNext)

Spec == Init /\ [][Next]_vars /\ Fairness

-----------------------------------------------------------------------------
TypeOK ==
  /\ queueCreated \in BOOLEAN
  /\ mlPc \in {"idle", "send"}
  /\ mlMutexHeld \in BOOLEAN
  /\ nextMsg \in 1 .. MaxReports + 1
  /\ queue \in Seq(Msgs) /\ Len(queue) <= QueueLen
  /\ freeCount \in [Msgs -> 0 .. 1]
  /\ allocated \subseteq Msgs
  /\ mqttPc \in {"receive", "publish", "wait", "release"}
  /\ cur \in Msgs \cup {None}
  /\ payload \in Msgs \cup {None}
  /\ notified \in BOOLEAN
  /\ retFor \in Msgs \cup {None}
  /\ agentQueue \in Seq(Msgs)
  /\ inflight \subseteq Msgs

(* Spec section 8 "Delivery ownership": every string malloc'd for a result *)
(* is freed (TypeOK bounds freeCount by one: never twice), whatever the    *)
(* outcome of the send to the queue and of the publish.                    *)
EveryResultFreed ==
  \A m \in Msgs : (m \in allocated) ~> (freeCount[m] = 1)

(* Spec section 2 "ResultMessage": a result string has one owner at a     *)
(* time.  Each allocated string is in xMlMqttQueue once, or held by        *)
(* ml_mqtt_task between xQueueReceive and free, or freed: exactly one.     *)
Occurrences(m) == Cardinality({i \in 1 .. Len(queue) : queue[i] = m})

Held(m) == m = cur /\ mqttPc # "receive"

SingleOwner ==
  \A m \in allocated :
    Occurrences(m) + (IF Held(m) THEN 1 ELSE 0) + freeCount[m] = 1

(* The MQTT agent never serialises a result string that has been freed:   *)
(* the payload is alive while any publish that points at it is pending.   *)
NoUseAfterFree ==
  [][AgentSend => (payload # None => freeCount[payload] = 0)]_vars

(* xMlMutex is free whenever the ML task is not inside                     *)
(* set_ml_processing_state, so the next report can take it.                *)
MlMutexReleased ==
  mlPc = "idle" => ~mlMutexHeld

=============================================================================
