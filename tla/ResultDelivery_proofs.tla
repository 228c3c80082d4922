------------------------ MODULE ResultDelivery_proofs ------------------------
(***************************************************************************)
(* Proofs about ResultDelivery: every result string set_ml_processing_state *)
(* allocates has exactly one owner, for every number of reports and every  *)
(* queue length.                                                           *)
(***************************************************************************)
EXTENDS ResultDelivery, FiniteSetTheorems, TLAPS

(* The string m is waiting in xMlMqttQueue.                                *)
InQueue(m) == \E i \in 1 .. Len(queue) : queue[i] = m

(* The owners of m, counted: the queue, ml_mqtt_task, or free().           *)
Owners(m) == (IF InQueue(m) THEN 1 ELSE 0) + (IF Held(m) THEN 1 ELSE 0) + freeCount[m]

(* SingleOwner is not inductive: a step can only be shown to keep one     *)
(* owner per string if the string set_ml_processing_state allocates is new *)
(* (malloc never returns a live string: allocated strings are numbered     *)
(* below nextMsg), if the queue holds no string twice, and if ml_mqtt_task *)
(* only ever holds an allocated string.                                    *)
RInv ==
  /\ TypeOK
  /\ mlPc = "send" => nextMsg \in Msgs
  /\ allocated \subseteq 1 .. nextMsg - 1
  /\ \A i \in 1 .. Len(queue) : queue[i] \in allocated
  /\ \A i, j \in 1 .. Len(queue) : queue[i] = queue[j] => i = j
  /\ mqttPc # "receive" => cur \in allocated
  /\ \A m \in allocated : Owners(m) = 1
  /\ \A m \in Msgs \ allocated : freeCount[m] = 0

-----------------------------------------------------------------------------
USE ResultDeliveryAssumption DEF Msgs, None

(* In a sequence that holds no element twice, an element occurs once if   *)
(* it occurs at all.                                                       *)
LEMMA OccurrencesInjective ==
  ASSUME NEW S, NEW s \in Seq(S), NEW m,
         \A i, j \in 1 .. Len(s) : s[i] = s[j] => i = j
  PROVE  Cardinality({i \in 1 .. Len(s) : s[i] = m})
           = IF \E i \in 1 .. Len(s) : s[i] = m THEN 1 ELSE 0
<1> DEFINE I == {i \in 1 .. Len(s) : s[i] = m}
<1>1. CASE \E i \in 1 .. Len(s) : s[i] = m
  <2>1. PICK k \in 1 .. Len(s) : s[k] = m
    BY <1>1
  <2>2. I = {k}
    BY <2>1
  <2>3. QED
    BY <1>1, <2>2, FS_Singleton
<1>2. CASE ~\E i \in 1 .. Len(s) : s[i] = m
  <2>1. I = {}
    BY <1>2
  <2>2. QED
    BY <1>2, <2>1, FS_EmptySet
<1>3. QED
  BY <1>1, <1>2

(* The initial state satisfies RInv: nothing is allocated.                 *)
LEMMA InitRInv == Init => RInv
<1> SUFFICES ASSUME Init PROVE RInv
  OBVIOUS
<1>1. TypeOK
  <2>1. queue \in Seq(Msgs) /\ agentQueue \in Seq(Msgs)
    BY DEF Init
  <2>2. nextMsg \in 1 .. MaxReports + 1 /\ Len(queue) <= QueueLen
    BY DEF Init
  <2>3. freeCount \in [Msgs -> 0 .. 1]
    BY DEF Init
  <2>4. QED
    BY <2>1, <2>2, <2>3, Zenon DEF Init, TypeOK
<1>2. QED
  BY <1>1 DEF Init, RInv

(* A step that leaves the strings, the queue and ml_mqtt_task's hold      *)
(* alone, keeps the types and allocates nothing, keeps RInv.               *)
LEMMA OwnersFrame ==
  ASSUME RInv, TypeOK',
         UNCHANGED <<queue, freeCount, allocated, cur>>,
         allocated \subseteq 1 .. nextMsg' - 1,
         mlPc' = "send" => nextMsg' \in Msgs,
         (mqttPc' = "receive") <=> (mqttPc = "receive")
  PROVE  RInv'
<1>1. \A m \in allocated' : Owners(m)' = Owners(m)
  BY DEF Owners, InQueue, Held
<1>2. QED
  BY <1>1 DEF RInv

(* ml_lock and the steps of the MQTT agent keep RInv.                      *)
LEMMA MlLockRInv == RInv /\ MlLock => RInv'
<1> SUFFICES ASSUME RInv, MlLock PROVE RInv'
  OBVIOUS
<1>1. TypeOK'
  BY DEF RInv, TypeOK, MlLock
<1>2. UNCHANGED <<nextMsg, queue, freeCount, allocated, cur, mqttPc>>
  BY DEF MlLock
<1>3. nextMsg' \in Msgs /\ allocated \subseteq 1 .. nextMsg' - 1
  BY DEF MlLock, RInv, TypeOK
<1>4. QED
  BY <1>1, <1>2, <1>3, OwnersFrame, Zenon

LEMMA AgentRInv == RInv /\ (AgentSend \/ AgentComplete) => RInv'
<1> SUFFICES ASSUME RInv, AgentSend \/ AgentComplete PROVE RInv'
  OBVIOUS
<1>1. TypeOK'
  <2>1. CASE AgentSend
    <3>1. agentQueue \in Seq(Msgs) /\ agentQueue # <<>>
      BY <2>1 DEF RInv, TypeOK, AgentSend
    <3>2. agentQueue' \in Seq(Msgs) /\ Head(agentQueue) \in Msgs
      BY <3>1, <2>1 DEF AgentSend
    <3>3. inflight' \subseteq Msgs
      BY <3>2, <2>1 DEF RInv, TypeOK, AgentSend
    <3>4. QED
      BY <3>2, <3>3, <2>1 DEF RInv, TypeOK, AgentSend
  <2>2. CASE AgentComplete
    BY <2>2 DEF RInv, TypeOK, AgentComplete
  <2>3. QED
    BY <2>1, <2>2
<1>2. UNCHANGED <<nextMsg, queue, freeCount, allocated, cur, mlPc, mqttPc>>
  BY DEF AgentSend, AgentComplete
<1>3. allocated \subseteq 1 .. nextMsg' - 1 /\ (mlPc' = "send" => nextMsg' \in Msgs)
  BY <1>2 DEF RInv
<1>4. QED
  BY <1>1, <1>2, <1>3, OwnersFrame, Zenon

(* MQTTAgent_Publish and both ends of the notification wait keep RInv:     *)
(* ml_mqtt_task keeps holding its string.                                  *)
LEMMA PublishWaitRInv ==
  RInv /\ (AgentPublish \/ NotifyWaitReturns \/ NotifyWaitTimesOut) => RInv'
<1> SUFFICES ASSUME RInv, AgentPublish \/ NotifyWaitReturns \/ NotifyWaitTimesOut
             PROVE  RInv'
  OBVIOUS
<1>1. TypeOK'
  <2>1. CASE AgentPublish
    <3>1. cur \in Msgs
      BY <2>1 DEF RInv, TypeOK, AgentPublish
    <3>2. agentQueue \in Seq(Msgs)
      BY DEF RInv, TypeOK
    <3>3. agentQueue' = Append(agentQueue, cur) \/ agentQueue' = agentQueue
      BY <2>1 DEF AgentPublish
    <3>4. agentQueue' \in Seq(Msgs)
      BY <3>1, <3>2, <3>3
    <3>5. QED
      BY <3>4, <2>1 DEF RInv, TypeOK, AgentPublish
  <2>2. CASE NotifyWaitReturns
    BY <2>2 DEF RInv, TypeOK, NotifyWaitReturns
  <2>3. CASE NotifyWaitTimesOut
    BY <2>3 DEF RInv, TypeOK, NotifyWaitTimesOut
  <2>4. QED
    BY <2>1, <2>2, <2>3
<1>2. UNCHANGED <<nextMsg, queue, freeCount, allocated, cur, mlPc>>
  BY DEF AgentPublish, NotifyWaitReturns, NotifyWaitTimesOut
<1>3. mqttPc # "receive" /\ mqttPc' # "receive"
  BY DEF AgentPublish, NotifyWaitReturns, NotifyWaitTimesOut
<1>4. allocated \subseteq 1 .. nextMsg' - 1 /\ (mlPc' = "send" => nextMsg' \in Msgs)
  BY <1>2 DEF RInv
<1>5. QED
  BY <1>1, <1>2, <1>3, <1>4, OwnersFrame, Zenon

(* free(msg.result) keeps RInv: the string ml_mqtt_task held is in no     *)
(* queue and was never freed, since it had one owner; freeing it makes     *)
(* free() its one owner.                                                   *)
LEMMA ReleaseRInv == RInv /\ ReleaseAndFree => RInv'
<1> SUFFICES ASSUME RInv, ReleaseAndFree PROVE RInv'
  OBVIOUS
<1>1. cur \in allocated /\ Held(cur)
  BY DEF RInv, ReleaseAndFree, Held
<1>2. ~InQueue(cur) /\ freeCount[cur] = 0
  <2>1. Owners(cur) = 1
    BY <1>1 DEF RInv
  <2>2. freeCount[cur] \in 0 .. 1
    BY <1>1 DEF RInv, TypeOK
  <2>3. QED
    BY <1>1, <2>1, <2>2 DEF Owners
<1>3. freeCount' = [freeCount EXCEPT ![cur] = 1]
  BY <1>2 DEF ReleaseAndFree, Free
<1>4. TypeOK'
  BY <1>1, <1>3 DEF RInv, TypeOK, ReleaseAndFree
<1>5. \A m \in allocated' : Owners(m)' = 1
  <2> SUFFICES ASSUME NEW m \in allocated PROVE Owners(m)' = 1
    BY DEF ReleaseAndFree
  <2>1. ~Held(m)'
    BY DEF ReleaseAndFree, Held
  <2>2. InQueue(m)' = InQueue(m)
    BY DEF ReleaseAndFree, InQueue
  <2>3. CASE m = cur
    BY <1>1, <1>2, <1>3, <2>1, <2>2, <2>3 DEF Owners, RInv, TypeOK
  <2>4. CASE m # cur
    <3>1. ~Held(m) /\ freeCount'[m] = freeCount[m] /\ Owners(m) = 1
      BY <1>3, <2>4 DEF Held, RInv, TypeOK
    <3>2. QED
      BY <2>1, <2>2, <3>1 DEF Owners
  <2>5. QED
    BY <2>3, <2>4
<1>6. \A m \in Msgs \ allocated' : freeCount'[m] = 0
  BY <1>1, <1>3 DEF RInv, TypeOK, ReleaseAndFree
<1>7. QED
  BY <1>4, <1>5, <1>6 DEF RInv, ReleaseAndFree

(* xQueueReceive keeps RInv: the head of xMlMqttQueue moves from the queue *)
(* to ml_mqtt_task, and occurs nowhere else in the queue.                  *)
LEMMA ReceiveRInv == RInv /\ ReceiveAndPrepare => RInv'
<1> SUFFICES ASSUME RInv, ReceiveAndPrepare PROVE RInv'
  OBVIOUS
<1> DEFINE h == Head(queue)
<1>1. /\ queue \in Seq(Msgs) /\ Len(queue) >= 1
      /\ Len(queue') = Len(queue) - 1
      /\ \A i \in 1 .. Len(queue') : queue'[i] = queue[i + 1]
      /\ h = queue[1] /\ h \in allocated
  BY DEF RInv, TypeOK, ReceiveAndPrepare
<1>2. \A m \in allocated : InQueue(m)' <=> InQueue(m) /\ m # h
  <2> SUFFICES ASSUME NEW m \in allocated PROVE InQueue(m)' <=> InQueue(m) /\ m # h
    OBVIOUS
  <2>1. ASSUME InQueue(m)' PROVE InQueue(m) /\ m # h
    <3>1. PICK i \in 1 .. Len(queue') : queue'[i] = m
      BY <2>1 DEF InQueue
    <3>2. queue[i + 1] = m /\ i + 1 \in 1 .. Len(queue) /\ i + 1 # 1
      BY <1>1, <3>1
    <3>3. m # h
      BY <1>1, <3>2 DEF RInv
    <3>4. QED
      BY <3>2, <3>3 DEF InQueue
  <2>2. ASSUME InQueue(m), m # h PROVE InQueue(m)'
    <3>1. PICK j \in 1 .. Len(queue) : queue[j] = m
      BY <2>2 DEF InQueue
    <3>2. j - 1 \in 1 .. Len(queue') /\ queue'[j - 1] = m
      BY <1>1, <2>2, <3>1
    <3>3. QED
      BY <3>2 DEF InQueue
  <2>3. QED
    BY <2>1, <2>2
<1>3. \A m \in allocated : Held(m)' <=> m = h
  BY DEF ReceiveAndPrepare, Held
<1>4. \A m \in allocated : ~Held(m)
  BY DEF ReceiveAndPrepare, Held
<1>5. InQueue(h)
  BY <1>1 DEF InQueue
<1>6. TypeOK'
  <2>1. queue' \in Seq(Msgs) /\ Len(queue') <= QueueLen /\ h \in Msgs
    BY <1>1 DEF RInv, TypeOK, ReceiveAndPrepare
  <2>2. QED
    BY <2>1 DEF RInv, TypeOK, ReceiveAndPrepare
<1>7. \A m \in allocated' : Owners(m)' = 1
  <2> SUFFICES ASSUME NEW m \in allocated PROVE Owners(m)' = 1
    BY DEF ReceiveAndPrepare
  <2>1. Owners(m) = 1 /\ freeCount'[m] = freeCount[m]
    BY DEF RInv, ReceiveAndPrepare
  <2>2. CASE m = h
    BY <1>2, <1>3, <1>4, <1>5, <2>1, <2>2 DEF Owners
  <2>3. CASE m # h
    BY <1>2, <1>3, <1>4, <2>1, <2>3 DEF Owners
  <2>4. QED
    BY <2>2, <2>3
<1>8. /\ \A i \in 1 .. Len(queue') : queue'[i] \in allocated'
      /\ \A i, j \in 1 .. Len(queue') : queue'[i] = queue'[j] => i = j
  BY <1>1 DEF RInv, ReceiveAndPrepare
<1>9. QED
  BY <1>1, <1>6, <1>7, <1>8 DEF RInv, ReceiveAndPrepare

(* set_ml_processing_state keeps RInv: malloc returns a string no one     *)
(* owns yet, and it goes either to free() (queue NULL or full) or to the  *)
(* back of xMlMqttQueue, where it is not yet.                              *)
LEMMA SendRInv == RInv /\ SetStateSend => RInv'
<1> SUFFICES ASSUME RInv, SetStateSend PROVE RInv'
  OBVIOUS
<1> DEFINE n == nextMsg
<1>1. /\ n \in Msgs /\ n \notin allocated /\ freeCount[n] = 0
      /\ nextMsg' = n + 1 /\ mlPc' = "idle"
      /\ UNCHANGED <<queueCreated, mqttPc, cur, payload, notified, retFor, agentQueue, inflight>>
  BY DEF RInv, TypeOK, SetStateSend
<1>0. mlMutexHeld' \in BOOLEAN
  <2>1. mlMutexHeld' = FALSE \/ mlMutexHeld' = mlMutexHeld
    BY Zenon DEF SetStateSend
  <2>2. QED
    BY <2>1 DEF RInv, TypeOK
<1>2. ~InQueue(n) /\ ~Held(n)
  BY <1>1 DEF RInv, InQueue, Held
<1>3. allocated \subseteq 1 .. nextMsg' - 1
  BY <1>1 DEF RInv, TypeOK
<1>4. CASE mlMutexHeld' = FALSE /\ UNCHANGED <<queue, freeCount, allocated>>
  <2>1. TypeOK'
    BY <1>0, <1>1, <1>4 DEF RInv, TypeOK
  <2>2. QED
    BY <1>1, <1>3, <1>4, <2>1, OwnersFrame, Zenon
<1>5. CASE allocated' = allocated \cup {n}
  <2>1. \/ freeCount' = [freeCount EXCEPT ![n] = 1] /\ queue' = queue
        \/ /\ Len(queue) # QueueLen /\ queue' = Append(queue, n)
           /\ freeCount' = freeCount
    BY <1>1, <1>5 DEF SetStateSend, Free
  <2>2. \A m \in allocated : Owners(m) = 1 /\ m # n
    BY <1>1 DEF RInv
  <2>3. CASE freeCount' = [freeCount EXCEPT ![n] = 1] /\ queue' = queue
    <3>1. TypeOK'
      BY <1>0, <1>1, <1>5, <2>3 DEF RInv, TypeOK
    <3>2. \A m \in allocated' : Owners(m)' = 1
      <4> SUFFICES ASSUME NEW m \in allocated' PROVE Owners(m)' = 1
        OBVIOUS
      <4>1. InQueue(m)' = InQueue(m) /\ Held(m)' = Held(m)
        BY <1>1, <2>3 DEF InQueue, Held
      <4>2. CASE m = n
        <5>1. freeCount'[n] = 1
          BY <1>1, <2>3 DEF RInv, TypeOK
        <5>2. QED
          BY <1>2, <4>1, <4>2, <5>1 DEF Owners
      <4>3. CASE m # n
        BY <1>5, <2>2, <2>3, <4>1, <4>3 DEF Owners
      <4>4. QED
        BY <4>2, <4>3
    <3>3. QED
      BY <1>1, <1>3, <1>5, <2>3, <3>1, <3>2 DEF RInv
  <2>4. CASE /\ Len(queue) # QueueLen /\ queue' = Append(queue, n)
             /\ freeCount' = freeCount
    <3>1. /\ queue \in Seq(Msgs) /\ Len(queue) <= QueueLen
          /\ Len(queue') = Len(queue) + 1 /\ queue'[Len(queue) + 1] = n
          /\ \A i \in 1 .. Len(queue) : queue'[i] = queue[i] /\ queue[i] # n
      BY <1>1, <2>4 DEF RInv, TypeOK
    <3>2. TypeOK'
      <4>1. queue' \in Seq(Msgs) /\ Len(queue') <= QueueLen
        BY <1>1, <2>4, <3>1
      <4>2. QED
        BY <1>0, <1>1, <1>5, <2>4, <4>1 DEF RInv, TypeOK
    <3>3. \A m \in allocated' : InQueue(m)' <=> InQueue(m) \/ m = n
      <4> SUFFICES ASSUME NEW m \in allocated' PROVE InQueue(m)' <=> InQueue(m) \/ m = n
        OBVIOUS
      <4>1. ASSUME InQueue(m)' PROVE InQueue(m) \/ m = n
        <5>1. PICK i \in 1 .. Len(queue') : queue'[i] = m
          BY <4>1 DEF InQueue
        <5>2. QED
          BY <3>1, <5>1 DEF InQueue
      <4>2. ASSUME InQueue(m) PROVE InQueue(m)'
        <5>1. PICK i \in 1 .. Len(queue) : queue[i] = m
          BY <4>2 DEF InQueue
        <5>2. QED
          BY <3>1, <5>1 DEF InQueue
      <4>3. ASSUME m = n PROVE InQueue(m)'
        BY <3>1, <4>3 DEF InQueue
      <4>4. QED
        BY <4>1, <4>2, <4>3
    <3>4. \A m \in allocated' : Owners(m)' = 1
      <4> SUFFICES ASSUME NEW m \in allocated' PROVE Owners(m)' = 1
        OBVIOUS
      <4>1. Held(m)' = Held(m) /\ freeCount'[m] = freeCount[m]
        BY <1>1, <2>4 DEF Held
      <4>2. CASE m = n
        BY <1>1, <1>2, <3>3, <4>1, <4>2 DEF Owners
      <4>3. CASE m # n
        BY <1>5, <2>2, <3>3, <4>1, <4>3 DEF Owners
      <4>4. QED
        BY <4>2, <4>3
    <3>5. /\ \A i \in 1 .. Len(queue') : queue'[i] \in allocated'
          /\ \A i, j \in 1 .. Len(queue') : queue'[i] = queue'[j] => i = j
      <4>1. \A i \in 1 .. Len(queue') : queue'[i] \in allocated'
        BY <1>5, <3>1 DEF RInv
      <4>2. \A i, j \in 1 .. Len(queue') : queue'[i] = queue'[j] => i = j
        BY <3>1 DEF RInv
      <4>3. QED
        BY <4>1, <4>2
    <3>6. QED
      BY <1>1, <1>3, <1>5, <2>4, <3>2, <3>4, <3>5 DEF RInv
  <2>5. QED
    BY <2>1, <2>3, <2>4
<1>6. QED
  BY <1>4, <1>5 DEF SetStateSend

(* Every step of the three tasks, and a stutter, keeps RInv.               *)
LEMMA NextRInv == RInv /\ [Next]_vars => RInv'
<1> SUFFICES ASSUME RInv, [Next]_vars PROVE RInv'
  OBVIOUS
<1>1. CASE MlLock
  BY <1>1, MlLockRInv
<1>2. CASE SetStateSend
  BY <1>2, SendRInv
<1>3. CASE ReceiveAndPrepare
  BY <1>3, ReceiveRInv
<1>4. CASE AgentPublish \/ NotifyWaitReturns \/ NotifyWaitTimesOut
  BY <1>4, PublishWaitRInv
<1>5. CASE ReleaseAndFree
  BY <1>5, ReleaseRInv
<1>6. CASE AgentSend \/ AgentComplete
  BY <1>6, AgentRInv
<1>7. CASE UNCHANGED vars
  BY <1>7 DEF RInv, TypeOK, Owners, InQueue, Held, vars
<1>8. QED
  BY <1>1, <1>2, <1>3, <1>4, <1>5, <1>6, <1>7 DEF Next, MlNext, MqttTaskNext, AgentNext

(* RInv gives SingleOwner: the queue holds no string twice, so a string   *)
(* in it occurs there exactly once.                                        *)
LEMMA RInvSingleOwner == RInv => SingleOwner
<1> SUFFICES ASSUME RInv, NEW m \in allocated
             PROVE  Occurrences(m) + (IF Held(m) THEN 1 ELSE 0) + freeCount[m] = 1
  BY DEF SingleOwner
<1>1. Occurrences(m) = IF InQueue(m) THEN 1 ELSE 0
  <2>1. queue \in Seq(Msgs) /\ \A i, j \in 1 .. Len(queue) : queue[i] = queue[j] => i = j
    BY DEF RInv, TypeOK
  <2>2. QED
    BY <2>1, OccurrencesInjective DEF Occurrences, InQueue
<1>2. QED
  BY <1>1 DEF RInv, Owners

(* Section 2 of the spec, for every number of reports and queue length:   *)
(* whatever set_ml_processing_state, ml_mqtt_task and the MQTT agent do,  *)
(* in any order, each allocated result string is in xMlMqttQueue once, or *)
(* held by ml_mqtt_task, or freed: exactly one of the three.              *)
THEOREM SingleOwnerHolds == Spec => []SingleOwner
<1>1. Init => RInv
  BY InitRInv
<1>2. RInv /\ [Next]_vars => RInv'
  BY NextRInv
<1>3. RInv => SingleOwner
  BY RInvSingleOwner
<1>4. QED
  BY <1>1, <1>2, <1>3, PTL DEF Spec

(* The delivery state keeps its types: in particular freeCount stays in   *)
(* 0 .. 1, so no result string is ever freed twice.                        *)
THEOREM NoDoubleFree == Spec => []TypeOK
<1>1. RInv => TypeOK
  BY DEF RInv
<1>2. QED
  BY InitRInv, NextRInv, <1>1, PTL DEF Spec

=============================================================================
