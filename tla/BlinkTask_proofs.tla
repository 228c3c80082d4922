--------------------------- MODULE BlinkTask_proofs ---------------------------
(***************************************************************************)
(* Proofs about BlinkTask: the task's state stays well typed, and once it *)
(* has drained xUiMsgQueue every keyword LED shows what the last accepted *)
(* classification for it asked for, for every queue length, number of    *)
(* classifications and tick rate, with or without failing LED calls.      *)
(***************************************************************************)
EXTENDS BlinkTask, TLAPS

(* Classifications blink_task has taken from the queue: the queue holds   *)
(* the last Len(queue) of those the handler accepted.                      *)
Taken == Len(accepted) - Len(queue)

(* The i-th classification of a switches LED l.                             *)
Matches(a, i, l) == a[i] \in DOMAIN Switch /\ Switch[a[i]][1] = l

(* v is what the first k classifications of a leave LED l at: off        *)
(* when none switches it, else the level of the last one that does.  The  *)
(* last one is named, so that no proof needs a largest element to exist.  *)
ShowsUpTo(a, k, l, v) ==
  \/ (\A i \in 1 .. k : ~Matches(a, i, l)) /\ v = FALSE
  \/ \E i \in 1 .. k : /\ Matches(a, i, l)
                       /\ \A j \in i + 1 .. k : ~Matches(a, j, l)
                       /\ v = Switch[a[i]][2]

(* LedsFollowLastChange is not inductive: it speaks only of a drained     *)
(* queue.  BInv adds that the queue is the tail of the accepted            *)
(* classifications, in their order, that nothing is taken before the      *)
(* all-off, and that the keyword LEDs always show what the taken ones ask  *)
(* for once the all-off is done.  It also bounds the accepted ones by the  *)
(* handler's calls, which TypeOK needs.                                    *)
BInv ==
  /\ TypeOK
  /\ Len(accepted) <= changes
  /\ Len(queue) <= Len(accepted)
  /\ \A i \in 1 .. Len(queue) : queue[i] = accepted[Taken + i]
  /\ bPc \in {"create", "allOff"} => Taken = 0
  /\ bPc \in {"delay", "drain"} => \A l \in KeywordLeds : ShowsUpTo(accepted, Taken, l, leds[l])

-----------------------------------------------------------------------------
USE BlinkTaskAssumption

(* process_ml_state_change switches a keyword LED to a level.              *)
LEMMA SwitchType ==
  \A s \in DOMAIN Switch : Switch[s][1] \in KeywordLeds /\ Switch[s][2] \in BOOLEAN
<1> SUFFICES ASSUME NEW s \in DOMAIN Switch
             PROVE  Switch[s][1] \in KeywordLeds /\ Switch[s][2] \in BOOLEAN
  OBVIOUS
<1>1. Switch[s][1] \in KeywordLeds
  BY Zenon DEF KeywordLeds
<1>2. Switch[s][2] \in BOOLEAN
  <2>1. s \in {"ML_HEARD_YES", "ML_HEARD_NO", "ML_HEARD_GO", "ML_HEARD_STOP", "ML_HEARD_UP",
               "ML_HEARD_DOWN", "ML_HEARD_LEFT", "ML_HEARD_RIGHT", "ML_HEARD_ON", "ML_HEARD_OFF"}
    BY DEF Switch
  <2>2. CASE s = "ML_HEARD_YES"
    BY <2>2 DEF Switch
  <2>3. CASE s = "ML_HEARD_NO"
    BY <2>3 DEF Switch
  <2>4. CASE s = "ML_HEARD_GO"
    BY <2>4 DEF Switch
  <2>5. CASE s = "ML_HEARD_STOP"
    BY <2>5 DEF Switch
  <2>6. CASE s = "ML_HEARD_UP"
    BY <2>6 DEF Switch
  <2>7. CASE s = "ML_HEARD_DOWN"
    BY <2>7 DEF Switch
  <2>8. CASE s = "ML_HEARD_LEFT"
    BY <2>8 DEF Switch
  <2>9. CASE s = "ML_HEARD_RIGHT"
    BY <2>9 DEF Switch
  <2>10. CASE s = "ML_HEARD_ON"
    BY <2>10 DEF Switch
  <2>11. CASE s = "ML_HEARD_OFF"
    BY <2>11 DEF Switch
  <2>12. QED
    BY <2>1, <2>2, <2>3, <2>4, <2>5, <2>6, <2>7, <2>8, <2>9, <2>10, <2>11
<1>3. QED
  BY <1>1, <1>2

(* LED_ALIVE, which the outer loop toggles, is no keyword LED.             *)
LEMMA AliveNotKeyword == "LED_ALIVE" \notin KeywordLeds
BY DEF Switch, KeywordLeds

(* Extending the accepted classifications past k changes nothing of what  *)
(* the first k leave an LED at.                                            *)
LEMMA ShowsFrame ==
  ASSUME NEW a, NEW b, NEW k \in Nat, NEW l, NEW v,
         \A i \in 1 .. k : a[i] = b[i]
  PROVE  ShowsUpTo(a, k, l, v) <=> ShowsUpTo(b, k, l, v)
<1>1. \A i \in 1 .. k : Matches(a, i, l) <=> Matches(b, i, l)
  BY DEF Matches
<1>2. QED
  BY <1>1 DEF ShowsUpTo

(* Taking the (k+1)-th classification: the LED it switches now shows its  *)
(* level; every other LED keeps its level.                                 *)
LEMMA ShowsStep ==
  ASSUME NEW a, NEW k \in Nat, NEW l, NEW v, ShowsUpTo(a, k, l, v)
  PROVE  ShowsUpTo(a, k + 1, l, IF Matches(a, k + 1, l) THEN Switch[a[k + 1]][2] ELSE v)
<1>1. CASE Matches(a, k + 1, l)
  <2>1. k + 1 \in 1 .. k + 1 /\ \A j \in k + 2 .. k + 1 : ~Matches(a, j, l)
    OBVIOUS
  <2>2. QED
    BY <1>1, <2>1 DEF ShowsUpTo
<1>2. CASE ~Matches(a, k + 1, l)
  <2>1. CASE (\A i \in 1 .. k : ~Matches(a, i, l)) /\ v = FALSE
    <3>1. \A i \in 1 .. k + 1 : ~Matches(a, i, l)
      BY <1>2, <2>1
    <3>2. QED
      BY <1>2, <2>1, <3>1 DEF ShowsUpTo
  <2>2. CASE \E i \in 1 .. k : /\ Matches(a, i, l)
                               /\ \A j \in i + 1 .. k : ~Matches(a, j, l)
                               /\ v = Switch[a[i]][2]
    <3>1. PICK i \in 1 .. k : /\ Matches(a, i, l)
                              /\ \A j \in i + 1 .. k : ~Matches(a, j, l)
                              /\ v = Switch[a[i]][2]
      BY <2>2
    <3>2. i \in 1 .. k + 1 /\ \A j \in i + 1 .. k + 1 : ~Matches(a, j, l)
      BY <1>2, <3>1
    <3>3. QED
      BY <1>2, <3>1, <3>2 DEF ShowsUpTo
  <2>3. QED
    BY <2>1, <2>2 DEF ShowsUpTo
<1>3. QED
  BY <1>1, <1>2

(* All the accepted classifications leave LED l at Expected(l): the last  *)
(* one that switches l is the largest index CHOOSE may pick.              *)
LEMMA ShowsExpected ==
  ASSUME NEW l, NEW v, accepted \in Seq(Changes), ShowsUpTo(accepted, Len(accepted), l, v)
  PROVE  v = Expected(l)
<1> DEFINE idx == {i \in 1 .. Len(accepted) :
                     accepted[i] \in DOMAIN Switch /\ Switch[accepted[i]][1] = l}
<1>1. CASE (\A i \in 1 .. Len(accepted) : ~Matches(accepted, i, l)) /\ v = FALSE
  <2>1. idx = {}
    BY <1>1 DEF Matches
  <2>2. QED
    BY <1>1, <2>1 DEF Expected
<1>2. CASE \E i \in 1 .. Len(accepted) :
             /\ Matches(accepted, i, l)
             /\ \A j \in i + 1 .. Len(accepted) : ~Matches(accepted, j, l)
             /\ v = Switch[accepted[i]][2]
  <2>1. PICK i \in 1 .. Len(accepted) :
             /\ Matches(accepted, i, l)
             /\ \A j \in i + 1 .. Len(accepted) : ~Matches(accepted, j, l)
             /\ v = Switch[accepted[i]][2]
    BY <1>2
  <2>2. i \in idx
    BY <2>1 DEF Matches
  <2>3. \A j \in idx : j <= i
    <3> SUFFICES ASSUME NEW j \in idx, j > i PROVE FALSE
      OBVIOUS
    <3>1. j \in i + 1 .. Len(accepted) /\ Matches(accepted, j, l)
      BY DEF Matches
    <3>2. QED
      BY <2>1, <3>1
  <2>4. (CHOOSE c \in idx : \A j \in idx : j <= c) = i
    BY <2>2, <2>3
  <2>5. idx # {}
    BY <2>2
  <2>6. Expected(l) = IF idx = {} THEN FALSE
                      ELSE Switch[accepted[CHOOSE c \in idx : \A j \in idx : j <= c]][2]
    BY DEF Expected
  <2>7. QED
    BY <2>1, <2>4, <2>5, <2>6
<1>3. QED
  BY <1>1, <1>2 DEF ShowsUpTo

(* The initial state satisfies BInv: nothing is queued or accepted.        *)
LEMMA InitBInv == Init => BInv
<1> SUFFICES ASSUME Init PROVE BInv
  OBVIOUS
<1>1. queue \in Seq(Changes) /\ accepted \in Seq(Changes) /\ Len(queue) = 0 /\ Len(accepted) = 0
  BY DEF Init
<1>2. TypeOK
  <2>1. changes \in 0 .. MaxChanges /\ toggles \in Nat /\ Len(queue) <= QueueLen
        /\ Len(accepted) <= MaxChanges
    BY <1>1 DEF Init
  <2>2. QED
    BY <1>1, <2>1, Zenon DEF Init, TypeOK
<1>3. QED
  BY <1>1, <1>2 DEF Init, BInv, Taken

(* ml_change_handler keeps BInv: an accepted classification goes to the   *)
(* back of the queue and of the accepted ones alike, so what blink_task   *)
(* has taken is unchanged.                                                 *)
LEMMA MlChangeBInv ==
  ASSUME BInv, NEW s \in Changes, MlChange(s)
  PROVE  BInv'
<1>1. UNCHANGED <<queueCreated, registered, leds, bPc, toggles>> /\ changes' = changes + 1
      /\ changes' \in 0 .. MaxChanges
  BY DEF MlChange, BInv, TypeOK
<1>2. CASE registered /\ queueCreated /\ Len(queue) < QueueLen
  <2>1. queue' = Append(queue, s) /\ accepted' = Append(accepted, s)
    BY <1>2 DEF MlChange
  <2>2. /\ queue' \in Seq(Changes) /\ Len(queue') = Len(queue) + 1
        /\ accepted' \in Seq(Changes) /\ Len(accepted') = Len(accepted) + 1
        /\ \A i \in 1 .. Len(accepted) : accepted'[i] = accepted[i]
        /\ \A i \in 1 .. Len(queue) : queue'[i] = queue[i]
        /\ queue'[Len(queue) + 1] = s /\ accepted'[Len(accepted) + 1] = s
    BY <2>1 DEF BInv, TypeOK
  <2>3. Taken' = Taken /\ Taken \in Nat /\ Taken <= Len(accepted)
    BY <2>2 DEF Taken, BInv, TypeOK
  <2>4. TypeOK'
    BY <1>1, <1>2, <2>2 DEF BInv, TypeOK
  <2>5. \A i \in 1 .. Len(queue') : queue'[i] = accepted'[Taken' + i]
    <3> SUFFICES ASSUME NEW i \in 1 .. Len(queue') PROVE queue'[i] = accepted'[Taken + i]
      BY <2>3
    <3>1. CASE i <= Len(queue)
      <4>1. queue[i] = accepted[Taken + i] /\ Taken + i \in 1 .. Len(accepted)
        BY <2>2, <2>3, <3>1 DEF BInv, Taken
      <4>2. QED
        BY <2>2, <3>1, <4>1
    <3>2. CASE i = Len(queue) + 1
      BY <2>2, <3>2 DEF Taken, BInv, TypeOK
    <3>3. QED
      BY <2>2, <3>1, <3>2
  <2>6. \A l \in KeywordLeds :
          ShowsUpTo(accepted', Taken', l, leds'[l]) <=> ShowsUpTo(accepted, Taken, l, leds[l])
    <3> SUFFICES ASSUME NEW l \in KeywordLeds
                 PROVE  ShowsUpTo(accepted', Taken, l, leds[l]) <=> ShowsUpTo(accepted, Taken, l, leds[l])
      BY <1>1, <2>3
    <3>1. \A i \in 1 .. Taken : accepted'[i] = accepted[i]
      BY <2>2, <2>3
    <3>2. QED
      BY <2>3, <3>1, ShowsFrame
  <2>7. Len(accepted') <= changes' /\ Len(queue') <= Len(accepted')
    BY <1>1, <2>2 DEF BInv, TypeOK
  <2>8. QED
    BY <1>1, <2>3, <2>4, <2>5, <2>6, <2>7, Zenon DEF BInv
<1>3. CASE ~(registered /\ queueCreated /\ Len(queue) < QueueLen)
  <2>1. UNCHANGED <<queue, accepted>>
    BY <1>3 DEF MlChange
  <2>2. TypeOK'
    BY <1>1, <2>1 DEF BInv, TypeOK
  <2>3. Len(accepted') <= changes' /\ Taken' = Taken
    BY <1>1, <2>1 DEF BInv, TypeOK, Taken
  <2>4. QED
    BY <1>1, <2>1, <2>2, <2>3, Zenon DEF BInv
<1>4. QED
  BY <1>2, <1>3

(* Creating the queue and registering the handler takes nothing.           *)
LEMMA CreateBInv == BInv /\ CreateAndRegister => BInv'
<1> SUFFICES ASSUME BInv, CreateAndRegister PROVE BInv'
  OBVIOUS
<1>1. UNCHANGED <<queue, leds, changes, accepted, toggles>>
      /\ bPc' \in {"allOff", "exited"} /\ queueCreated' \in BOOLEAN /\ registered' \in BOOLEAN
  BY DEF CreateAndRegister
<1>2. TypeOK'
  BY <1>1, Zenon DEF BInv, TypeOK
<1>3. Taken' = 0
  BY <1>1 DEF Taken, BInv, CreateAndRegister
<1>4. bPc' \notin {"delay", "drain"} /\ Len(accepted') <= changes' /\ Len(queue') <= Len(accepted')
  BY <1>1 DEF BInv
<1>5. \A i \in 1 .. Len(queue') : queue'[i] = accepted'[Taken' + i]
  BY <1>1, <1>3 DEF BInv, Taken
<1>6. QED
  BY <1>2, <1>3, <1>4, <1>5 DEF BInv

(* The all-off at start-up comes before blink_task takes anything, so it   *)
(* leaves every keyword LED at what no classification asks for: off.       *)
LEMMA AllOffBInv == BInv /\ AllOff => BInv'
<1> SUFFICES ASSUME BInv, AllOff PROVE BInv'
  OBVIOUS
<1>1. UNCHANGED <<queueCreated, registered, queue, changes, accepted, toggles>>
  BY DEF AllOff
<1>2. Taken' = Taken /\ Taken = 0
  BY <1>1 DEF Taken, AllOff, BInv
<1>3. PICK ok \in LedResults :
        /\ leds' = IF ok THEN [l \in Leds |-> FALSE] ELSE leds
        /\ bPc' = IF ok THEN "delay" ELSE "exited"
  BY DEF AllOff
<1>4. CASE ok
  <2>1. leds' = [l \in Leds |-> FALSE] /\ bPc' = "delay"
    BY <1>3, <1>4
  <2>2. TypeOK'
    BY <1>1, <2>1 DEF BInv, TypeOK
  <2>3. \A l \in KeywordLeds : ShowsUpTo(accepted', Taken', l, leds'[l])
    BY <1>2, <2>1 DEF ShowsUpTo, Leds
  <2>4. QED
    BY <1>1, <1>2, <2>1, <2>2, <2>3 DEF BInv
<1>5. CASE ~ok
  <2>1. leds' = leds /\ bPc' = "exited"
    BY <1>3, <1>5
  <2>2. QED
    BY <1>1, <1>2, <2>1 DEF BInv, TypeOK
<1>6. QED
  BY <1>4, <1>5

(* The outer loop toggles LED_ALIVE, which is no keyword LED.              *)
LEMMA DelayBInv == BInv /\ DelayAndToggle => BInv'
<1> SUFFICES ASSUME BInv, DelayAndToggle PROVE BInv'
  OBVIOUS
<1>1. UNCHANGED <<queueCreated, registered, queue, changes, accepted>>
  BY DEF DelayAndToggle
<1>2. Taken' = Taken
  BY <1>1 DEF Taken
<1>3. /\ "LED_ALIVE" \in Leds /\ leds \in [Leds -> BOOLEAN] /\ toggles \in Nat
      /\ "LED_ALIVE" \notin KeywordLeds
  BY AliveNotKeyword DEF Leds, BInv, TypeOK
<1>4. CASE TicksInterval = 0
  <2>1. bPc' = "exited" /\ UNCHANGED <<leds, toggles>>
    BY <1>4 DEF DelayAndToggle
  <2>2. QED
    BY <1>1, <1>2, <2>1 DEF BInv, TypeOK
<1>5. CASE TicksInterval # 0
  <2>1. PICK ok \in LedResults :
          /\ leds' = IF ok THEN [leds EXCEPT !["LED_ALIVE"] = ~@] ELSE leds
          /\ toggles' = IF ok THEN toggles + 1 ELSE toggles
          /\ bPc' = IF ok THEN "drain" ELSE "exited"
    BY <1>5 DEF DelayAndToggle
  <2>2. CASE ok
    <3>1. leds' = [leds EXCEPT !["LED_ALIVE"] = ~@] /\ toggles' = toggles + 1 /\ bPc' = "drain"
      BY <2>1, <2>2
    <3>2. leds' \in [Leds -> BOOLEAN] /\ \A l \in KeywordLeds : leds'[l] = leds[l]
      BY <1>3, <3>1
    <3>3. TypeOK'
      BY <1>1, <1>3, <3>1, <3>2 DEF BInv, TypeOK
    <3>4. \A l \in KeywordLeds : ShowsUpTo(accepted', Taken', l, leds'[l])
      <4> SUFFICES ASSUME NEW l \in KeywordLeds PROVE ShowsUpTo(accepted', Taken', l, leds'[l])
        OBVIOUS
      <4>1. ShowsUpTo(accepted, Taken, l, leds[l])
        BY DEF BInv, DelayAndToggle
      <4>2. accepted' = accepted /\ Taken' = Taken /\ leds'[l] = leds[l]
        BY <1>1, <1>2, <3>2
      <4>3. QED
        BY <4>1, <4>2, Zenon
    <3>5. QED
      BY <1>1, <1>2, <3>1, <3>3, <3>4 DEF BInv
  <2>3. CASE ~ok
    <3>1. leds' = leds /\ toggles' = toggles /\ bPc' = "exited"
      BY <2>1, <2>3
    <3>2. QED
      BY <1>1, <1>2, <3>1 DEF BInv, TypeOK
  <2>4. QED
    BY <2>2, <2>3
<1>6. QED
  BY <1>4, <1>5

(* xQueueReceive takes the oldest queued classification, the (Taken+1)-th *)
(* accepted one, and process_ml_state_change sets the LED it switches; so *)
(* the keyword LEDs show what the first Taken+1 accepted ones ask for.    *)
LEMMA ReceiveBInv == BInv /\ ReceiveAndProcess => BInv'
<1> SUFFICES ASSUME BInv, ReceiveAndProcess PROVE BInv'
  OBVIOUS
<1> DEFINE h == Head(queue)
<1>1. /\ bPc = "drain" /\ queue # <<>> /\ queue' = Tail(queue)
      /\ UNCHANGED <<queueCreated, registered, changes, accepted, toggles>>
  BY DEF ReceiveAndProcess
<1>2. /\ Taken \in Nat /\ Taken' = Taken + 1 /\ Taken + 1 <= Len(accepted)
      /\ h = accepted[Taken + 1] /\ h \in Changes
      /\ queue' \in Seq(Changes) /\ Len(queue') <= QueueLen /\ Len(queue') <= Len(accepted')
      /\ \A i \in 1 .. Len(queue') : queue'[i] = accepted'[Taken' + i]
  BY <1>1 DEF BInv, TypeOK, Taken
<1>3. /\ leds \in [Leds -> BOOLEAN] /\ KeywordLeds \subseteq Leds
      /\ \A l \in KeywordLeds : ShowsUpTo(accepted, Taken, l, leds[l])
  BY <1>1 DEF BInv, TypeOK, Leds
(* The frame of every case: the rest of BInv' follows from the LEDs.       *)
<1>4. ASSUME leds' \in [Leds -> BOOLEAN], bPc' \in {"drain", "exited"},
             bPc' = "drain" => \A l \in KeywordLeds : ShowsUpTo(accepted', Taken', l, leds'[l])
      PROVE  BInv'
  <2>1. TypeOK'
    BY <1>1, <1>2, <1>4 DEF BInv, TypeOK
  <2>2. Len(accepted') <= changes'
    BY <1>1 DEF BInv
  <2>3. QED
    BY <1>2, <1>4, <2>1, <2>2 DEF BInv
<1>5. CASE h \in DOMAIN Switch
  <2>1. PICK ok \in LedResults :
          /\ leds' = IF ok THEN [leds EXCEPT ![Switch[h][1]] = Switch[h][2]] ELSE leds
          /\ bPc' = IF ok THEN "drain" ELSE "exited"
    BY <1>5 DEF ReceiveAndProcess
  <2>2. CASE ok
    <3>1. leds' = [leds EXCEPT ![Switch[h][1]] = Switch[h][2]] /\ bPc' = "drain"
      BY <2>1, <2>2
    <3>2. Switch[h][1] \in KeywordLeds /\ Switch[h][2] \in BOOLEAN
      BY <1>5, SwitchType
    <3>3. leds' \in [Leds -> BOOLEAN]
      BY <1>3, <3>1, <3>2
    <3>4. \A l \in KeywordLeds : ShowsUpTo(accepted', Taken', l, leds'[l])
      <4> SUFFICES ASSUME NEW l \in KeywordLeds
                   PROVE  ShowsUpTo(accepted, Taken + 1, l, leds'[l])
        BY <1>1, <1>2
      <4>1. leds'[l] = IF Matches(accepted, Taken + 1, l)
                         THEN Switch[accepted[Taken + 1]][2] ELSE leds[l]
        BY <1>2, <1>3, <1>5, <3>1 DEF Matches
      <4>2. QED
        BY <1>2, <1>3, <4>1, ShowsStep
    <3>5. QED
      BY <1>4, <3>1, <3>3, <3>4
  <2>3. CASE ~ok
    <3>1. leds' = leds /\ bPc' = "exited"
      BY <2>1, <2>3
    <3>2. QED
      BY <1>3, <1>4, <3>1
  <2>4. QED
    BY <2>2, <2>3
<1>6. CASE h \notin DOMAIN Switch
  <2>1. leds' = leds /\ bPc' = "drain"
    BY <1>1, <1>6 DEF ReceiveAndProcess
  <2>2. \A l \in KeywordLeds : ShowsUpTo(accepted', Taken', l, leds'[l])
    <3> SUFFICES ASSUME NEW l \in KeywordLeds
                 PROVE  ShowsUpTo(accepted, Taken + 1, l, leds[l])
      BY <1>1, <1>2, <2>1
    <3>1. leds[l] = IF Matches(accepted, Taken + 1, l)
                      THEN Switch[accepted[Taken + 1]][2] ELSE leds[l]
      BY <1>2, <1>6 DEF Matches
    <3>2. QED
      BY <1>2, <1>3, <3>1, ShowsStep
  <2>3. QED
    BY <1>3, <1>4, <2>1, <2>2
<1>7. QED
  BY <1>5, <1>6

(* Every step of the ML side and of blink_task, and a stutter, keeps BInv. *)
LEMMA NextBInv == BInv /\ [Next]_vars => BInv'
<1> SUFFICES ASSUME BInv, [Next]_vars PROVE BInv'
  OBVIOUS
<1>1. CASE MlNext
  BY <1>1, MlChangeBInv DEF MlNext
<1>2. CASE CreateAndRegister
  BY <1>2, CreateBInv
<1>3. CASE AllOff
  BY <1>3, AllOffBInv
<1>4. CASE DelayAndToggle
  BY <1>4, DelayBInv
<1>5. CASE ReceiveAndProcess
  BY <1>5, ReceiveBInv
<1>6. CASE UNCHANGED vars
  BY <1>6 DEF vars, BInv, TypeOK, Taken
<1>7. QED
  BY <1>1, <1>2, <1>3, <1>4, <1>5, <1>6 DEF Next, BlinkNext

(* The blink task's state is always well typed: in particular the queue   *)
(* never holds more than QueueLen classifications.                         *)
THEOREM TypeCorrect == Spec => []TypeOK
<1>1. BInv => TypeOK
  BY DEF BInv
<1>2. QED
  BY InitBInv, NextBInv, <1>1, PTL DEF Spec

(* For every queue length, number of classifications and tick rate, and   *)
(* with or without failing LED calls: once blink_task has drained          *)
(* xUiMsgQueue, every keyword LED shows what the last classification       *)
(* ml_change_handler accepted for it asked for, or off if none did.        *)
THEOREM LedsFollowLastChangeHolds == Spec => []LedsFollowLastChange
<1>1. BInv => LedsFollowLastChange
  <2> SUFFICES ASSUME BInv, bPc = "drain", queue = <<>>, NEW l \in KeywordLeds
               PROVE  leds[l] = Expected(l)
    BY DEF LedsFollowLastChange
  <2>1. Taken = Len(accepted) /\ accepted \in Seq(Changes)
    BY DEF BInv, TypeOK, Taken
  <2>2. ShowsUpTo(accepted, Len(accepted), l, leds[l])
    BY <2>1 DEF BInv
  <2>3. QED
    BY <2>1, <2>2, ShowsExpected
<1>2. QED
  BY InitBInv, NextBInv, <1>1, PTL DEF Spec

=============================================================================
