------------------------------ MODULE BlinkTask ------------------------------
(***************************************************************************)
(* The keyword-detection blink task (keyword_detection/blink_task.c).      *)
(*                                                                         *)
(* blink_task creates xUiMsgQueue (10 entries), registers                  *)
(* ml_change_handler with the ML side, turns all LEDs off, then loops:     *)
(* wait ticks_interval, toggle LED_ALIVE, and drain the queue, setting     *)
(* one LED per recognised keyword.  The ML side (not under src/) calls     *)
(* ml_change_handler on each new classification; the handler posts the    *)
(* state without blocking.  Every mps3_leds_* call can fail, which makes   *)
(* the task return.                                                        *)
(*                                                                         *)
(* A classification is a model value of ml_processing_state_t; an LED is  *)
(* its name.                                                               *)
(***************************************************************************)
EXTENDS Naturals, Sequences, FiniteSets

CONSTANTS
  Changes,       \* the classifications the ML side may report
  QueueLen,      \* length of xUiMsgQueue
  MaxChanges,    \* ml_change_handler calls in a run
  TickRateHz,    \* configTICK_RATE_HZ
  LedMayFail     \* whether an mps3_leds_* call can return false

BlinkTimerPeriodMs == 250

ASSUME BlinkTaskAssumption ==
  /\ QueueLen \in Nat \ {0}
  /\ MaxChanges \in Nat
  /\ TickRateHz \in Nat
  /\ LedMayFail \in BOOLEAN

(* ticks_interval: unsigned integer arithmetic, rounded down.              *)
TicksInterval == (BlinkTimerPeriodMs * TickRateHz) \div 1000

(* process_ml_state_change: the LED each keyword switches, and to what.   *)
(* Any other state (ML_SILENCE, ML_UNKNOWN) falls to the default case.     *)
Switch ==
  [ML_HEARD_YES   |-> <<"LED_YES", TRUE>>,  ML_HEARD_NO    |-> <<"LED_YES", FALSE>>,
   ML_HEARD_GO    |-> <<"LED_GO", TRUE>>,   ML_HEARD_STOP  |-> <<"LED_GO", FALSE>>,
   ML_HEARD_UP    |-> <<"LED_UP", TRUE>>,   ML_HEARD_DOWN  |-> <<"LED_UP", FALSE>>,
   ML_HEARD_LEFT  |-> <<"LED_LEFT", TRUE>>, ML_HEARD_RIGHT |-> <<"LED_LEFT", FALSE>>,
   ML_HEARD_ON    |-> <<"LED_ON", TRUE>>,   ML_HEARD_OFF   |-> <<"LED_ON", FALSE>>]

KeywordLeds == {Switch[s][1] : s \in DOMAIN Switch}
Leds == KeywordLeds \cup {"LED_ALIVE"}

VARIABLES
  queueCreated,  \* xUiMsgQueue is not NULL
  registered,    \* ml_change_handler is registered with the ML side
  queue,         \* the states xUiMsgQueue holds
  leds,          \* leds[l]: LED l is lit
  bPc,           \* where blink_task is
  changes,       \* ml_change_handler calls made
  accepted,      \* history: the states the handler put in the queue
  toggles        \* history: LED_ALIVE toggles done

vars == <<queueCreated, registered, queue, leds, bPc, changes, accepted, toggles>>

(* xUiMsgQueue starts NULL; the LEDs hold whatever the board left.        *)
Init ==
  /\ queueCreated = FALSE
  /\ registered = FALSE
  /\ queue = <<>>
  /\ leds \in [Leds -> BOOLEAN]
  /\ bPc = "create"
  /\ changes = 0
  /\ accepted = <<>>
  /\ toggles = 0

(* An mps3_leds_* call: its possible results.                              *)
LedResults == IF LedMayFail THEN BOOLEAN ELSE {TRUE}

-----------------------------------------------------------------------------
(* ml_change_handler, called by the ML side once it is registered: a NULL *)
(* queue returns; xQueueSendToBack with timeout 0 drops the state when the *)
(* queue is full.                                                           *)
(* Mutant: the state is posted to the front of the queue.                  *)
MlChangeToFront(s) ==
  /\ changes < MaxChanges
  /\ changes' = changes + 1
  /\ IF registered /\ queueCreated /\ Len(queue) < QueueLen
       THEN /\ queue' = <<s>> \o queue
            /\ accepted' = Append(accepted, s)
       ELSE UNCHANGED <<queue, accepted>>
  /\ UNCHANGED <<queueCreated, registered, leds, bPc, toggles>>

(* Mutant: the full-queue check is missing.                                *)
MlChangeOverfill(s) ==
  /\ changes < MaxChanges
  /\ changes' = changes + 1
  /\ IF registered /\ queueCreated
       THEN /\ queue' = Append(queue, s)
            /\ accepted' = Append(accepted, s)
       ELSE UNCHANGED <<queue, accepted>>
  /\ UNCHANGED <<queueCreated, registered, leds, bPc, toggles>>

MlChange(s) ==
  /\ changes < MaxChanges
  /\ changes' = changes + 1
  /\ IF registered /\ queueCreated /\ Len(queue) < QueueLen
       THEN /\ queue' = Append(queue, s)
            /\ accepted' = Append(accepted, s)
       ELSE UNCHANGED <<queue, accepted>>
  /\ UNCHANGED <<queueCreated, registered, leds, bPc, toggles>>

-----------------------------------------------------------------------------
(* blink_task: xQueueCreate(10); on failure the task returns.  Otherwise  *)
(* on_ml_processing_change registers the handler.                          *)
CreateAndRegister ==
  /\ bPc = "create"
  /\ \E ok \in BOOLEAN :
       /\ queueCreated' = ok
       /\ registered' = ok
       /\ bPc' = IF ok THEN "allOff" ELSE "exited"
  /\ UNCHANGED <<queue, leds, changes, accepted, toggles>>

(* mps3_leds_turn_off(LED_ALL); on failure the task returns.               *)
AllOff ==
  /\ bPc = "allOff"
  /\ \E ok \in LedResults :
       /\ leds' = IF ok THEN [l \in Leds |-> FALSE] ELSE leds
       /\ bPc' = IF ok THEN "delay" ELSE "exited"
  /\ UNCHANGED <<queueCreated, registered, queue, changes, accepted, toggles>>

(* The outer loop: ticks_interval 0 returns; otherwise vTaskDelay, then   *)
(* mps3_leds_toggle(LED_ALIVE), returning on failure, then the drain loop. *)
DelayAndToggle ==
  /\ bPc = "delay"
  /\ IF TicksInterval = 0
       THEN /\ bPc' = "exited"
            /\ UNCHANGED <<leds, toggles>>
       ELSE \E ok \in LedResults :
              /\ leds' = IF ok THEN [leds EXCEPT !["LED_ALIVE"] = ~@] ELSE leds
              /\ toggles' = IF ok THEN toggles + 1 ELSE toggles
              /\ bPc' = IF ok THEN "drain" ELSE "exited"
  /\ UNCHANGED <<queueCreated, registered, queue, changes, accepted>>

(* The inner while (1): xQueueReceive with timeout 0.  An empty queue     *)
(* returns at once and the loop polls again, changing nothing; a state is *)
(* passed to process_ml_state_change, whose failure makes the task return.*)
(* Nothing leaves the inner loop otherwise.                                *)
(* Mutant: the state is peeked at (xQueuePeek) instead of received.        *)
ReceivePeek ==
  /\ bPc = "drain"
  /\ queue # <<>>
  /\ LET s == Head(queue) IN
       IF s \in DOMAIN Switch
         THEN \E ok \in LedResults :
                /\ leds' = IF ok THEN [leds EXCEPT ![Switch[s][1]] = Switch[s][2]]
                                 ELSE leds
                /\ bPc' = IF ok THEN "drain" ELSE "exited"
         ELSE UNCHANGED <<leds, bPc>>
  /\ UNCHANGED <<queue, queueCreated, registered, changes, accepted, toggles>>

ReceiveAndProcess ==
  /\ bPc = "drain"
  /\ queue # <<>>
  /\ queue' = Tail(queue)
  /\ LET s == Head(queue) IN
       IF s \in DOMAIN Switch
         THEN \E ok \in LedResults :
                /\ leds' = IF ok THEN [leds EXCEPT ![Switch[s][1]] = Switch[s][2]]
                                 ELSE leds
                /\ bPc' = IF ok THEN "drain" ELSE "exited"
         ELSE UNCHANGED <<leds, bPc>>
  /\ UNCHANGED <<queueCreated, registered, changes, accepted, toggles>>

-----------------------------------------------------------------------------
MlNext == \E s \in Changes : MlChange(s)

BlinkNext == CreateAndRegister \/ AllOff \/ DelayAndToggle \/ ReceiveAndProcess

Next == MlNext \/ BlinkNext

(* blink_task runs whenever it is ready (its delay expires, or the queue  *)
(* has a state for its polling loop).  The ML side owes no classification.*)
Fairness == WF_vars(BlinkNext)

Spec == Init /\ [][Next]_vars /\ Fairness

-----------------------------------------------------------------------------
TypeOK ==
  /\ queueCreated \in BOOLEAN
  /\ registered \in BOOLEAN
  /\ queue \in Seq(Changes) /\ Len(queue) <= QueueLen
  /\ leds \in [Leds -> BOOLEAN]
  /\ bPc \in {"create", "allOff", "delay", "drain", "exited"}
  /\ changes \in 0 .. MaxChanges
  /\ accepted \in Seq(Changes) /\ Len(accepted) <= MaxChanges
  /\ toggles \in Nat

(* The level the last accepted keyword for LED l asks for; off (the all-  *)
(* off at start-up) when no accepted keyword switches l.                   *)
Expected(l) ==
  LET idx == {i \in 1 .. Len(accepted) :
                accepted[i] \in DOMAIN Switch /\ Switch[accepted[i]][1] = l}
  IN  IF idx = {} THEN FALSE
      ELSE Switch[accepted[CHOOSE i \in idx : \A j \in idx : j <= i]][2]

(* Once the blink task has drained its queue, every keyword LED shows what *)
(* the last classification the handler accepted for it asked for: the     *)
(* queue keeps the order of the handler's calls, and the all-off at       *)
(* start-up cannot undo a state already queued.                            *)
LedsFollowLastChange ==
  (bPc = "drain" /\ queue = <<>>) => \A l \in KeywordLeds : leds[l] = Expected(l)

(* Every classification the handler queued is eventually handled: the     *)
(* polling loop empties the queue, unless the task has returned.           *)
EveryChangeHandled ==
  (queue # <<>>) ~> (queue = <<>> \/ bPc = "exited")

(* The header comment of blink_task and of its loop: LED_ALIVE is toggled *)
(* at a fixed interval while the task runs: the task keeps coming back to *)
(* its periodic delay, unless it has returned.                             *)
AliveKeepsBlinking ==
  []<>(bPc \in {"delay", "exited"})

=============================================================================
