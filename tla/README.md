# TLA+ models of the speech-recognition pipeline

This directory holds TLA+ models of the concurrent core of the speech-recognition
application (`src/applications/speech_recognition`). It also holds the TLC
configurations that model-check them and the TLAPS proofs about them.

## The system

The application is a FreeRTOS program whose tasks hand audio and results to one
another:

| Part (spec name) | Code | What it does |
|---|---|---|
| AudioSource | `DspAudioSource` in `dsp/src/dsp_interfaces.cpp` | Ring of audio blocks. The VSI interrupt (`new_audio_block_received`) advances the block under write and gives a binary semaphore; `getCurrentBuffer` returns the block to read. |
| CaptureController | `dsp_task`, `dsp_task_start/stop` in `dsp/src/dsp_task.cpp` | Waits for START on a control queue of 10, sets up the audio driver on the first launch, and runs the generated dataflow `scheduler()` until STOP. |
| DoubleBufferChannel | class `DSPML` in `dsp_interfaces.cpp` | Two heap buffers. The DSP side writes one, swaps the pointers under a mutex and gives a binary semaphore; the ML task waits for it and copies the other. |
| InferenceCoordinator | `ml_task`, `ProcessAudio`, `ml_task_inference_start/stop` in `ml_interface.cc` | Waits for the START bit, initialises the NPU and model, then loops: polls STOP, waits for a window, runs pre-processing, inference and post-processing, and reports every `maxNbInference` = 2 results. |
| SystemEventCoordinator | `xAppEvents` event group, `event_helper.c` | ML start/stop bits set by the OTA hooks (`OTA_Active_Hook` stops inference, `OTA_Not_Active_Hook` starts it), plus network and MQTT bits. |
| Blink task (keyword-detection application) | `blink_task`, `ml_change_handler`, `process_ml_state_change` in `keyword_detection/blink_task.c` | Queues each ML classification it is told of on `xUiMsgQueue` (10 entries, no wait), and in its own loop toggles the is-alive LED and sets one LED per recognised keyword. |
| ResultDeliveryChannel | `set_ml_processing_state`, `ml_mqtt_task` (`ml_interface.cc`), `mqtt_send_message`, `prvAppPublishCommandCallback` (`main.c`) | Copies the decoded string to the heap and queues it on `xMlMqttQueue`. A delivery task publishes it through the coreMQTT agent, waits at most 5 s for the completion notification, and frees it. |

Interactions: the VSI interrupt feeds AudioSource, and the scheduler in the DSP
task writes DSPML. The ML task reads DSPML and reports through `xMlMqttQueue` to
the delivery task, which publishes through the MQTT agent task. The OTA task
starts and stops the ML task through the event group.

## Modules

| Module | Models | State | Actions |
|---|---|---|---|
| `DSPML` | DoubleBufferChannel | `dspBuffer`, `mlBuffer`, the buffer contents (per half), the mutex holder, the semaphore, and a pc per side with the buffer each memcpy started on | lock, first half, second half + unlock, swap, give (DSP side); take, lock, first half, second half + unlock (ML side) |
| `LatestWindow` | What DoubleBufferChannel promises: a register of the latest published window | `published`, `got` | publish the next window, read the latest one atomically |
| `DSPML_proofs` | TLAPS proofs about `DSPML`, including the refinement to `LatestWindow` | | |
| `CaptureTask_proofs` | TLAPS proofs about `CaptureTask` | | |
| `MLTask_proofs`, `BlinkTask_proofs`, `AudioSource_proofs` | TLAPS proofs about `MLTask`, `BlinkTask` and `AudioSource` | | |
| `AudioSource` | AudioSource, in both builds (`Interrupt` = `AUDIO_VSI`) | `block_under_write`, `current_block`, the binary semaphore, the frame each block last completed, the reader's pc and block, and the interrupts since the reader got its block | the receive-complete interrupt, `waitForNewBuffer`, `getCurrentBuffer`, copy first half, copy second half |
| `CaptureTask` | CaptureController, with `scheduler()` from its contract | `dsp_msg_queue` (NULL or its messages), dsp_task's pc, `first_launch`, whether the driver receives | `dsp_task_start/stop`, queue creation, the START wait loop, `first_launch` + `AudioDrv_Setup`, one scheduler iteration (wait for a block, poll the queue), scheduler error return |
| `BlinkTask` | The keyword-detection blink task; the ML side that calls the handler is an environment reporting any `ml_processing_state_t` | `xUiMsgQueue` (NULL or its states), handler registered, the LEDs, the task's pc, and the accepted states and alive toggles (history) | `ml_change_handler`, queue creation + registration, all-off, delay + toggle (with `ticks_interval` from `configTICK_RATE_HZ`), receive + `process_ml_state_change`; every LED call may fail |
| `MLTask` | InferenceCoordinator, with the ML bits of the event group and the OTA hooks as the supervisor | the event bits, ml_task's pc, `inferenceIndex`, `results`, DSPML's semaphore, and the start/stop calls | each half of start/stop (clear, set), the initial START wait, `ml_interface_init`, stop poll, wait for data, one whole iteration (`Infer`), restart wait |
| `ResultDelivery` | ResultDeliveryChannel and the MQTT agent's contract | `xMlMutex`, the queue, per-string free counts, the delivery task's pc, the static `publishInfo.pPayload`, the pending notification, who wrote `xReturnStatus`, and the agent's command FIFO and in-flight set | `ml_lock`, the rest of `set_ml_processing_state`, receive + prepare, `MQTTAgent_Publish`, notify wait (returns / times out), unlock + free, agent send, agent completion callback |

Abstractions:
- Audio windows are numbers: the k-th window the scheduler delivers is k. Uninitialised `malloc` memory is 0.
- A memcpy is two steps (first half, second half), so that a copy racing a write is visible. It evaluates its pointer once, so the buffer it started on is recorded.
- A result string is a message number.
- NPU and model stages are reduced to success or failure, chosen with `\E`.
- Whether a primitive was created is an initial choice or a constant. `MutexCreated` is a constant in DSPML; `queueCreated` is an initial state in ResultDelivery, because nothing under `src/` creates `xMlMqttQueue`.

Each action models a whole handler step, including its failure branches: an
early return on a NULL handle, a full queue, or an ignored return value. Logging
is left out.

## Runs

| Run | Checks | Result | Shows |
|---|---|---|---|
| `audio` (`AudioSource.cfg`) | TypeOK, NoTornBlock, LatestBlockEventuallyRead | pass | In the VSI build, if a block copy spans at most one interrupt, the reader only copies whole completed blocks and always gets the latest one. |
| `audio_poll` | ReadsFromBlockZero | violation | The polling build reads blocks 1, 2, 3, 0, ..., not 0, 1, 2, 3 as in the spec's scenario. |
| `capture` (`CaptureTask.cfg`) | TypeOK, StopHonoured | pass | With a working driver, the control queue stays within its length, and a queued STOP always stops capture, whether the wait loop or the scheduler receives it. |
| `capture_setupfail` | StopHonoured | violation | A failed `AudioDrv_Setup` is ignored. The scheduler then waits for blocks forever, so a STOP is never read and the set-up is never retried. |
| `dspml` (`DSPML.cfg`) | TypeOK, WindowIntegrity, ReadsMonotonic, LatestEventuallyRead, ImplementsLatestWindow | pass | With the mutex, the ML task only reads whole, published windows, never an older one than before, and the latest window reaches it. The double buffer implements `LatestWindow`. |
| `blink` (`BlinkTask.cfg`) | TypeOK, LedsFollowLastChange, EveryChangeHandled | pass | With LED calls that may fail, once the queue is drained each keyword LED shows the last accepted classification for it, and every queued classification is handled. |
| `blink_alive` | AliveKeepsBlinking | violation | The inner polling loop never exits. LED_ALIVE toggles once and never again, and the task busy-waits. |
| `mltask` (`MLTask.cfg`) | TypeOK, StopTakesEffect, StartResumes | pass | Stop takes effect within the iteration under way; a start request is never lost. |
| `mltask_valid` | ReportOnlyValid | violation | Results of iterations whose pre- or post-processing failed are reported. |
| `delivery` (`ResultDelivery.cfg`) | TypeOK, SingleOwner, EveryResultFreed | pass | Each string has one owner at a time and is freed exactly once, whatever happens to the send and the publish. |
| `delivery_uaf` | NoUseAfterFree | violation | After a publish timeout the string is freed while the agent still points at it. |
| `delivery_nullq` | MlMutexReleased | violation | With `xMlMqttQueue` NULL, `set_ml_processing_state` returns holding `xMlMutex`, and the ML task deadlocks on its next report. |

Behaviours kept as hazards in `PROJECT.json` rather than as runs:
- **Torn block without the timing bound.** With `MaxOverrun` lifted, the ring wraps during a copy, and the reader copies a block that is being refilled. Nothing in the code detects it.
- **Mutex-creation failure.** If `xSemaphoreCreateMutex` fails in `DSPML`, the copies run unlocked. The ML task can then read a torn window (set `MutexCreated = FALSE` in `DSPML.cfg`).
- **Aggregation kept across a restart.** `inferenceIndex` survives a stop, so a report can mix results from two cycles. The spec leaves this as an open question.
- **Rereading a window.** A give collapsed into one already pending lets the ML task read the same window twice. `LatestWindow` allows this explicitly. Spec section 8 ("swap-before-signal") can be read as forbidding it.
- **Late completion.** A completion arriving after a publish timeout writes the shared `xReturnStatus`. The next publish's wait can then read it; `retFor` records who wrote it.

The violation runs are recorded as findings in `PROJECT.json`. Each mutant in
`PROJECT.json` replaces one modelled definition with a plausible bug, and TLC
finds the run's property violated.

### Bounds

- **AudioSource:** 3 blocks and 5 frames, so the ring wraps. `MaxOverrun = 1` is the real-time assumption: copying a block out takes less than a block period. The polling run uses the spec's scenario: 4 blocks, 6 reads.
- **CaptureTask:** a queue of 2 with 4 calls, so it fills and START, STOP, START, STOP happens. The real queue length of 10 only delays the full case.
- **DSPML:** `MaxWindow = 4`. Window k+2 overwrites the buffer window k was in, so the DSP side laps the ML side at least once. Collapsed gives and a lapped reader need only 3 windows.
- **BlinkTask:** three classifications that switch one or two LEDs plus one of the default case, a queue of 2 and 4 handler calls, so the queue fills and a later state overrides an earlier one. The LEDs start in any state. `configTICK_RATE_HZ` is 1000, as in this build.
- **MLTask:** `MaxNbInference = 2`, as in the code. `MaxWindow = 4` and `MaxCalls = 3` allow a start, stop, start sequence with a report in each cycle.
- **ResultDelivery:** `MaxReports = 3` with `QueueLen = 2`, so a send can find the queue full. There are enough publishes for a late completion to meet the next publish.

`CHECK_DEADLOCK FALSE` is used because these systems really stop: the bounded
producers stop producing, and the tasks then block forever in `portMAX_DELAY`
waits, as the real tasks do when no more input comes.

### Fairness

- **Tasks:** weak fairness on the actions of each task that is ready (ML task, DSP task, delivery task). In `DSPML` the DSP task's fairness covers writing, swapping and giving a window it has taken, not taking the next one. FreeRTOS runs every ready task eventually, and the ML loop's `vTaskDelay(10)` lets lower-priority tasks run.
- **Supervisor:** weak fairness on the second half of the start/stop calls, because a call that has begun runs to its end.
- **Hardware and scheduler:** the hardware is not obliged to deliver blocks, and the scheduler is not obliged to fail.
- **Not fair:** new windows, new OTA requests, and the MQTT agent (the broker may never answer). The 5 s timeout is what bounds the delivery task.

## Proofs (TLAPS)

`DSPML_proofs` proves, for every `MaxWindow`:

- `TypeCorrect`: `Spec => []TypeOK`, with or without the mutex.
- `WindowIntegrityHolds`: `MutexCreated /\ Spec => []WindowIntegrity`, where the ML task's last copy has both halves from the same published window.
- `ReadsMonotonicHolds`: `MutexCreated /\ Spec => ReadsMonotonic`, the action property that no copy returns an older window than the one before. It uses `IInv` plus `ReadNotAhead` (the last window copied is never newer than `Published`). Two lemmas carry it: `PublishedGrows` (no step decreases `Published`) and `ReadIsPublished` (a step either leaves `lastRead` alone or sets it to `Published`).

WindowIntegrity alone is not inductive, so the proof goes through
`IInv == TypeOK /\ CopiesOnOwnBuffer /\ MutexHeld /\ BufferContents /\ WokenAfterPublish /\ WindowIntegrity`:
- **CopiesOnOwnBuffer:** a DSP copy in progress writes `dspBuffer`, and an ML copy in progress reads `mlBuffer`.
- **MutexHeld:** each side in the middle of a copy holds the mutex.
- **BufferContents:** both halves of `mlBuffer` hold the last published window (`Published`, which is the garbage value 0 before the first swap). While the DSP copy is between halves, the first half of `dspBuffer` holds the window being written, and both halves do once the copy is done. An ML copy between halves has read the published window.
- **WokenAfterPublish:** a given semaphore implies a window has been published.

`RefinesLatestWindow`: `MutexCreated /\ Spec => ImplementsLatestWindow`. The refinement mapping takes the window last swapped in as `published`, and the ML task's last copy as `got` (a copy with differing halves maps to no window). The lemma `StepRefines` shows that each step under `IInv` is one of these:
- `SwapBuffers` is the abstract `Publish`;
- the end of the ML copy is the abstract `Read` of the published window, because `BufferContents` and `CopiesOnOwnBuffer` say that both halves read `Published`, and `WokenAfterPublish` says it is a window;
- every other step leaves both mapped values unchanged.

With these, the ML side's two halves come from the same buffer, which no one
writes while the ML side holds the mutex. `Init => IInv` and
`MutexCreated /\ IInv /\ [Next]_vars => IInv'` are proved with one step per
action.

`CaptureTask_proofs` proves `TypeCorrect`: `Spec => []TypeOK`, for every queue length, request count and setup outcome, so `dsp_msg_queue` never holds more than `QueueLen` messages. The bound on the `AudioDrv_Setup` count in TypeOK needs `SetupInv`, so the invariant is `TypeOK /\ SetupInv`. `SetupInv` says that `AudioDrv_Setup` has been called at most once, and not at all while `first_launch` is set; the lemma `SetupOnceHoldsStep` shows every step keeps it, since `dsp_task` clears `first_launch` in the same step as the call.

`MLTask_proofs` proves, for every `maxNbInference`, window count and call count:
- `TypeCorrect`: `Spec => []TypeOK`.
- `StopTakesEffectHolds`: `Spec => []StopTakesEffect`. Once `ml_task_inference_stop` has returned, and until the next start, the ML task takes at most one more window. The property is not inductive, because it says nothing of where the ML task is. `SInv` adds three facts:
  - from the clear of the stop call on, `ML_EVENT_START` stays clear, because only the supervisor sets it;
  - `ML_EVENT_STOP` stays set until the poll at the loop head consumes it, so a task that has not reached that poll has taken at most one window since the stop;
  - a task waiting for data has taken none.

`BlinkTask_proofs` proves, for every number of ML changes and every tick interval:
- `TypeCorrect`: `Spec => []TypeOK`.
- `LedsFollowLastChangeHolds`: `Spec => []LedsFollowLastChange`. The invariant `BInv` says these things:
  - the queue is exactly the accepted changes the task has not yet taken (`queue[i] = accepted[Taken + i]`);
  - nothing is taken before the all-off;
  - after it, each keyword LED shows what the last *taken* change for it asked for (`ShowsUpTo`).

  `ShowsUpTo` names the index of that last change as a witness, instead of taking a maximum, whose existence would need induction over the sequence. Lemmas `ShowsStep` and `ShowsFrame` say how it moves when one more change is taken and when the sequence grows beyond the prefix. `ShowsExpected` connects it, on a drained queue, to `Expected`, which takes a `CHOOSE`n maximum.

`AudioSource_proofs` proves two theorems for the interrupt build (`Interrupt`), for every ring in which the block being copied cannot be reached by the interrupt (`RingCannotWrap == MaxOverrun + 2 <= BlockCount`):
- `NoTornBlockHolds`: `[]NoTornBlock`;
- `TypeCorrect`: `[]TypeOK`.

Their invariant `AInv` says these things:
- `current_block + 1 = block_under_write (mod block_count)` once a frame has arrived;
- during a copy, `block_under_write = rBlock + 1 + overrun (mod block_count)`, with `overrun <= MaxOverrun`;
- a copy between halves has read the frame the block still holds.

So the interrupt writes a block other than `rBlock` (lemma `ModOffset`). The hypothesis is tight: with `BlockCount = MaxOverrun + 1`, the interrupt reaches the block being copied. That hypothesis, not the code, is what keeps blocks whole, since nothing in `DspAudioSource` detects an overrun.

`ResultDelivery_proofs` proves, for every `MaxReports` and `QueueLen`:

- `SingleOwnerHolds`: `Spec => []SingleOwner`. Each allocated result string is in `xMlMqttQueue` once, or held by `ml_mqtt_task`, or freed. Exactly one of the three holds.
- `NoDoubleFree`: `Spec => []TypeOK`. In particular, `freeCount` stays in `0 .. 1`.

SingleOwner counts queue occurrences with `Cardinality`, and it is not inductive. The proof goes through
`RInv`, which counts ownership with `InQueue` (membership) instead and adds these facts:
- **Fresh allocation:** `malloc` returns a fresh string. Allocated strings are numbered below `nextMsg`, and unallocated ones were never freed.
- **Queue contents:** the queue holds only allocated strings, and none of them twice.
- **Delivery task:** `ml_mqtt_task` holds an allocated string whenever it is past its receive.

There is one lemma per action:
- `SetStateSend` hands the fresh string either to `free` (queue NULL or full) or to the back of the queue.
- The receive moves the head of the queue to the task. Injectivity ensures that the head occurs nowhere else in the queue.
- The free turns the task's hold into a free. Having a single owner means that string was neither queued nor freed before.
- The other steps leave the three owners alone (lemma `OwnersFrame`).

`OccurrencesInjective` links the two counts: in a sequence with no repeats, an element occurs once if it occurs at all.

Only model-checked:
- the liveness properties (`LatestEventuallyRead`, `LatestBlockEventuallyRead`, `StopHonoured`, `EveryChangeHandled`, `StartResumes`, `EveryResultFreed`), because TLAPS does not reason about fairness or `ENABLED`;
- the properties of the violation runs (`ReadsFromBlockZero`, `ReportOnlyValid`, `NoUseAfterFree`, `MlMutexReleased`, `AliveKeepsBlinking`), which TLC shows false;
- AudioSource in the polling build, and rings with `BlockCount < MaxOverrun + 2`, about which no theorem is stated (in the latter, blocks can be torn).

## Not modelled (yet)

- **The audio timestamp:** a float read and written in critical sections, whose only writer is the generated scheduler.
- **The generated dataflow scheduler:** not in the repository. DSPML models only its contract.
- **NPU set-up and the platform adaptation:** hardware register programming.
- **`main` bring-up:** straight-line start-up. Two facts from it are reflected as initial states. `main` starts neither the DSP task nor capture, and calls `vStartMlTask()` without the `DSPML` argument.
- **The network and MQTT bits of the event group (`event_helper.c`):** each helper only blocks, with no timeout, until a bit is set. Nothing under `src/` sets these bits: the network and MQTT agent tasks that do are outside the repository. There is no interaction to model beyond a wait that ends when an outside task sets the bit. `ml_interface.cc` uses a separate group, `xAppEvents`, which `MLTask` models.
- **The code that calls the blink task's handler:** the keyword-detection ML interface is not in the repository. `blink_task.c` calls `on_ml_processing_change`, while its header declares `register_ml_processing_change_cb`. `BlinkTask` takes the registration to succeed.
- **The mocks and the OTA unit test:** test code.
