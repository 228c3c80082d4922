-------------------------------- MODULE DSPML --------------------------------
(***************************************************************************)
(* The double-buffer channel between the DSP task and the ML task          *)
(* (class DSPML, dsp/src/dsp_interfaces.cpp).                              *)
(*                                                                         *)
(* Two heap buffers A and B; the DSP side writes the next audio window     *)
(* into the buffer dspBuffer points to, swaps the two pointers and gives   *)
(* a binary semaphore; the ML side takes the semaphore and copies the     *)
(* buffer mlBuffer points to.  Copies and the swap are done under one      *)
(* FreeRTOS mutex.                                                         *)
(*                                                                         *)
(* Data is abstracted to window numbers: the scheduler's k-th delivered    *)
(* window is the number k, Garbage (0) is the uninitialised malloc         *)
(* content.  A memcpy is not atomic: it is split into the copy of its      *)
(* first and of its second half, so that a copy racing a write shows up    *)
(* as a window whose halves differ.  memcpy evaluates its pointer          *)
(* argument once, so each copy records the buffer it started on.           *)
(***************************************************************************)
EXTENDS Integers

CONSTANTS
  MaxWindow,     \* number of windows the DSP scheduler delivers in a run
  MutexCreated   \* whether xSemaphoreCreateMutex() returned a handle

ASSUME DSPMLAssumption ==
  /\ MaxWindow \in Nat \ {0}
  /\ MutexCreated \in BOOLEAN

Buffers == {"A", "B"}
Halves  == {1, 2}
Garbage == 0                       \* content of a buffer never written
Windows == 1 .. MaxWindow
NoRead  == <<-1, -1>>              \* lastRead before the first copy
Free    == "free"

VARIABLES
  dspBuffer,   \* DSPML::dspBuffer
  mlBuffer,    \* DSPML::mlBuffer
  content,     \* content[b][h]: window held by half h of buffer b
  mutex,       \* holder of DSPML::mutex: Free, "dsp" or "ml"
  sem,         \* DSPML::semaphore, a binary semaphore: 0 or 1
  dspPc,       \* where the DSP task is in its write/swap/give sequence
  dspDst,      \* buffer the DSP task's memcpy writes into
  produced,    \* number of windows the scheduler has handed to the sink
  mlPc,        \* where the ML task is in its wait/copy sequence
  mlSrc,       \* buffer the ML task's memcpy reads from
  readHalf,    \* first half already copied by the ML task's memcpy
  lastRead     \* the last window the ML task copied out, as <<half1, half2>>

vars == <<dspBuffer, mlBuffer, content, mutex, sem, dspPc, dspDst, produced,
          mlPc, mlSrc, readHalf, lastRead>>

(* The window the DSP side has most recently published by a swap.         *)
Published == IF dspPc \in {"give", "idle"} THEN produced ELSE produced - 1

-----------------------------------------------------------------------------
(* DSPML::DSPML: bufferA, bufferB from malloc (uninitialised), dspBuffer = *)
(* bufferA, mlBuffer = bufferB; the mutex and the binary semaphore are     *)
(* created by the member initialisers, the semaphore empty.                *)
Init ==
  /\ dspBuffer = "A"
  /\ mlBuffer = "B"
  /\ content = [b \in Buffers |-> [h \in Halves |-> Garbage]]
  /\ mutex = Free
  /\ sem = 0
  /\ dspPc = "idle" /\ dspDst = "A" /\ produced = 0
  /\ mlPc = "wait" /\ mlSrc = "B" /\ readHalf = Garbage /\ lastRead = NoRead

(* dspml_lock: xSemaphoreTake(mutex, portMAX_DELAY) blocks until the      *)
(* mutex is free; when the mutex was never created it returns false at    *)
(* once, and every caller ignores the result and goes on unlocked.         *)
(* Mutant: the take does not wait for the holder to give the mutex back.   *)
AcquireNoWait(who) ==
  IF MutexCreated THEN mutex' = who ELSE UNCHANGED mutex

Acquire(who) ==
  IF MutexCreated THEN mutex = Free /\ mutex' = who ELSE UNCHANGED mutex

(* dspml_unlock: xSemaphoreGive(mutex); a no-op without a mutex.           *)
Release ==
  IF MutexCreated THEN mutex' = Free ELSE UNCHANGED mutex

-----------------------------------------------------------------------------
(* DSP task.  The scheduler's sink node takes the next window and calls    *)
(* copyToDSPBufferFrom then swapBuffersAndWakeUpMLThread.                  *)

(* copyToDSPBufferFrom: dspml_lock, then memcpy(dspBuffer, buf) starts.   *)
(* Mutant: the copy targets mlBuffer instead of dspBuffer.                 *)
CopyToDSPLockWrongBuffer ==
  /\ dspPc = "idle"
  /\ produced < MaxWindow
  /\ Acquire("dsp")
  /\ produced' = produced + 1
  /\ dspDst' = mlBuffer
  /\ dspPc' = "copy1"
  /\ UNCHANGED <<dspBuffer, mlBuffer, content, sem, mlPc, mlSrc, readHalf, lastRead>>

CopyToDSPLock ==
  /\ dspPc = "idle"
  /\ produced < MaxWindow
  /\ Acquire("dsp")
  /\ produced' = produced + 1
  /\ dspDst' = dspBuffer
  /\ dspPc' = "copy1"
  /\ UNCHANGED <<dspBuffer, mlBuffer, content, sem, mlPc, mlSrc, readHalf, lastRead>>

(* memcpy, first half of the window.                                       *)
CopyToDSPFirstHalf ==
  /\ dspPc = "copy1"
  /\ content' = [content EXCEPT ![dspDst][1] = produced]
  /\ dspPc' = "copy2"
  /\ UNCHANGED <<dspBuffer, mlBuffer, mutex, sem, dspDst, produced,
                 mlPc, mlSrc, readHalf, lastRead>>

(* memcpy, second half, then dspml_unlock.                                 *)
CopyToDSPSecondHalf ==
  /\ dspPc = "copy2"
  /\ content' = [content EXCEPT ![dspDst][2] = produced]
  /\ Release
  /\ dspPc' = "swap"
  /\ UNCHANGED <<dspBuffer, mlBuffer, sem, dspDst, produced,
                 mlPc, mlSrc, readHalf, lastRead>>

(* swapBuffersAndWakeUpMLThread: under the mutex, exchange the pointers.   *)
(* Lock, three assignments and unlock form one step: nothing between them *)
(* is visible to the other task.                                           *)
SwapBuffers ==
  /\ dspPc = "swap"
  /\ MutexCreated => mutex = Free
  /\ dspBuffer' = mlBuffer
  /\ mlBuffer' = dspBuffer
  /\ dspPc' = "give"
  /\ UNCHANGED <<content, mutex, sem, dspDst, produced, mlPc, mlSrc, readHalf, lastRead>>

(* then, after the unlock, xSemaphoreGiveFromISR(semaphore): a binary      *)
(* semaphore already given stays given (the give fails, nothing queues).  *)
(* Mutant: the wake-up is dropped.                                         *)
WakeUpMLThreadDropped ==
  /\ dspPc = "give"
  /\ dspPc' = "idle"
  /\ UNCHANGED <<dspBuffer, mlBuffer, content, mutex, sem, dspDst, produced,
                 mlPc, mlSrc, readHalf, lastRead>>

(* Mutant: a counting semaphore instead of a binary one.                  *)
WakeUpMLThreadCounting ==
  /\ dspPc = "give"
  /\ sem' = sem + 1
  /\ dspPc' = "idle"
  /\ UNCHANGED <<dspBuffer, mlBuffer, content, mutex, dspDst, produced,
                 mlPc, mlSrc, readHalf, lastRead>>

WakeUpMLThread ==
  /\ dspPc = "give"
  /\ sem' = 1
  /\ dspPc' = "idle"
  /\ UNCHANGED <<dspBuffer, mlBuffer, content, mutex, dspDst, produced,
                 mlPc, mlSrc, readHalf, lastRead>>

-----------------------------------------------------------------------------
(* ML task (ProcessAudio).                                                 *)

(* waitForDSPData: xSemaphoreTake(semaphore, portMAX_DELAY).               *)
WaitForDSPData ==
  /\ mlPc = "wait"
  /\ sem = 1
  /\ sem' = 0
  /\ mlPc' = "lock"
  /\ UNCHANGED <<dspBuffer, mlBuffer, content, mutex, dspPc, dspDst, produced,
                 mlSrc, readHalf, lastRead>>

(* copyFromMLBufferInto: dspml_lock, then memcpy(buf, mlBuffer) starts.   *)
CopyFromMLLock ==
  /\ mlPc = "lock"
  /\ Acquire("ml")
  /\ mlSrc' = mlBuffer
  /\ mlPc' = "copy1"
  /\ UNCHANGED <<dspBuffer, mlBuffer, content, sem, dspPc, dspDst, produced,
                 readHalf, lastRead>>

(* memcpy, first half.                                                     *)
(* Mutant: dspml_unlock is called between the two halves of the copy.      *)
CopyFromMLFirstHalfUnlock ==
  /\ mlPc = "copy1"
  /\ readHalf' = content[mlSrc][1]
  /\ Release
  /\ mlPc' = "copy2"
  /\ UNCHANGED <<dspBuffer, mlBuffer, content, sem, dspPc, dspDst, produced,
                 mlSrc, lastRead>>

CopyFromMLFirstHalf ==
  /\ mlPc = "copy1"
  /\ readHalf' = content[mlSrc][1]
  /\ mlPc' = "copy2"
  /\ UNCHANGED <<dspBuffer, mlBuffer, content, mutex, sem, dspPc, dspDst, produced,
                 mlSrc, lastRead>>

(* memcpy, second half, then dspml_unlock; the window goes to inference.  *)
CopyFromMLSecondHalf ==
  /\ mlPc = "copy2"
  /\ lastRead' = <<readHalf, content[mlSrc][2]>>
  /\ Release
  /\ mlPc' = "wait"
  /\ UNCHANGED <<dspBuffer, mlBuffer, content, sem, dspPc, dspDst, produced,
                 mlSrc, readHalf>>

-----------------------------------------------------------------------------
DSPNext ==
  \/ CopyToDSPLock \/ CopyToDSPFirstHalf \/ CopyToDSPSecondHalf
  \/ SwapBuffers \/ WakeUpMLThread

MLNext ==
  \/ WaitForDSPData \/ CopyFromMLLock \/ CopyFromMLFirstHalf \/ CopyFromMLSecondHalf

Next == DSPNext \/ MLNext

(* Both are FreeRTOS tasks: a task that can run is eventually scheduled,   *)
(* and a mutex given back goes to the task blocked on it.  A DSP task that *)
(* has taken a window finishes writing, swapping and giving it; whether   *)
(* the scheduler hands it a next window depends on the audio input, so    *)
(* CopyToDSPLock is not fair.                                              *)
Fairness ==
  /\ WF_vars(CopyToDSPFirstHalf \/ CopyToDSPSecondHalf \/ SwapBuffers \/ WakeUpMLThread)
  /\ WF_vars(MLNext)

Spec == Init /\ [][Next]_vars /\ Fairness

-----------------------------------------------------------------------------
TypeOK ==
  /\ dspBuffer \in Buffers
  /\ mlBuffer \in Buffers
  /\ content \in [Buffers -> [Halves -> 0 .. MaxWindow]]
  /\ mutex \in {Free, "dsp", "ml"}
  /\ sem \in {0, 1}
  /\ dspPc \in {"idle", "copy1", "copy2", "swap", "give"}
  /\ dspDst \in Buffers
  /\ produced \in 0 .. MaxWindow
  /\ mlPc \in {"wait", "lock", "copy1", "copy2"}
  /\ mlSrc \in Buffers
  /\ readHalf \in 0 .. MaxWindow
  /\ lastRead \in ((0 .. MaxWindow) \X (0 .. MaxWindow)) \cup {NoRead}

(* The step in which the ML task finishes copying a window out.            *)
ReadCompletes == mlPc = "copy2" /\ mlPc' = "wait"

(* Every window the ML task copies out of the channel is whole and was     *)
(* published: both halves come from the same delivered window (no copy    *)
(* overlapped a write, the mutex at work) and never the uninitialised     *)
(* malloc content (the ML task only copies after a swap has given the     *)
(* semaphore).                                                             *)
WindowIntegrity ==
  lastRead = NoRead \/ (lastRead[1] = lastRead[2] /\ lastRead[1] \in Windows)

(* The ML task never goes back in time: each window it copies is at least *)
(* as new as the one it copied before (mlBuffer only ever holds the latest *)
(* swapped window).                                                        *)
ReadsMonotonic ==
  [][ReadCompletes => lastRead'[1] >= lastRead[1]]_vars

(* Every window the DSP task publishes is eventually seen by the ML task,  *)
(* or superseded by a newer one it sees: the semaphore given after the    *)
(* swap always wakes the ML task onto the latest window.                   *)
LatestEventuallyRead ==
  \A w \in Windows : (Published = w) ~> (lastRead[1] >= w)

(* The window the ML task last received, as the abstract channel sees it: *)
(* a copy whose halves differ is a torn window, which no abstract read     *)
(* returns.                                                                *)
Torn == -2
Got == IF lastRead[1] = lastRead[2] THEN lastRead[1] ELSE Torn

Abstract == INSTANCE LatestWindow WITH published <- Published, got <- Got

(* The double buffer implements the latest-window register: the DSP side's *)
(* write, swap and give publish windows one by one, and each two-step copy *)
(* of the ML task (dspml_lock, memcpy, dspml_unlock) returns exactly the   *)
(* window published when the copy ends, as one atomic read would.  No swap *)
(* can land between the two halves of a copy.                              *)
ImplementsLatestWindow ==
  Abstract!Init /\ [][Abstract!Next]_<<Published, Got>>

=============================================================================
