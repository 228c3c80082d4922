---------------------------- MODULE DSPML_proofs ----------------------------
(***************************************************************************)
(* Proofs about the double-buffer channel DSPML, for every MaxWindow.      *)
(***************************************************************************)
EXTENDS DSPML, TLAPS

(* The DSP side's copy goes into the buffer it owns, and the ML side's     *)
(* copy reads the buffer it owns, while each holds the mutex.              *)
CopiesOnOwnBuffer ==
  /\ dspBuffer # mlBuffer
  /\ dspPc \in {"copy1", "copy2"} => dspDst = dspBuffer
  /\ mlPc \in {"copy1", "copy2"} => mlSrc = mlBuffer

(* The mutex is held exactly by a task that is inside a memcpy.            *)
MutexHeld ==
  /\ (mutex = "dsp") <=> (dspPc \in {"copy1", "copy2"})
  /\ (mutex = "ml") <=> (mlPc \in {"copy1", "copy2"})

(* mlBuffer always holds, whole, the last published window; the DSP side's *)
(* buffer holds the window being written once its halves are written.     *)
BufferContents ==
  /\ dspPc # "idle" => produced \in Windows
  /\ content[mlBuffer] = [h \in Halves |-> Published]
  /\ dspPc = "copy2" => content[dspBuffer][1] = produced
  /\ dspPc = "swap" => content[dspBuffer] = [h \in Halves |-> produced]
  /\ mlPc = "copy2" => readHalf = Published

(* The ML task is only past its wait once a window has been published.    *)
WokenAfterPublish ==
  (sem = 1 \/ mlPc # "wait") => Published \in Windows

(* The inductive invariant behind WindowIntegrity.                         *)
IInv ==
  /\ TypeOK
  /\ CopiesOnOwnBuffer
  /\ MutexHeld
  /\ BufferContents
  /\ WokenAfterPublish
  /\ WindowIntegrity

-----------------------------------------------------------------------------
(* The pieces of the model every proof below unfolds.                      *)
USE DSPMLAssumption DEF Buffers, Halves, Garbage, Windows, NoRead, Free

(* A step of Next preserves the types of TypeOK.                           *)
LEMMA TypeInvariance == TypeOK /\ [Next]_vars => TypeOK'
<1> SUFFICES ASSUME TypeOK, [Next]_vars PROVE TypeOK'
  OBVIOUS
<1>1. CASE CopyToDSPLock
  BY <1>1 DEF CopyToDSPLock, Acquire, TypeOK
<1>2. CASE CopyToDSPFirstHalf
  BY <1>2 DEF CopyToDSPFirstHalf, TypeOK
<1>3. CASE CopyToDSPSecondHalf
  BY <1>3 DEF CopyToDSPSecondHalf, Release, TypeOK
<1>4. CASE SwapBuffers
  BY <1>4 DEF SwapBuffers, TypeOK
<1>5. CASE WakeUpMLThread
  BY <1>5 DEF WakeUpMLThread, TypeOK
<1>6. CASE WaitForDSPData
  BY <1>6 DEF WaitForDSPData, TypeOK
<1>7. CASE CopyFromMLLock
  BY <1>7 DEF CopyFromMLLock, Acquire, TypeOK
<1>8. CASE CopyFromMLFirstHalf
  BY <1>8 DEF CopyFromMLFirstHalf, TypeOK
<1>9. CASE CopyFromMLSecondHalf
  BY <1>9 DEF CopyFromMLSecondHalf, Release, TypeOK
<1>10. CASE UNCHANGED vars
  BY <1>10 DEF vars, TypeOK
<1>11. QED
  BY <1>1, <1>2, <1>3, <1>4, <1>5, <1>6, <1>7, <1>8, <1>9, <1>10
     DEF Next, DSPNext, MLNext

(* Type correctness: every reachable state has the types of TypeOK,       *)
(* whether or not the DSPML mutex was created.                             *)
THEOREM TypeCorrect == Spec => []TypeOK
<1>1. Init => TypeOK
  BY DEF Init, TypeOK
<1>2. QED
  BY <1>1, TypeInvariance, PTL DEF Spec

-----------------------------------------------------------------------------
(* The initial state satisfies the inductive invariant.                    *)
LEMMA InitIInv == Init => IInv
  BY DEF Init, IInv, TypeOK, CopiesOnOwnBuffer, MutexHeld, BufferContents,
         WokenAfterPublish, WindowIntegrity, Published

(* With the mutex created, every step of Next preserves IInv.              *)
LEMMA NextIInv == MutexCreated /\ IInv /\ [Next]_vars => IInv'
<1> SUFFICES ASSUME MutexCreated, IInv, [Next]_vars PROVE IInv'
  OBVIOUS
<1>1. TypeOK'
  BY TypeInvariance DEF IInv
<1> USE DEF IInv, TypeOK, CopiesOnOwnBuffer, MutexHeld, BufferContents,
            WokenAfterPublish, WindowIntegrity, Published
<1>2. CASE CopyToDSPLock
  BY <1>1, <1>2 DEF CopyToDSPLock, Acquire
<1>3. CASE CopyToDSPFirstHalf
  BY <1>1, <1>3 DEF CopyToDSPFirstHalf
<1>4. CASE CopyToDSPSecondHalf
  BY <1>1, <1>4 DEF CopyToDSPSecondHalf, Release
<1>5. CASE SwapBuffers
  BY <1>1, <1>5 DEF SwapBuffers
<1>6. CASE WakeUpMLThread
  BY <1>1, <1>6 DEF WakeUpMLThread
<1>7. CASE WaitForDSPData
  BY <1>1, <1>7 DEF WaitForDSPData
<1>8. CASE CopyFromMLLock
  BY <1>1, <1>8 DEF CopyFromMLLock, Acquire
<1>9. CASE CopyFromMLFirstHalf
  BY <1>1, <1>9 DEF CopyFromMLFirstHalf
<1>10. CASE CopyFromMLSecondHalf
  BY <1>1, <1>10 DEF CopyFromMLSecondHalf, Release
<1>11. CASE UNCHANGED vars
  BY <1>1, <1>11 DEF vars
<1>12. QED
  BY <1>2, <1>3, <1>4, <1>5, <1>6, <1>7, <1>8, <1>9, <1>10, <1>11
     DEF Next, DSPNext, MLNext

(* When the DSPML mutex exists, every window the ML task copies out of the *)
(* double buffer is a whole, published window (dspml_lock, the swap and   *)
(* the semaphore given after it, dsp_interfaces.cpp), for every number of  *)
(* windows the DSP scheduler delivers.                                     *)
THEOREM WindowIntegrityHolds == MutexCreated /\ Spec => []WindowIntegrity
<1> DEFINE J == MutexCreated /\ IInv
<1>1. MutexCreated /\ Init => J
  BY InitIInv
<1>2. J /\ [Next]_vars => J'
  BY NextIInv
<1>3. J => WindowIntegrity
  BY DEF IInv
<1>4. QED
  BY <1>1, <1>2, <1>3, PTL DEF Spec

-----------------------------------------------------------------------------
(* Each step of the double buffer is a step of the latest-window register *)
(* or leaves it unchanged: the swap publishes the next window, the end of *)
(* the ML task's copy reads the published one, and every other step        *)
(* stutters.                                                               *)
LEMMA StepRefines ==
  MutexCreated /\ IInv /\ [Next]_vars => [Abstract!Next]_<<Published, Got>>
<1> SUFFICES ASSUME MutexCreated, IInv, [Next]_vars
             PROVE  [Abstract!Next]_<<Published, Got>>
  OBVIOUS
<1> USE DEF IInv, TypeOK, CopiesOnOwnBuffer, MutexHeld, BufferContents,
            WokenAfterPublish, WindowIntegrity
<1>1. CASE SwapBuffers
  <2>1. Published = produced - 1 /\ Published' = produced
    BY <1>1 DEF SwapBuffers, Published
  <2>2. Abstract!Publish
    BY <1>1, <2>1 DEF SwapBuffers, Abstract!Publish, Got
  <2>3. QED
    BY <2>2 DEF Abstract!Next
<1>2. CASE CopyFromMLSecondHalf
  <2>1. Published \in Windows /\ Published' = Published
    BY <1>2 DEF CopyFromMLSecondHalf, Release, Published
  <2>2. lastRead' = <<Published, Published>>
    BY <1>2 DEF CopyFromMLSecondHalf, Published
  <2>3. Got' = Published
    BY <2>2 DEF Got
  <2>4. Abstract!Read
    BY <2>1, <2>3 DEF Abstract!Read
  <2>5. QED
    BY <2>4 DEF Abstract!Next
<1>3. CASE CopyToDSPLock \/ CopyToDSPFirstHalf \/ CopyToDSPSecondHalf
           \/ WakeUpMLThread \/ WaitForDSPData \/ CopyFromMLLock
           \/ CopyFromMLFirstHalf \/ UNCHANGED vars
  <2>1. UNCHANGED <<Published, Got>>
    BY <1>3 DEF CopyToDSPLock, CopyToDSPFirstHalf, CopyToDSPSecondHalf,
              WakeUpMLThread, WaitForDSPData, CopyFromMLLock,
              CopyFromMLFirstHalf, Acquire, Release, vars, Published, Got
  <2>2. QED
    BY <2>1
<1>4. QED
  BY <1>1, <1>2, <1>3 DEF Next, DSPNext, MLNext

(* With the mutex created, the double buffer of dsp_interfaces.cpp        *)
(* implements the latest-window register, for every number of windows:    *)
(* every copy the ML task makes returns the window published when it ends. *)
THEOREM RefinesLatestWindow == MutexCreated /\ Spec => ImplementsLatestWindow
<1> DEFINE J == MutexCreated /\ IInv
<1>1. Init => Abstract!Init
  BY DEF Init, Abstract!Init, Published, Got, NoRead, Abstract!Nothing
<1>2. J /\ [Next]_vars => J'
  BY NextIInv
<1>3. J /\ [Next]_vars => [Abstract!Next]_<<Published, Got>>
  BY StepRefines
<1>4. MutexCreated /\ Init => J
  BY InitIInv
<1>5. QED
  BY <1>1, <1>2, <1>3, <1>4, PTL DEF Spec, ImplementsLatestWindow

-----------------------------------------------------------------------------
(* ReadsMonotonic is a property of steps; the state fact behind it is that *)
(* the window the ML task last copied is never newer than the published    *)
(* one, which itself only grows.                                           *)
ReadNotAhead == lastRead[1] <= Published

(* Published never decreases: taking the next window (CopyToDSPLock) and   *)
(* the swap move produced and dspPc together so that it stays or grows.   *)
LEMMA PublishedGrows == IInv /\ [Next]_vars => Published' >= Published
<1> SUFFICES ASSUME IInv, [Next]_vars PROVE Published' >= Published
  OBVIOUS
<1> USE DEF IInv, TypeOK, Published
<1>1. CASE CopyToDSPLock
  BY <1>1 DEF CopyToDSPLock, Acquire
<1>2. CASE SwapBuffers
  BY <1>2 DEF SwapBuffers
<1>3. CASE CopyToDSPFirstHalf \/ CopyToDSPSecondHalf \/ WakeUpMLThread
           \/ WaitForDSPData \/ CopyFromMLLock \/ CopyFromMLFirstHalf
           \/ CopyFromMLSecondHalf \/ UNCHANGED vars
  BY <1>3 DEF CopyToDSPFirstHalf, CopyToDSPSecondHalf, WakeUpMLThread,
              WaitForDSPData, CopyFromMLLock, CopyFromMLFirstHalf,
              CopyFromMLSecondHalf, Release, vars
<1>4. QED
  BY <1>1, <1>2, <1>3 DEF Next, DSPNext, MLNext

(* A step either leaves lastRead alone or ends a copy, and a copy that    *)
(* ends returns the published window (its first half was read from        *)
(* mlBuffer, which holds it whole).                                        *)
LEMMA ReadIsPublished ==
  IInv /\ [Next]_vars => lastRead' = lastRead \/ lastRead'[1] = Published
<1> SUFFICES ASSUME IInv, [Next]_vars
             PROVE  lastRead' = lastRead \/ lastRead'[1] = Published
  OBVIOUS
<1>1. CASE CopyFromMLSecondHalf
  BY <1>1 DEF CopyFromMLSecondHalf, IInv, BufferContents
<1>2. CASE ~CopyFromMLSecondHalf
  BY <1>2 DEF Next, DSPNext, MLNext, CopyToDSPLock, CopyToDSPFirstHalf,
              CopyToDSPSecondHalf, SwapBuffers, WakeUpMLThread,
              WaitForDSPData, CopyFromMLLock, CopyFromMLFirstHalf, vars
<1>3. QED
  BY <1>1, <1>2

(* The ML task is never ahead of the DSP side.                             *)
LEMMA NextReadNotAhead ==
  MutexCreated /\ IInv /\ ReadNotAhead /\ [Next]_vars => ReadNotAhead'
<1> SUFFICES ASSUME MutexCreated, IInv, ReadNotAhead, [Next]_vars
             PROVE  ReadNotAhead'
  OBVIOUS
<1>1. Published' >= Published
  BY PublishedGrows
<1>2. lastRead' = lastRead \/ lastRead'[1] = Published
  BY ReadIsPublished
<1>3. IInv'
  BY NextIInv
<1>4. lastRead[1] \in Int /\ lastRead'[1] \in Int
      /\ Published \in Int /\ Published' \in Int
  BY <1>3 DEF IInv, TypeOK, Published
<1>5. QED
  BY <1>1, <1>2, <1>4 DEF ReadNotAhead

(* With the DSPML mutex created, the ML task never goes back in time: each *)
(* window its copy returns (copyFromMLBufferInto) is at least as new as   *)
(* the one it returned before, for every number of windows.  Each copy    *)
(* returns the window published when it ends, and publishing only moves   *)
(* forward; rereading the same window is allowed.                          *)
THEOREM ReadsMonotonicHolds == MutexCreated /\ Spec => ReadsMonotonic
<1> DEFINE J == MutexCreated /\ IInv /\ ReadNotAhead
<1>1. MutexCreated /\ Init => J
  BY InitIInv DEF Init, ReadNotAhead, Published, NoRead
<1>2. J /\ [Next]_vars => J'
  BY NextIInv, NextReadNotAhead
<1>3. J /\ [Next]_vars => [ReadCompletes => lastRead'[1] >= lastRead[1]]_vars
  <2> SUFFICES ASSUME J, [Next]_vars PROVE lastRead'[1] >= lastRead[1]
    OBVIOUS
  <2>1. lastRead' = lastRead \/ lastRead'[1] = Published
    BY ReadIsPublished
  <2>2. IInv'
    BY NextIInv
  <2>3. lastRead[1] \in Int /\ lastRead'[1] \in Int /\ Published \in Int
    BY <2>2 DEF IInv, TypeOK, Published
  <2>4. QED
    BY <2>1, <2>3 DEF ReadNotAhead
<1>4. QED
  BY <1>1, <1>2, <1>3, PTL DEF Spec, ReadsMonotonic
=============================================================================
