----------------------------- MODULE AudioSource -----------------------------
(***************************************************************************)
(* DspAudioSource (dsp/src/dsp_interfaces.cpp): a ring of BlockCount audio *)
(* blocks read by the DSP task's scheduler.                                *)
(*                                                                         *)
(* AUDIO_VSI build (Interrupt = TRUE): the SAI driver fills the block      *)
(* block_under_write; its completion interrupt runs                        *)
(* new_audio_block_received, which makes it current_block, moves           *)
(* block_under_write on and gives a binary semaphore; the reader waits on *)
(* the semaphore (waitForNewBuffer), then getCurrentBuffer returns the     *)
(* current block.                                                          *)
(* Polling build (Interrupt = FALSE): the blocks are a static clip, and    *)
(* each getCurrentBuffer call moves current_block on before returning it.  *)
(*                                                                         *)
(* A block's content is the number of the frame written into it (0: never *)
(* written); the block the driver is filling reads as Torn.  A copy of a  *)
(* block is two steps, one per half.                                       *)
(***************************************************************************)
EXTENDS Naturals, Sequences

CONSTANTS
  BlockCount,   \* block_count
  MaxFrames,    \* blocks the driver completes (or the reader reads) in a run
  MaxOverrun,   \* interrupts that can fire while the reader copies one block
  Interrupt     \* AUDIO_VSI is defined

ASSUME AudioSourceAssumption ==
  /\ BlockCount \in Nat \ {0}
  /\ MaxFrames \in Nat \ {0}
  /\ MaxOverrun \in Nat
  /\ Interrupt \in BOOLEAN

Blocks == 0 .. BlockCount - 1
Torn == MaxFrames + 1

VARIABLES
  blockUnderWrite,  \* block_under_write
  currentBlock,     \* current_block
  sem,              \* the binary semaphore: given or not
  written,          \* written[b]: frame last completed in block b
  frames,           \* blocks completed by the driver
  rPc,              \* where the reader is
  rBlock,           \* block getCurrentBuffer returned to the reader
  rHalf,            \* first half the reader copied
  overrun,          \* interrupts since getCurrentBuffer returned the block
  reads             \* history: the blocks the reader has copied, as
                    \*   <<block, first half, second half>>

vars == <<blockUnderWrite, currentBlock, sem, written, frames, rPc, rBlock,
          rHalf, overrun, reads>>

(* The constructor stores block_count and the buffer; current_block and    *)
(* block_under_write start at 0 and the binary semaphore empty.  The clip  *)
(* of the polling build: block b holds frame b + 1.                        *)
Init ==
  /\ blockUnderWrite = 0
  /\ currentBlock = 0
  /\ sem = FALSE
  /\ written = [b \in Blocks |-> IF Interrupt THEN 0 ELSE b + 1]
  /\ frames = 0
  /\ rPc = IF Interrupt THEN "wait" ELSE "get"
  /\ rBlock = 0
  /\ rHalf = 0
  /\ overrun = 0
  /\ reads = <<>>

(* What half of block b reads as now.                                      *)
Content(b) == IF Interrupt /\ b = blockUnderWrite THEN Torn ELSE written[b]

-----------------------------------------------------------------------------
(* The SAI receive-complete interrupt: ARM_SAI_SignalEvent calls           *)
(* new_audio_block_received, which takes block_under_write as the current *)
(* block, moves block_under_write on modulo block_count and gives the     *)
(* semaphore (a second give while it is given is lost).                    *)
(* Mutant: the interrupt does not give the semaphore.                      *)
BlockReceivedNoGive ==
  /\ Interrupt
  /\ frames < MaxFrames
  /\ rPc \in {"copy1", "copy2"} => overrun < MaxOverrun
  /\ overrun' = overrun + 1
  /\ frames' = frames + 1
  /\ written' = [written EXCEPT ![blockUnderWrite] = frames + 1]
  /\ currentBlock' = blockUnderWrite
  /\ blockUnderWrite' = (blockUnderWrite + 1) % BlockCount
  /\ UNCHANGED <<sem, rPc, rBlock, rHalf, reads>>

(* Mutant: block_under_write is moved on without the modulo.              *)
BlockReceivedNoWrap ==
  /\ Interrupt
  /\ frames < MaxFrames
  /\ rPc \in {"copy1", "copy2"} => overrun < MaxOverrun
  /\ overrun' = overrun + 1
  /\ frames' = frames + 1
  /\ written' = [written EXCEPT ![blockUnderWrite] = frames + 1]
  /\ currentBlock' = blockUnderWrite
  /\ blockUnderWrite' = blockUnderWrite + 1
  /\ sem' = TRUE
  /\ UNCHANGED <<rPc, rBlock, rHalf, reads>>

BlockReceived ==
  /\ Interrupt
  /\ frames < MaxFrames
  /\ rPc \in {"copy1", "copy2"} => overrun < MaxOverrun
  /\ overrun' = overrun + 1
  /\ frames' = frames + 1
  /\ written' = [written EXCEPT ![blockUnderWrite] = frames + 1]
  /\ currentBlock' = blockUnderWrite
  /\ blockUnderWrite' = (blockUnderWrite + 1) % BlockCount
  /\ sem' = TRUE
  /\ UNCHANGED <<rPc, rBlock, rHalf, reads>>

(* waitForNewBuffer: xSemaphoreTake(portMAX_DELAY).                        *)
WaitForNewBuffer ==
  /\ rPc = "wait"
  /\ sem
  /\ sem' = FALSE
  /\ rPc' = "get"
  /\ UNCHANGED <<blockUnderWrite, currentBlock, written, frames, rBlock,
                 rHalf, overrun, reads>>

(* getCurrentBuffer: in the polling build current_block is first moved on *)
(* modulo block_count; the block at current_block is returned.             *)
(* Mutant: the interrupt build returns block_under_write.                  *)
GetCurrentBufferUnderWrite ==
  /\ rPc = "get"
  /\ ~Interrupt => Len(reads) < MaxFrames
  /\ IF Interrupt
       THEN /\ rBlock' = blockUnderWrite
            /\ UNCHANGED currentBlock
       ELSE /\ currentBlock' = (currentBlock + 1) % BlockCount
            /\ rBlock' = (currentBlock + 1) % BlockCount
  /\ rPc' = "copy1"
  /\ overrun' = 0
  /\ UNCHANGED <<blockUnderWrite, sem, written, frames, rHalf, reads>>

GetCurrentBuffer ==
  /\ rPc = "get"
  /\ ~Interrupt => Len(reads) < MaxFrames
  /\ IF Interrupt
       THEN /\ rBlock' = currentBlock
            /\ UNCHANGED currentBlock
       ELSE /\ currentBlock' = (currentBlock + 1) % BlockCount
            /\ rBlock' = (currentBlock + 1) % BlockCount
  /\ rPc' = "copy1"
  /\ overrun' = 0
  /\ UNCHANGED <<blockUnderWrite, sem, written, frames, rHalf, reads>>

(* The scheduler's source node copies the block out, half by half.         *)
CopyFirstHalf ==
  /\ rPc = "copy1"
  /\ rHalf' = Content(rBlock)
  /\ rPc' = "copy2"
  /\ UNCHANGED <<blockUnderWrite, currentBlock, sem, written, frames, rBlock,
                 overrun, reads>>

CopySecondHalf ==
  /\ rPc = "copy2"
  /\ reads' = Append(reads, <<rBlock, rHalf, Content(rBlock)>>)
  /\ rPc' = IF Interrupt THEN "wait" ELSE "get"
  /\ UNCHANGED <<blockUnderWrite, currentBlock, sem, written, frames, rBlock,
                 rHalf, overrun>>

-----------------------------------------------------------------------------
ReaderNext ==
  WaitForNewBuffer \/ GetCurrentBuffer \/ CopyFirstHalf \/ CopySecondHalf

Next == BlockReceived \/ ReaderNext

(* The DSP task runs when it is ready.  The hardware is not obliged to    *)
(* deliver any further block.  Real time enters only through MaxOverrun:  *)
(* a copy of one block takes less than MaxOverrun block periods.           *)
Fairness == WF_vars(ReaderNext)

Spec == Init /\ [][Next]_vars /\ Fairness

-----------------------------------------------------------------------------
TypeOK ==
  /\ blockUnderWrite \in Blocks
  /\ currentBlock \in Blocks
  /\ sem \in BOOLEAN
  /\ written \in [Blocks -> 0 .. MaxFrames + BlockCount]
  /\ frames \in 0 .. MaxFrames
  /\ rPc \in {"wait", "get", "copy1", "copy2"}
  /\ rBlock \in Blocks
  /\ rHalf \in 0 .. Torn + BlockCount
  /\ overrun \in 0 .. MaxFrames
  /\ reads \in Seq(Blocks \X (0 .. Torn + BlockCount) \X (0 .. Torn + BlockCount))

(* The reader is not left behind: once a block has been completed, the     *)
(* reader eventually copies that block or a later one.                      *)
LatestBlockEventuallyRead ==
  \A f \in 1 .. MaxFrames :
    (frames = f) ~> (\E i \in 1 .. Len(reads) : reads[i][3] \in f .. MaxFrames)

(* Spec section 8, polling mode: block_count = 4, the reader is fed blocks *)
(* 0, 1, 2, 3, 0, 1 in that order: the k-th copy is of block (k-1) mod     *)
(* block_count.                                                            *)
ReadsFromBlockZero ==
  \A i \in 1 .. Len(reads) : reads[i][1] = (i - 1) % BlockCount

(* Spec sections 1 and 4.2: no torn reads.  Every block the reader copies *)
(* is whole: both halves hold the same completed frame, never one the     *)
(* driver is filling.  The reader is handed current_block, one behind      *)
(* block_under_write, so this holds while the ring cannot wrap during one *)
(* copy; nothing in the code detects the case where it does.               *)
NoTornBlock ==
  \A i \in 1 .. Len(reads) : reads[i][2] = reads[i][3] /\ reads[i][2] # Torn

=============================================================================
