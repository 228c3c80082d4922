-------------------------- MODULE AudioSource_proofs --------------------------
(***************************************************************************)
(* Proofs about AudioSource in the AUDIO_VSI build: the reader never       *)
(* copies a torn block, for every ring size and number of blocks, as long  *)
(* as fewer than BlockCount - 1 interrupts can fire during one copy.       *)
(***************************************************************************)
EXTENDS AudioSource, TLAPS

(* The ring cannot wrap onto the block being copied: the block handed to  *)
(* the reader is one behind block_under_write, and each interrupt during  *)
(* the copy moves block_under_write one further on.                        *)
RingCannotWrap == MaxOverrun + 2 <= BlockCount

(* NoTornBlock is not inductive: it speaks only of finished copies.  AInv *)
(* adds where block_under_write is: one past current_block once a block   *)
(* has been completed, and overrun + 1 past the block being copied; that  *)
(* the first half copied is still what the block holds; and that a        *)
(* completed block holds a frame number, never the torn marker.  Before    *)
(* the first interrupt the reader waits and the semaphore is empty.        *)
AInv ==
  /\ TypeOK
  /\ overrun <= frames
  /\ \A b \in Blocks : written[b] <= MaxFrames
  /\ frames = 0 => blockUnderWrite = 0 /\ ~sem /\ rPc = "wait"
  /\ frames # 0 => (currentBlock + 1) % BlockCount = blockUnderWrite
  /\ rPc \in {"copy1", "copy2"} =>
       /\ overrun <= MaxOverrun
       /\ blockUnderWrite = (rBlock + 1 + overrun) % BlockCount
  /\ rPc = "copy2" => rHalf = written[rBlock]
  /\ NoTornBlock

-----------------------------------------------------------------------------
USE AudioSourceAssumption DEF Blocks, Torn

(* Moving on one block of the ring.                                        *)
LEMMA ModNext ==
  ASSUME NEW N \in Nat \ {0}, NEW x \in 0 .. N - 1
  PROVE  (x + 1) % N = IF x + 1 = N THEN 0 ELSE x + 1
OBVIOUS

(* A block k + 1 places further on, k + 1 < N, is another block; one more *)
(* step on is k + 2 places on.                                             *)
LEMMA ModOffset ==
  ASSUME NEW N \in Nat \ {0}, NEW r \in 0 .. N - 1, NEW k \in Nat, k + 2 <= N
  PROVE  /\ (r + 1 + k) % N # r
         /\ (r + 1 + k) % N \in 0 .. N - 1
         /\ (((r + 1 + k) % N) + 1) % N = (r + 1 + (k + 1)) % N
<1>1. CASE r + 1 + k < N
  <2>1. (r + 1 + k) % N = r + 1 + k
    BY <1>1
  <2>2. QED
    BY <1>1, <2>1
<1>2. CASE r + 1 + k >= N
  <2>1. (r + 1 + k) % N = r + 1 + k - N
    BY <1>2
  <2>2. (r + 1 + (k + 1)) % N = r + 2 + k - N
    BY <1>2
  <2>3. QED
    BY <1>2, <2>1, <2>2
<1>3. QED
  BY <1>1, <1>2

(* The initial state of the AUDIO_VSI build satisfies AInv: nothing is     *)
(* written and the reader waits.                                           *)
LEMMA InitAInv == Interrupt /\ Init => AInv
<1> SUFFICES ASSUME Interrupt, Init PROVE AInv
  OBVIOUS
<1>1. written = [b \in Blocks |-> 0] /\ rPc = "wait" /\ reads = <<>>
  BY DEF Init
<1>2. TypeOK
  <2>1. /\ written \in [Blocks -> 0 .. MaxFrames + BlockCount]
        /\ reads \in Seq(Blocks \X (0 .. Torn + BlockCount) \X (0 .. Torn + BlockCount))
        /\ 0 \in Blocks /\ 0 \in 0 .. MaxFrames /\ 0 \in 0 .. Torn + BlockCount
    BY <1>1
  <2>2. QED
    BY <1>1, <2>1, Zenon DEF Init, TypeOK
<1>3. QED
  BY <1>1, <1>2 DEF Init, AInv, NoTornBlock

(* The completion interrupt keeps AInv: it writes block_under_write, which *)
(* is not the block being copied, and moves it one block further on.       *)
LEMMA ReceivedAInv ==
  ASSUME Interrupt, RingCannotWrap, AInv, BlockReceived
  PROVE  AInv'
<1>1. /\ frames < MaxFrames /\ frames' = frames + 1 /\ overrun' = overrun + 1
      /\ written' = [written EXCEPT ![blockUnderWrite] = frames + 1]
      /\ currentBlock' = blockUnderWrite
      /\ blockUnderWrite' = (blockUnderWrite + 1) % BlockCount
      /\ sem' = TRUE /\ UNCHANGED <<rPc, rBlock, rHalf, reads>>
      /\ (rPc \in {"copy1", "copy2"} => overrun < MaxOverrun)
  BY DEF BlockReceived
<1>2. blockUnderWrite' \in Blocks /\ (currentBlock' + 1) % BlockCount = blockUnderWrite'
  BY <1>1, ModNext DEF AInv, TypeOK
<1>3. /\ written' \in [Blocks -> 0 .. MaxFrames + BlockCount]
      /\ \A b \in Blocks : written'[b] <= MaxFrames
  BY <1>1 DEF AInv, TypeOK
<1>4. TypeOK'
  BY <1>1, <1>2, <1>3 DEF AInv, TypeOK
<1>5. ASSUME rPc \in {"copy1", "copy2"}
      PROVE  /\ overrun' <= MaxOverrun
             /\ blockUnderWrite' = (rBlock' + 1 + overrun') % BlockCount
             /\ blockUnderWrite # rBlock
  <2>1. overrun \in Nat /\ overrun + 1 <= MaxOverrun /\ rBlock \in Blocks
        /\ blockUnderWrite = (rBlock + 1 + overrun) % BlockCount
    BY <1>1, <1>5 DEF AInv, TypeOK, RingCannotWrap
  <2>2. overrun + 2 <= BlockCount
    BY <2>1 DEF RingCannotWrap
  <2>3. /\ (rBlock + 1 + overrun) % BlockCount # rBlock
        /\ (((rBlock + 1 + overrun) % BlockCount) + 1) % BlockCount
             = (rBlock + 1 + (overrun + 1)) % BlockCount
    BY <2>1, <2>2, ModOffset
  <2>4. QED
    BY <1>1, <2>1, <2>3
<1>6. rPc = "copy2" => rHalf' = written'[rBlock']
  BY <1>1, <1>5 DEF AInv, TypeOK
<1>7. QED
  BY <1>1, <1>2, <1>4, <1>3, <1>5, <1>6 DEF AInv, NoTornBlock, TypeOK

(* The reader's steps keep AInv: it takes the semaphore only after an      *)
(* interrupt; getCurrentBuffer hands it current_block, one behind          *)
(* block_under_write; and both halves it copies are what that block held  *)
(* when it was handed over, a frame number.                                *)
LEMMA WaitAInv == Interrupt /\ AInv /\ WaitForNewBuffer => AInv'
<1> SUFFICES ASSUME Interrupt, AInv, WaitForNewBuffer PROVE AInv'
  OBVIOUS
<1>1. frames # 0
  BY DEF AInv, WaitForNewBuffer
<1>2. QED
  BY <1>1 DEF AInv, TypeOK, NoTornBlock, WaitForNewBuffer

LEMMA GetAInv == Interrupt /\ AInv /\ GetCurrentBuffer => AInv'
<1> SUFFICES ASSUME Interrupt, AInv, GetCurrentBuffer PROVE AInv'
  OBVIOUS
<1>1. rBlock' = currentBlock /\ overrun' = 0 /\ rPc' = "copy1"
      /\ UNCHANGED <<blockUnderWrite, currentBlock, sem, written, frames, rHalf, reads>>
  BY DEF GetCurrentBuffer
<1>2. frames # 0 /\ (currentBlock + 1) % BlockCount = blockUnderWrite
  BY DEF AInv, GetCurrentBuffer
<1>3. QED
  BY <1>1, <1>2 DEF AInv, TypeOK, NoTornBlock

LEMMA CopyAInv ==
  ASSUME Interrupt, RingCannotWrap, AInv, CopyFirstHalf \/ CopySecondHalf
  PROVE  AInv'
<1>1. /\ rBlock \in Blocks /\ overrun \in Nat /\ overrun + 2 <= BlockCount
      /\ blockUnderWrite = (rBlock + 1 + overrun) % BlockCount
      /\ frames # 0
  BY DEF AInv, TypeOK, RingCannotWrap, CopyFirstHalf, CopySecondHalf
<1>2. Content(rBlock) = written[rBlock] /\ written[rBlock] \in 0 .. MaxFrames
  <2>1. blockUnderWrite # rBlock
    BY <1>1, ModOffset
  <2>2. QED
    BY <2>1 DEF Content, AInv, TypeOK
<1>3. CASE CopyFirstHalf
  BY <1>2, <1>3 DEF CopyFirstHalf, AInv, TypeOK, NoTornBlock
<1>4. CASE CopySecondHalf
  <2>1. /\ reads' = Append(reads, <<rBlock, rHalf, written[rBlock]>>)
        /\ rPc' = "wait" /\ rHalf = written[rBlock]
        /\ UNCHANGED <<blockUnderWrite, currentBlock, sem, written, frames, rBlock, rHalf, overrun>>
    BY <1>2, <1>4 DEF CopySecondHalf, AInv
  <2>2. reads' \in Seq(Blocks \X (0 .. Torn + BlockCount) \X (0 .. Torn + BlockCount))
    BY <1>1, <1>2, <2>1 DEF AInv, TypeOK
  <2>3. NoTornBlock'
    <3> SUFFICES ASSUME NEW i \in 1 .. Len(reads')
                 PROVE  reads'[i][2] = reads'[i][3] /\ reads'[i][2] # Torn
      BY DEF NoTornBlock
    <3>1. reads \in Seq(Blocks \X (0 .. Torn + BlockCount) \X (0 .. Torn + BlockCount))
          /\ Len(reads') = Len(reads) + 1
      BY <2>1 DEF AInv, TypeOK
    <3>2. CASE i <= Len(reads)
      BY <2>1, <3>1, <3>2 DEF AInv, NoTornBlock
    <3>3. CASE i = Len(reads) + 1
      BY <1>2, <2>1, <3>1, <3>3
    <3>4. QED
      BY <3>1, <3>2, <3>3
  <2>4. QED
    BY <1>1, <2>1, <2>2, <2>3 DEF AInv, TypeOK
<1>5. QED
  BY <1>3, <1>4

(* Every step of the interrupt and of the reader, and a stutter, keeps    *)
(* AInv.                                                                   *)
LEMMA NextAInv ==
  ASSUME Interrupt, RingCannotWrap, AInv, [Next]_vars
  PROVE  AInv'
<1>1. CASE BlockReceived
  BY <1>1, ReceivedAInv
<1>2. CASE WaitForNewBuffer
  BY <1>2, WaitAInv
<1>3. CASE GetCurrentBuffer
  BY <1>3, GetAInv
<1>4. CASE CopyFirstHalf \/ CopySecondHalf
  BY <1>4, CopyAInv
<1>5. CASE UNCHANGED vars
  BY <1>5 DEF vars, AInv, TypeOK, NoTornBlock, Content
<1>6. QED
  BY <1>1, <1>2, <1>3, <1>4, <1>5 DEF Next, ReaderNext

(* Spec sections 1 and 4.2, in the AUDIO_VSI build, for every ring size   *)
(* and number of blocks: when fewer than BlockCount - 1 completion        *)
(* interrupts can fire while the DSP task copies one block, every block    *)
(* it copies is whole: both halves hold the same completed frame.  With   *)
(* BlockCount - 1 interrupts the ring wraps onto the block being copied,  *)
(* and nothing in dsp_interfaces.cpp detects it.                           *)
THEOREM NoTornBlockHolds == Interrupt /\ RingCannotWrap /\ Spec => []NoTornBlock
<1> DEFINE J == Interrupt /\ RingCannotWrap /\ AInv
<1>1. Interrupt /\ RingCannotWrap /\ Init => J
  BY InitAInv
<1>2. J /\ [Next]_vars => J'
  BY NextAInv
<1>3. J => NoTornBlock
  BY DEF AInv
<1>4. QED
  BY <1>1, <1>2, <1>3, PTL DEF Spec

(* The AUDIO_VSI build's ring state is always well typed.                  *)
THEOREM TypeCorrect == Interrupt /\ RingCannotWrap /\ Spec => []TypeOK
<1> DEFINE J == Interrupt /\ RingCannotWrap /\ AInv
<1>1. Interrupt /\ RingCannotWrap /\ Init => J
  BY InitAInv
<1>2. J /\ [Next]_vars => J'
  BY NextAInv
<1>3. J => TypeOK
  BY DEF AInv
<1>4. QED
  BY <1>1, <1>2, <1>3, PTL DEF Spec

=============================================================================
