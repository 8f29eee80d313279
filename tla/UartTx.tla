------------------------------- MODULE UartTx -------------------------------
(***************************************************************************)
(* The transmit side of the debug UART (src/firmware/src/debugUart.c): a   *)
(* ring TxBuff filled by tasks under uartMutex with the DMA interrupt      *)
(* masked, drained in chunks of txDmaBuff by the DMA and its interrupt     *)
(* handler DMA2_Stream7_IRQHandler.                                        *)
(*                                                                         *)
(* A byte is represented by the order in which sendUartBytes accepted it:  *)
(* the n-th accepted byte is the number n, 0 is a cell never written.      *)
(* What leaves the UART is correct when the n-th byte to leave is n;       *)
(* inOrder records whether that has always been so.                        *)
(*                                                                         *)
(* HeapWalk is umm_info (umm_malloc/umm_info.c), which polls UartTxSpace   *)
(* with the scheduler suspended.  SpecTasks leaves it out, Spec has it.    *)
(***************************************************************************)
EXTENDS Integers

CONSTANTS
  Senders,    \* tasks that print: cmdtasks and every caller of SysLog
  None,       \* no task holds uartMutex
  Size,       \* sizeof(TxBuff), 4096 in the code
  DmaSize,    \* sizeof(txDmaBuff), 64 in the code
  MinSpace,   \* the room umm_info waits for before each block, 512
  MaxLen,     \* the longest buffer given to sendUartBytes: PrintUart's, 2048
  MaxBytes,   \* bound: bytes requested in a behaviour
  MaxWalks    \* bound: heap walks in a behaviour

ASSUME ConstAssumption ==
  /\ None \notin Senders
  /\ Size \in Nat /\ Size > 1
  /\ DmaSize \in Nat \ {0} /\ DmaSize < Size
  /\ MinSpace \in Nat /\ MaxLen \in Nat
  /\ MaxLen + MinSpace < Size   \* 2048 + 512 < 4096
  /\ MaxBytes \in Nat /\ MaxWalks \in Nat

VARIABLES
  TxHead, TxTail, TxBuff, TxInProgress, txDmaBuff,
  uartMutex,   \* its holder
  pc,          \* where each sender is
  length,      \* the holder's length, in the end clipped to the room found
  left,        \* bytes the holder still has to store in TxBuff
  irqMasked,   \* NVIC_DisableIRQ(DMA2_Stream7_IRQn)
  dmaOn, dmaLen, dmaPos, tcFlag, \* DMA2 stream 7: enabled, length, progress, TC
  suspended,   \* vTaskSuspendAll of umm_info is in force
  walks,       \* heap walks begun
  opened,      \* has a walk enabled the interrupt under a pinned sender?
  requested, accepted,    \* bytes offered to / taken by sendUartBytes
  shifted, inOrder        \* bytes that left the UART while they were in order

ring   == <<TxHead, TxTail, TxBuff>>
dma    == <<txDmaBuff, dmaOn, dmaLen, dmaPos>>
call   == <<uartMutex, pc, length, left>>
walker == <<suspended, walks, opened>>
history == <<requested, accepted>>
wire   == <<shifted, inOrder>>
vars == <<ring, dma, tcFlag, TxInProgress, irqMasked, call, walker, history, wire>>

Minimum(a, b) == IF a < b THEN a ELSE b

Init ==
  /\ TxHead = 0 /\ TxTail = 0 /\ TxBuff = [i \in 0 .. Size - 1 |-> 0]
  /\ TxInProgress = FALSE
  /\ txDmaBuff = [i \in 0 .. DmaSize - 1 |-> 0]
  /\ uartMutex = None /\ pc = [s \in Senders |-> "idle"]
  /\ length = 0 /\ left = 0
  /\ irqMasked = TRUE   \* only sendUartBytes and UartTxSpace ever enable it
  /\ dmaOn = FALSE /\ dmaLen = 0 /\ dmaPos = 0 /\ tcFlag = FALSE
  /\ suspended = FALSE /\ walks = 0 /\ opened = FALSE
  /\ requested = 0 /\ accepted = 0 /\ shifted = 0 /\ inOrder = TRUE

-----------------------------------------------------------------------------
(* Mutant: a full ring is taken for an empty one.                          *)
RoomNoGap == Size - (TxHead - TxTail)

(* The room in the ring, as sendUartBytes and UartTxSpace compute it: for  *)
(* a head ahead of the tail, for one behind it, and in all.                *)
RoomAhead  == Size - (TxHead - TxTail) - 1
RoomBehind == Size - ((Size - TxTail) + TxHead) - 1
Space ==
  IF TxHead = TxTail THEN Size - 1
  ELSE IF TxHead > TxTail THEN RoomAhead ELSE RoomBehind

(* How many bytes the copy loops move from TxBuff to txDmaBuff: they stop  *)
(* at the head or when txDmaBuff is full.  TxTail wraps at Size, so a head *)
(* that is Size for a moment (between lines 101 and 103) is never met.     *)
Queued ==
  IF TxHead = Size THEN DmaSize
  ELSE IF TxHead >= TxTail THEN TxHead - TxTail ELSE Size - TxTail + TxHead
LoadCount == Minimum(DmaSize, Queued)

(* The ring index i places after the tail.                                 *)
Slot(i) == IF TxTail + i < Size THEN TxTail + i ELSE TxTail + i - Size

(* The copy loop into txDmaBuff, common to the sender and the handler.     *)
LoadDma ==
  /\ txDmaBuff' = [i \in 0 .. DmaSize - 1 |->
                     IF i < LoadCount THEN TxBuff[Slot(i)] ELSE txDmaBuff[i]]
  /\ TxTail' = Slot(LoadCount)
  /\ UNCHANGED <<TxHead, TxBuff>>

(* Mutants: the interrupt stays enabled; the length of the call, not cut   *)
(* to the DMA buffer; the head wraps one place late; an empty ring leaves  *)
(* the driver busy; or makes it idle without looking at the ring.          *)
NoMask == irqMasked' = irqMasked
KickWholeCall == length
WrapLate == IF TxHead > Size THEN TxHead - Size ELSE TxHead
StayBusy == UNCHANGED TxInProgress

(* NVIC_DisableIRQ and NVIC_EnableIRQ of DMA2_Stream7_IRQn                 *)
MaskIrq == irqMasked' = TRUE
UnmaskIrq == irqMasked' = FALSE

StartDma(n) == dmaOn' = TRUE /\ dmaLen' = n /\ dmaPos' = 0

-----------------------------------------------------------------------------
(* sendUartBytes, in the steps at which another task can preempt it.       *)

(* Take the mutex, mask the handler.                                       *)
SendBegin(s, n) ==
  /\ ~suspended /\ pc[s] = "idle" /\ uartMutex = None
  /\ n \in 1 .. MaxLen /\ requested + n <= MaxBytes
  /\ uartMutex' = s /\ MaskIrq
  /\ length' = n
  /\ pc' = [pc EXCEPT ![s] = "empty"]
  /\ requested' = requested + n
  /\ UNCHANGED <<ring, dma, tcFlag, TxInProgress, left, accepted, walker, wire>>

(* if (length > a) length = a: an unsigned comparison, for which a room    *)
(* below zero is a huge one.                                               *)
Clip(s, room) ==
  LET n == IF room < 0 THEN length ELSE Minimum(length, room)
  IN  /\ length' = n /\ left' = n
      /\ accepted' = accepted + n
      /\ pc' = [pc EXCEPT ![s] = "store"]

(* The room is found in up to three reads of the tail, which stands still  *)
(* between them as long as the handler is masked.                          *)
SendEmpty(s) ==
  /\ ~suspended /\ pc[s] = "empty"
  /\ IF TxHead = TxTail THEN Clip(s, Size - 1)
     ELSE pc' = [pc EXCEPT ![s] = "order"] /\ UNCHANGED <<length, left, accepted>>
  /\ UNCHANGED <<ring, dma, tcFlag, TxInProgress, irqMasked, uartMutex,
                 walker, requested, wire>>

SendOrder(s) ==
  /\ ~suspended /\ pc[s] = "order"
  /\ pc' = [pc EXCEPT ![s] = IF TxHead > TxTail THEN "ahead" ELSE "behind"]
  /\ UNCHANGED <<ring, dma, tcFlag, TxInProgress, irqMasked, uartMutex,
                 length, left, walker, history, wire>>

SendClip(s) ==
  /\ ~suspended
  /\ \/ pc[s] = "ahead"  /\ Clip(s, RoomAhead)
     \/ pc[s] = "behind" /\ Clip(s, RoomBehind)
  /\ UNCHANGED <<ring, dma, tcFlag, TxInProgress, irqMasked, uartMutex,
                 walker, requested, wire>>

(* TxBuff[TxHead++] = buff[a]                                              *)
SendStore(s) ==
  /\ ~suspended /\ pc[s] = "store" /\ left > 0
  /\ TxBuff' = [TxBuff EXCEPT ![TxHead] = accepted - left + 1]
  /\ TxHead' = TxHead + 1
  /\ left' = left - 1
  /\ pc' = [pc EXCEPT ![s] = "wrap"]
  /\ UNCHANGED <<TxTail, dma, tcFlag, TxInProgress, irqMasked, uartMutex,
                 length, walker, history, wire>>

(* if (TxHead > sizeof(TxBuff) - 1) TxHead -= sizeof(TxBuff)               *)
WrapHead == IF TxHead > Size - 1 THEN TxHead - Size ELSE TxHead

SendWrap(s) ==
  /\ ~suspended /\ pc[s] = "wrap"
  /\ TxHead' = WrapHead
  /\ pc' = [pc EXCEPT ![s] = "store"]
  /\ UNCHANGED <<TxTail, TxBuff, dma, tcFlag, TxInProgress, irqMasked,
                 uartMutex, length, left, walker, history, wire>>

(* The length programmed is that of this call, not the number of bytes     *)
(* copied: right only as long as the ring was empty when the call began.   *)
KickLength == Minimum(length, DmaSize)

(* Everything is stored: start the DMA unless a transfer is under way.     *)
SendKick(s) ==
  /\ ~suspended /\ pc[s] = "store" /\ left = 0
  /\ pc' = [pc EXCEPT ![s] = "unmask"]
  /\ IF TxInProgress
       THEN UNCHANGED <<ring, dma, TxInProgress>>
       ELSE /\ TxInProgress' = TRUE
            /\ LoadDma
            /\ StartDma(KickLength)
  /\ UNCHANGED <<tcFlag, irqMasked, uartMutex, length, left, walker, history,
                 wire>>

(* NVIC_EnableIRQ, then xSemaphoreGive                                     *)
SendEnd(s) ==
  /\ ~suspended /\ pc[s] = "unmask"
  /\ UnmaskIrq /\ uartMutex' = None
  /\ pc' = [pc EXCEPT ![s] = "idle"]
  /\ UNCHANGED <<ring, dma, tcFlag, TxInProgress, length, left, walker,
                 history, wire>>

(* UartTxSpace called by a running task: the same mutex and the same mask. *)
SpaceBegin(s) ==
  /\ ~suspended /\ pc[s] = "idle" /\ uartMutex = None
  /\ uartMutex' = s /\ MaskIrq
  /\ pc' = [pc EXCEPT ![s] = "unmask"]
  /\ UNCHANGED <<ring, dma, tcFlag, TxInProgress, length, left, walker,
                 history, wire>>

-----------------------------------------------------------------------------
(* The DMA stream moves one byte to the UART; after the last it disables   *)
(* itself and raises transfer complete.                                    *)
DmaByte ==
  /\ dmaOn /\ dmaPos < dmaLen
  /\ inOrder' = (inOrder /\ txDmaBuff[dmaPos] = shifted + 1)
  /\ shifted' = IF inOrder' THEN shifted + 1 ELSE shifted
  /\ dmaPos' = dmaPos + 1
  /\ dmaOn' = (dmaPos + 1 < dmaLen) /\ tcFlag' = (dmaPos + 1 = dmaLen)
  /\ UNCHANGED <<ring, txDmaBuff, dmaLen, TxInProgress, irqMasked, call,
                 walker, history>>

(* Is there more queued?  If not, the next call has to start the DMA.      *)
RingEmpty == TxTail = TxHead
GoIdle == TxInProgress' = FALSE

(* DMA2_Stream7_IRQHandler: no task can interrupt it.                      *)
DmaIsr ==
  /\ tcFlag /\ ~irqMasked
  /\ tcFlag' = FALSE
  /\ IF RingEmpty
       THEN /\ GoIdle
            /\ UNCHANGED <<ring, dma>>
       ELSE /\ LoadDma
            /\ StartDma(LoadCount)
            /\ UNCHANGED TxInProgress
  /\ UNCHANGED <<irqMasked, call, walker, history, wire>>

-----------------------------------------------------------------------------
(* umm_info run by another console task: it may preempt a sender anywhere. *)
WalkBegin ==
  /\ ~suspended /\ walks < MaxWalks
  /\ suspended' = TRUE /\ walks' = walks + 1
  /\ UNCHANGED <<ring, dma, tcFlag, TxInProgress, irqMasked, call, opened,
                 history, wire>>

(* A sender has masked the handler and not yet started the DMA.            *)
Pinned == \E s \in Senders : pc[s] \notin {"idle", "unmask"}

PollUnmask == UnmaskIrq

(* while (UartTxSpace() < 512): the scheduler is suspended, so the mutex   *)
(* is not taken, but the interrupt is masked and then enabled.  The room   *)
(* is a uint32_t: one below zero reads as a huge one and ends the loop.    *)
WalkPoll ==
  /\ suspended /\ Space \in 0 .. MinSpace - 1 /\ irqMasked
  /\ PollUnmask /\ opened' = (opened \/ Pinned)
  /\ UNCHANGED <<ring, dma, tcFlag, TxInProgress, call, suspended, walks,
                 history, wire>>

(* The poll that finds the room: the walk of the heap ends.                *)
WalkEnd ==
  /\ suspended /\ Space \notin 0 .. MinSpace - 1
  /\ UnmaskIrq /\ opened' = (opened \/ Pinned)
  /\ suspended' = FALSE
  /\ UNCHANGED <<ring, dma, tcFlag, TxInProgress, call, walks, history, wire>>

-----------------------------------------------------------------------------
SendRoom(s) == SendEmpty(s) \/ SendOrder(s) \/ SendClip(s)
SendStep(s) ==
  SendRoom(s) \/ SendStore(s) \/ SendWrap(s) \/ SendKick(s) \/ SendEnd(s)
Send(s) ==
  \/ \E n \in 1 .. MaxLen : SendBegin(s, n)
  \/ SpaceBegin(s)
  \/ SendStep(s)
HeapWalk == WalkBegin \/ WalkPoll \/ WalkEnd
Hardware == DmaByte \/ DmaIsr

NextTasks == (\E s \in Senders : Send(s)) \/ Hardware
Next == NextTasks \/ HeapWalk

(* A task inside a call is eventually scheduled again, also when umm_info  *)
(* suspends the scheduler now and then, and the UART keeps shifting.  The  *)
(* handler preempts every task: it cannot stay pending while tasks mask    *)
(* and enable it again and again.                                          *)
Fairness ==
  /\ \A s \in Senders : SF_vars(SendStep(s))
  /\ WF_vars(DmaByte) /\ SF_vars(DmaIsr)

(* umm_info polls many times while the DMA sends one buffer, so it does    *)
(* not for ever miss the room that opens again and again.                  *)
WalkFairness == WF_vars(WalkPoll) /\ SF_vars(WalkEnd)

SpecTasks == Init /\ [][NextTasks]_vars /\ Fairness
Spec == Init /\ [][Next]_vars /\ Fairness /\ WalkFairness
-----------------------------------------------------------------------------
(* Bytes the DMA has still to move, and bytes in the ring: the head counts *)
(* as 0 while it is Size, where SendWrap is about to put it.               *)
InDma == IF dmaOn THEN dmaLen - dmaPos ELSE 0
Head == IF TxHead = Size THEN 0 ELSE TxHead
InRing == IF Head >= TxTail THEN Head - TxTail ELSE Size - TxTail + Head

Filling == \E s \in Senders : pc[s] \in {"store", "wrap"}

(* The type of every variable.  TxHead may be Size, TxTail may not: the    *)
(* copy loops wrap it before anything else reads it.                       *)
FlagTypes ==
  /\ TxInProgress \in BOOLEAN /\ irqMasked \in BOOLEAN
  /\ dmaOn \in BOOLEAN /\ tcFlag \in BOOLEAN
  /\ suspended \in BOOLEAN /\ opened \in BOOLEAN /\ inOrder \in BOOLEAN
DataTypes ==
  /\ TxHead \in 0 .. Size /\ TxTail \in 0 .. Size - 1
  /\ TxBuff \in [0 .. Size - 1 -> Nat]
  /\ txDmaBuff \in [0 .. DmaSize - 1 -> Nat]
  /\ dmaLen \in 0 .. DmaSize /\ dmaPos \in 0 .. dmaLen
  /\ uartMutex \in Senders \cup {None}
  /\ pc \in [Senders -> {"idle", "empty", "order", "ahead", "behind", "store",
                     "wrap", "unmask"}]
  /\ length \in Nat /\ left \in 0 .. length
  /\ walks \in Nat /\ requested \in Nat
  /\ accepted \in Nat /\ shifted \in Nat
TypeOK == FlagTypes /\ DataTypes

(* Bytes leave the UART once each, in the order they were accepted.        *)
FifoOrder == inOrder

(* Every accepted byte is in exactly one place: sent, in the DMA buffer,   *)
(* in the ring, or still to be stored by the call under way.               *)
NothingLost == accepted = shifted + InDma + InRing + left

(* TxInProgress is cleared only when there is nothing to send: nobody else *)
(* would restart the DMA.                                                  *)
IdleIsDrained ==
  ~TxInProgress /\ ~Filling => TxHead = TxTail /\ ~dmaOn /\ shifted = accepted

(* The three together: what sendUartBytes accepts leaves the UART once and *)
(* in order, wherever the handler and other tasks interrupt it, and the    *)
(* DMA never stops with bytes in the ring (lines 106-137 against 193-194). *)
FifoSound == FifoOrder /\ NothingLost /\ IdleIsDrained

(* The inductive invariant behind these three, for SpecTasks.              *)
(* Nobody but the holder of the mutex is inside a call, the handler cannot *)
(* run meanwhile, and the head is Size only until SendWrap.                *)
Locking ==
  /\ \A s \in Senders : pc[s] # "idle" <=> uartMutex = s
  /\ Pinned => irqMasked
  /\ ~Filling => left = 0
  /\ TxHead = Size => \E s \in Senders : pc[s] = "wrap"

(* What a call under way has found about head and tail is still so.        *)
Measured ==
  \A s \in Senders :
    /\ pc[s] \in {"empty", "order", "ahead", "behind"} => length > 0
    /\ pc[s] = "order"  => TxHead # TxTail
    /\ pc[s] = "ahead"  => TxHead > TxTail
    /\ pc[s] = "behind" => TxHead < TxTail

(* The ring holds the bytes that follow those in the DMA buffer, in order, *)
(* the DMA buffer those that follow what has left, and both always fit.    *)
RingContents ==
  /\ InRing + left <= Size - 1
  /\ \A i \in 0 .. InRing - 1 : TxBuff[Slot(i)] = shifted + InDma + i + 1
DmaContents ==
  dmaOn => \A j \in dmaPos .. dmaLen - 1 : txDmaBuff[j] = shifted + j - dmaPos + 1

(* TxInProgress is set exactly while a transfer or its interrupt is        *)
(* pending; a call that finds it clear began with an empty ring.           *)
Busy ==
  /\ TxInProgress <=> (dmaOn \/ tcFlag)
  /\ dmaOn => dmaPos < dmaLen /\ ~tcFlag
  /\ ~TxInProgress => InRing + left = IF Filling THEN length ELSE 0
  /\ ~TxInProgress /\ Filling => length > 0

IInv == TypeOK /\ Locking /\ Measured /\ NothingLost /\ RingContents /\ DmaContents
        /\ Busy /\ FifoOrder

(* Walks of the heap leave the FIFO sound, whatever they mask and enable,  *)
(* as long as none enables the interrupt under a sender that has pinned    *)
(* head and tail "so it doesn't move on us" (debugUart.c:85; line 68 does).*)
WalksKeepFifo == ~opened => FifoSound


(* The driver is a FIFO channel that loses nothing it accepted, holds at   *)
(* most the ring and one DMA buffer, and keeps delivering.                 *)
Channel == INSTANCE UartChannel WITH
             Capacity <- Size - 1 + DmaSize, delivered <- shifted
ChannelSpec == Channel!Spec
=============================================================================
