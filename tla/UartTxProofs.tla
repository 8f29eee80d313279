---------------------------- MODULE UartTxProofs ----------------------------
(***************************************************************************)
(* Proofs about UartTx for every ring size, DMA buffer size and set of     *)
(* senders: SpecTasks, the driver without umm_info's walk, loses, repeats  *)
(* and reorders nothing, and Spec neither until a walk enables the         *)
(* interrupt under a sender that has it masked.                            *)
(***************************************************************************)
EXTENDS UartTx, TLAPS

USE ConstAssumption DEF ConstAssumption

LEMMA InitIInv == Init => IInv
<1> SUFFICES ASSUME Init PROVE IInv
  OBVIOUS
<1>1. TypeOK
  <2>1. FlagTypes
    BY DEF Init, FlagTypes
  <2>2. DataTypes
    BY DEF Init, DataTypes
  <2> QED BY <2>1, <2>2 DEF TypeOK
<1>2. ~Filling /\ ~Pinned /\ InRing = 0 /\ InDma = 0
  BY DEF Init, Filling, Pinned, InRing, Head, InDma
<1>3. Locking /\ NothingLost /\ RingContents /\ DmaContents
  BY <1>2 DEF Init, Locking, NothingLost, RingContents, DmaContents
<1>4. Busy /\ FifoOrder /\ Measured
  BY <1>2 DEF Init, Busy, FifoOrder, Measured
<1> QED BY <1>1, <1>3, <1>4 DEF IInv

(* Only the holder of the mutex is inside a call.                          *)
LEMMA OneHolder ==
  ASSUME Locking, NEW s \in Senders, pc[s] # "idle"
  PROVE  uartMutex = s /\ \A t \in Senders : pc[t] # "idle" => t = s
BY DEF Locking

-----------------------------------------------------------------------------
LEMMA SendBeginIInv ==
  ASSUME IInv, NEW s \in Senders, NEW n \in 1 .. MaxLen, SendBegin(s, n)
  PROVE  IInv'
<1> USE DEF IInv, TypeOK
<1>1. \A t \in Senders : pc[t] = "idle"
  BY DEF SendBegin, Locking
<1>2. /\ pc' = [pc EXCEPT ![s] = "empty"] /\ uartMutex' = s
      /\ \A t \in Senders : pc'[t] = IF t = s THEN "empty" ELSE "idle"
  BY <1>1 DEF SendBegin, DataTypes
<1>3. ~Filling /\ ~Filling' /\ left = 0 /\ TxHead # Size
  BY <1>1, <1>2 DEF Filling, Locking
<1>4. /\ UNCHANGED <<ring, dma, tcFlag, TxInProgress, left, accepted, walker, wire>>
      /\ irqMasked' = TRUE /\ length' = n /\ n > 0
  BY DEF SendBegin, MaskIrq
<1>5. InRing' = InRing /\ InDma' = InDma /\ \A i \in Nat : Slot(i)' = Slot(i)
  BY <1>4 DEF InRing, Head, InDma, Slot, ring, dma
<1>6. FlagTypes'
  BY <1>4 DEF FlagTypes, dma, walker, wire
<1>7. DataTypes'
  BY <1>2, <1>3, <1>4 DEF SendBegin, DataTypes, ring, dma, walker, wire
<1>8. Locking'
  BY <1>2, <1>3, <1>4 DEF Locking, ring
<1>9. Measured'
  BY <1>2, <1>4 DEF Measured
<1>10. NothingLost' /\ RingContents'
  BY <1>4, <1>5 DEF NothingLost, RingContents, ring, wire
<1>11. DmaContents' /\ FifoOrder'
  BY <1>4 DEF DmaContents, FifoOrder, dma, wire
<1>12. Busy'
  BY <1>3, <1>4, <1>5 DEF Busy, dma
<1> QED BY <1>6, <1>7, <1>8, <1>9, <1>10, <1>11, <1>12

LEMMA FillsRoom ==
  ASSUME NEW q \in Nat, NEW m \in Nat, m <= Size - 1 - q
  PROVE  q + m <= Size - 1
OBVIOUS

(* The call takes what fits into the room it has found: the handler stands *)
(* still, so the room is still there.                                      *)
LEMMA ClipIInv ==
  ASSUME IInv, NEW s \in Senders, pc[s] \in {"empty", "ahead", "behind"},
         NEW room, room = Size - 1 - InRing, Clip(s, room),
         UNCHANGED <<ring, dma, tcFlag, TxInProgress, irqMasked, uartMutex,
                     walker, requested, wire>>
  PROVE  IInv'
<1> USE DEF IInv, TypeOK
<1>1. \A t \in Senders \ {s} : pc[t] = "idle"
  BY OneHolder
<1>2. /\ pc' = [pc EXCEPT ![s] = "store"]
      /\ \A t \in Senders : pc'[t] = IF t = s THEN "store" ELSE "idle"
  BY <1>1 DEF Clip, DataTypes
<1>3. ~Filling /\ Filling' /\ left = 0 /\ TxHead # Size
  BY <1>1, <1>2 DEF Filling, Locking
<1>4. /\ InRing \in 0 .. Size - 1 /\ room \in 0 .. Size - 1
      /\ length \in Nat /\ length > 0
  BY <1>3 DEF InRing, Head, DataTypes, Measured
<1>5. /\ left' = Minimum(length, room) /\ length' = left'
      /\ accepted' = accepted + left'
  BY <1>4 DEF Clip
<1>6. left' \in 0 .. Size - 1 - InRing /\ (room > 0 => left' > 0)
  BY <1>4, <1>5 DEF Minimum
<1>7. InRing' = InRing /\ InDma' = InDma /\ \A i \in Nat : Slot(i)' = Slot(i)
  BY DEF InRing, Head, InDma, Slot, ring, dma
<1>8. FlagTypes'
  BY DEF FlagTypes, dma, walker, wire
<1>9. DataTypes'
  BY <1>2, <1>5, <1>6 DEF DataTypes, ring, dma, walker, wire
<1>10. Locking'
  <2>1. irqMasked
    BY DEF Locking, Pinned
  <2> QED BY <2>1, <1>1, <1>2, <1>3 DEF Locking, ring
<1>11. Measured'
  BY <1>2 DEF Measured
<1>12. NothingLost'
  <2>1. shifted' = shifted /\ InDma \in Int /\ shifted \in Int
    BY DEF InDma, DataTypes, wire
  <2> QED BY <1>3, <1>4, <1>5, <1>6, <1>7, <2>1 DEF NothingLost, DataTypes
<1>13. RingContents'
  <2>1. InRing' + left' <= Size - 1
    <3>1. PICK q \in Nat, m \in Nat :
            q = InRing /\ m = left' /\ m <= Size - 1 - q
      BY <1>4, <1>6
    <3>2. q + m <= Size - 1
      BY <3>1, FillsRoom
    <3> QED BY <1>7, <3>1, <3>2
  <2>2. InRing' = InRing /\ InDma' = InDma /\ shifted' = shifted /\ TxBuff' = TxBuff
    BY <1>7 DEF ring, wire
  <2>3. ASSUME NEW i \in 0 .. InRing - 1
        PROVE  TxBuff[Slot(i)] = shifted + InDma + i + 1 /\ Slot(i)' = Slot(i)
    BY <1>4, <1>7 DEF RingContents
  <2> QED BY <2>1, <2>2, <2>3 DEF RingContents
<1>14. DmaContents' /\ FifoOrder'
  BY DEF DmaContents, FifoOrder, dma, wire
<1>15. Busy'
  <2>1. ~TxInProgress => InRing = 0
    BY <1>3, <1>4 DEF Busy
  <2>2. UNCHANGED <<TxInProgress, dmaOn, tcFlag, dmaPos, dmaLen>>
    BY DEF dma
  <2>3. ~TxInProgress => length' > 0
    BY <1>4, <1>5, <1>6, <2>1
  <2> QED BY <1>3, <1>5, <1>6, <1>7, <2>1, <2>2, <2>3 DEF Busy
<1> QED BY <1>8, <1>9, <1>10, <1>11, <1>12, <1>13, <1>14, <1>15

LEMMA SendRoomIInv ==
  ASSUME IInv, NEW s \in Senders, SendRoom(s)
  PROVE  IInv'
<1> USE DEF IInv, TypeOK
<1>1. \A t \in Senders \ {s} : pc[t] = "idle"
  BY OneHolder DEF SendRoom, SendEmpty, SendOrder, SendClip
<1>2. pc[s] \in {"empty", "order", "ahead", "behind"}
  BY DEF SendRoom, SendEmpty, SendOrder, SendClip
<1>3. TxHead \in 0 .. Size - 1 /\ TxTail \in 0 .. Size - 1 /\ length > 0
  BY <1>1, <1>2 DEF Locking, Measured, DataTypes
<1>4. UNCHANGED <<ring, dma, tcFlag, TxInProgress, irqMasked, uartMutex,
                  walker, requested, wire>>
  BY DEF SendRoom, SendEmpty, SendOrder, SendClip, history
<1>5. CASE SendEmpty(s) /\ TxHead = TxTail
  <2>1. Size - 1 = Size - 1 - InRing
    BY <1>3, <1>5 DEF InRing, Head
  <2>2. Clip(s, Size - 1) /\ pc[s] \in {"empty", "ahead", "behind"}
    BY <1>5 DEF SendEmpty
  <2> QED BY <1>4, <2>1, <2>2, ClipIInv
<1>6. CASE SendClip(s) /\ pc[s] = "ahead"
  <2>1. RoomAhead = Size - 1 - InRing
    BY <1>3, <1>6 DEF InRing, Head, RoomAhead, Measured
  <2>2. Clip(s, RoomAhead) /\ pc[s] \in {"empty", "ahead", "behind"}
    BY <1>6 DEF SendClip
  <2> QED BY <1>4, <2>1, <2>2, ClipIInv
<1>7. CASE SendClip(s) /\ pc[s] = "behind"
  <2>1. RoomBehind = Size - 1 - InRing
    BY <1>3, <1>7 DEF InRing, Head, RoomBehind, Measured
  <2>2. Clip(s, RoomBehind) /\ pc[s] \in {"empty", "ahead", "behind"}
    BY <1>7 DEF SendClip
  <2> QED BY <1>4, <2>1, <2>2, ClipIInv
<1>8. CASE SendOrder(s) \/ (SendEmpty(s) /\ TxHead # TxTail)
  <2>1. /\ UNCHANGED <<length, left, accepted>>
        /\ \/ pc' = [pc EXCEPT ![s] = "order"] /\ TxHead # TxTail
           \/ pc' = [pc EXCEPT ![s] = "ahead"] /\ TxHead > TxTail
           \/ pc' = [pc EXCEPT ![s] = "behind"] /\ TxHead < TxTail
    <3>1. CASE SendOrder(s)
      <4>1. TxHead # TxTail
        BY <3>1 DEF SendOrder, Measured
      <4>2. TxHead > TxTail \/ TxHead < TxTail
        BY <4>1, <1>3
      <4>3. TxHead < TxTail => ~(TxHead > TxTail)
        BY <1>3
      <4>4. pc' = [pc EXCEPT ![s] = IF TxHead > TxTail THEN "ahead" ELSE "behind"]
        BY <3>1 DEF SendOrder
      <4>5. UNCHANGED <<length, left, accepted>>
        BY <3>1 DEF SendOrder, history
      <4>6. CASE TxHead > TxTail
        BY <4>4, <4>5, <4>6
      <4>7. CASE TxHead < TxTail
        BY <4>3, <4>4, <4>5, <4>7
      <4> QED BY <4>2, <4>6, <4>7
    <3>2. CASE SendEmpty(s) /\ TxHead # TxTail
      BY <3>2 DEF SendEmpty
    <3> QED BY <1>8, <3>1, <3>2
  <2>2. /\ \A t \in Senders \ {s} : pc'[t] = "idle"
        /\ pc'[s] \in {"order", "ahead", "behind"}
        /\ pc'[s] = "order" => TxHead # TxTail
        /\ pc'[s] = "ahead" => TxHead > TxTail
        /\ pc'[s] = "behind" => TxHead < TxTail
    BY <1>1, <2>1 DEF DataTypes
  <2>3. ~Filling /\ ~Filling' /\ left = 0 /\ irqMasked
    BY <1>1, <1>2, <2>2 DEF Filling, Locking, Pinned
  <2>4. InRing' = InRing /\ InDma' = InDma /\ \A i \in Nat : Slot(i)' = Slot(i)
    BY <1>4 DEF InRing, Head, InDma, Slot, ring, dma
  <2>5. FlagTypes'
    BY <1>4 DEF FlagTypes, dma, walker, wire
  <2>6. DataTypes'
    BY <1>4, <2>1 DEF DataTypes, ring, dma, walker, wire
  <2>7. Locking'
    BY <1>1, <1>2, <1>3, <1>4, <2>1, <2>2, <2>3 DEF Locking, ring
  <2>8. Measured'
    BY <1>3, <1>4, <2>1, <2>2 DEF Measured, ring
  <2>9. NothingLost' /\ RingContents'
    BY <1>4, <2>1, <2>4 DEF NothingLost, RingContents, ring, wire
  <2>10. DmaContents' /\ FifoOrder'
    BY <1>4 DEF DmaContents, FifoOrder, dma, wire
  <2>11. Busy'
    BY <1>4, <2>1, <2>3, <2>4 DEF Busy, dma
  <2> QED BY <2>5, <2>6, <2>7, <2>8, <2>9, <2>10, <2>11
<1> QED BY <1>5, <1>6, <1>7, <1>8 DEF SendRoom, SendClip

LEMMA SendStoreIInv ==
  ASSUME IInv, NEW s \in Senders, SendStore(s)
  PROVE  IInv'
<1> USE DEF IInv, TypeOK
<1>1. /\ pc[s] = "store" /\ pc' = [pc EXCEPT ![s] = "wrap"]
      /\ \A t \in Senders \ {s} : pc[t] = "idle"
  BY OneHolder DEF SendStore
<1>2. /\ \A t \in Senders \ {s} : pc'[t] = "idle"
      /\ pc'[s] = "wrap"
  BY <1>1 DEF DataTypes
<1>3. Filling /\ Filling' /\ TxHead \in 0 .. Size - 1
  BY <1>1, <1>2 DEF Filling, Locking, DataTypes
<1>4. /\ left \in Nat /\ left > 0 /\ left' = left - 1
      /\ TxHead' = TxHead + 1
      /\ TxTail' = TxTail /\ TxTail \in 0 .. Size - 1
  BY DEF SendStore, DataTypes
<1>5. InDma' = InDma /\ InDma \in Nat
  BY DEF SendStore, InDma, dma, DataTypes
<1>6. InRing < Size - 1 /\ InRing \in Nat /\ InRing' = InRing + 1
  BY <1>3, <1>4 DEF RingContents, InRing, Head
<1>7. accepted - left + 1 = shifted + InDma + InRing + 1
  BY <1>4, <1>5, <1>6 DEF NothingLost, DataTypes
<1>8. Slot(InRing) = TxHead
  BY <1>3, <1>4, <1>6 DEF Slot, InRing, Head
<1>9. TxBuff' = [TxBuff EXCEPT ![TxHead] = shifted + InDma + InRing + 1]
  BY <1>7 DEF SendStore
<1>10. FlagTypes'
  BY DEF SendStore, FlagTypes, dma, walker, wire
<1>11. DataTypes'
  BY <1>1, <1>3, <1>4, <1>5, <1>6, <1>9
  DEF SendStore, DataTypes, dma, walker, history, wire
<1>12. Locking'
  BY <1>1, <1>2, <1>3 DEF SendStore, Locking, Pinned
<1>13. NothingLost'
  BY <1>4, <1>5, <1>6 DEF SendStore, NothingLost, DataTypes, history, wire
<1>14. RingContents'
  <2>1. \A i \in 0 .. InRing - 1 :
          Slot(i) # TxHead /\ Slot(i) \in 0 .. Size - 1
    BY <1>3, <1>4, <1>6 DEF Slot, InRing, Head
  <2>2. ASSUME NEW i \in 0 .. InRing
        PROVE  TxBuff'[Slot(i)] = shifted + InDma + i + 1
    <3>1. CASE i = InRing
      BY <3>1, <1>3, <1>8, <1>9 DEF DataTypes
    <3>2. CASE i \in 0 .. InRing - 1
      BY <3>2, <2>1, <1>9 DEF RingContents, DataTypes
    <3> QED BY <3>1, <3>2, <1>6
  <2>3. shifted' = shifted /\ \A i \in Nat : Slot(i)' = Slot(i)
    BY <1>4 DEF SendStore, Slot, wire
  <2> QED
    BY <1>4, <1>5, <1>6, <2>2, <2>3 DEF RingContents
<1>15. DmaContents'
  BY DEF SendStore, DmaContents, dma, wire
<1>16. Busy'
  <2>1. UNCHANGED <<TxInProgress, dmaOn, tcFlag, dmaPos, dmaLen, length>>
    BY DEF SendStore, dma
  <2> QED BY <1>3, <1>4, <1>6, <2>1 DEF Busy, DataTypes
<1>17. FifoOrder'
  BY DEF SendStore, FifoOrder, wire
<1>18. Measured'
  BY <1>2 DEF Measured
<1> QED BY <1>10, <1>11, <1>12, <1>13, <1>14, <1>15, <1>16, <1>17, <1>18

LEMMA SendWrapIInv ==
  ASSUME IInv, NEW s \in Senders, SendWrap(s)
  PROVE  IInv'
<1> USE DEF IInv, TypeOK
<1>1. /\ pc[s] = "wrap" /\ pc' = [pc EXCEPT ![s] = "store"]
      /\ \A t \in Senders \ {s} : pc[t] = "idle"
  BY OneHolder DEF SendWrap
<1>2. /\ \A t \in Senders \ {s} : pc'[t] = "idle"
      /\ pc'[s] = "store"
  BY <1>1 DEF DataTypes
<1>3. Filling /\ Filling' /\ left' = left /\ length' = length
  BY <1>1, <1>2 DEF SendWrap, Filling
<1>4. TxHead' = Head /\ Head' = Head /\ TxTail' = TxTail /\ TxHead' \in 0 .. Size - 1
  BY DEF SendWrap, WrapHead, Head, DataTypes
<1>5. InRing' = InRing /\ InDma' = InDma /\ \A i \in Nat : Slot(i)' = Slot(i)
  BY <1>4 DEF SendWrap, InRing, InDma, Slot, dma
<1>6. FlagTypes'
  BY DEF SendWrap, FlagTypes, dma, walker, wire
<1>7. DataTypes'
  BY <1>1, <1>4 DEF SendWrap, DataTypes, dma, walker, history, wire
<1>8. Locking'
  BY <1>1, <1>2, <1>3, <1>4 DEF SendWrap, Locking, Pinned
<1>9. NothingLost' /\ RingContents'
  BY <1>5 DEF SendWrap, NothingLost, RingContents, history, wire
<1>10. DmaContents' /\ FifoOrder'
  BY DEF SendWrap, DmaContents, FifoOrder, dma, wire
<1>11. Busy'
  BY <1>3, <1>5 DEF SendWrap, Busy, dma
<1>12. Measured'
  BY <1>2 DEF Measured
<1> QED BY <1>6, <1>7, <1>8, <1>9, <1>10, <1>11, <1>12

-----------------------------------------------------------------------------
(* What the copy loop into txDmaBuff does to a ring in order: the first    *)
(* bytes of the ring move to the DMA buffer, the others stay in the ring.  *)
LEMMA LoadDmaMoves ==
  ASSUME DataTypes, RingContents, TxHead # Size, ~dmaOn, LoadDma,
         shifted' = shifted, left' = left,
         dmaOn' = TRUE, dmaLen' = LoadCount, dmaPos' = 0
  PROVE  /\ LoadCount \in 0 .. DmaSize /\ LoadCount <= InRing
         /\ InRing > 0 => LoadCount > 0
         /\ txDmaBuff' \in [0 .. DmaSize - 1 -> Nat]
         /\ TxTail' \in 0 .. Size - 1
         /\ InRing' = InRing - LoadCount /\ InDma' = LoadCount
         /\ RingContents' /\ DmaContents'
<1>2. /\ InRing \in 0 .. Size - 1 /\ Queued = InRing
      /\ TxHead \in 0 .. Size - 1 /\ TxTail \in 0 .. Size - 1
      /\ TxHead' = TxHead /\ TxBuff' = TxBuff
  BY DEF InRing, Head, Queued, DataTypes, LoadDma
<1>3. /\ LoadCount \in 0 .. DmaSize /\ LoadCount <= InRing
      /\ InRing > 0 => LoadCount > 0
  BY <1>2 DEF LoadCount, Minimum
<1>1. InDma = 0 /\ InDma' = LoadCount
  BY <1>3 DEF InDma
<1>4. TxTail' = Slot(LoadCount) /\ TxTail' \in 0 .. Size - 1
  BY <1>2, <1>3 DEF LoadDma, Slot
<1>5. InRing' = InRing - LoadCount
  BY <1>2, <1>3, <1>4 DEF InRing, Head, Slot
<1>6. \A i \in 0 .. InRing - 1 : Slot(i) \in 0 .. Size - 1
  BY <1>2 DEF Slot
<1>7. \A i \in 0 .. LoadCount - 1 : txDmaBuff'[i] = shifted + i + 1
  <2> SUFFICES ASSUME NEW i \in 0 .. LoadCount - 1
               PROVE  txDmaBuff'[i] = shifted + i + 1
    OBVIOUS
  <2>1. i \in 0 .. DmaSize - 1 /\ i < LoadCount /\ i \in 0 .. InRing - 1
    BY <1>2, <1>3
  <2>2. txDmaBuff'[i] = TxBuff[Slot(i)]
    BY <2>1 DEF LoadDma
  <2> QED BY <2>1, <2>2, <1>1 DEF RingContents, DataTypes
<1>8. txDmaBuff' \in [0 .. DmaSize - 1 -> Nat]
  <2>1. ASSUME NEW i \in 0 .. DmaSize - 1, i < LoadCount
        PROVE  TxBuff[Slot(i)] \in Nat
    BY <2>1, <1>2, <1>3, <1>6 DEF DataTypes
  <2> QED BY <2>1 DEF LoadDma, DataTypes
<1>9. RingContents'
  <2>1. ASSUME NEW i \in 0 .. InRing' - 1
        PROVE  TxBuff'[Slot(i)'] = shifted' + InDma' + i + 1
    <3>1. LoadCount + i \in 0 .. InRing - 1
      BY <1>2, <1>3, <1>5
    <3>2. Slot(i)' = Slot(LoadCount + i)
      BY <3>1, <1>2, <1>3, <1>4 DEF Slot
    <3>3. TxBuff[Slot(LoadCount + i)] = shifted + (LoadCount + i) + 1
      BY <3>1, <1>1 DEF RingContents, DataTypes
    <3> QED BY <3>2, <3>3, <1>1, <1>2, <1>3 DEF DataTypes
  <2> QED BY <2>1, <1>2, <1>3, <1>5 DEF RingContents, DataTypes
<1>10. DmaContents'
  BY <1>3, <1>7 DEF DmaContents, DataTypes
<1> QED BY <1>1, <1>3, <1>4, <1>5, <1>8, <1>9, <1>10

LEMMA SendKickIInv ==
  ASSUME IInv, NEW s \in Senders, SendKick(s)
  PROVE  IInv'
<1> USE DEF IInv, TypeOK
<1>1. /\ pc[s] = "store" /\ pc' = [pc EXCEPT ![s] = "unmask"]
      /\ \A t \in Senders \ {s} : pc[t] = "idle"
  BY OneHolder DEF SendKick
<1>2. /\ \A t \in Senders \ {s} : pc'[t] = "idle"
      /\ pc'[s] = "unmask"
  BY <1>1 DEF DataTypes
<1>3. Filling /\ ~Filling' /\ TxHead \in 0 .. Size - 1
  BY <1>1, <1>2 DEF Filling, Locking, DataTypes
<1>4. left = 0 /\ left' = left /\ length' = length /\ shifted' = shifted
      /\ accepted' = accepted /\ inOrder' = inOrder
  BY DEF SendKick, history, wire
<1>7. Measured'
  BY <1>2 DEF Measured
<1>5. CASE TxInProgress
  <2>1. UNCHANGED <<TxInProgress, tcFlag, TxHead, TxTail, TxBuff, txDmaBuff,
                    dmaOn, dmaLen, dmaPos>>
    BY <1>5 DEF SendKick, ring, dma
  <2>2. InRing' = InRing /\ InDma' = InDma /\ \A i \in Nat : Slot(i)' = Slot(i)
    BY <2>1 DEF InRing, Head, InDma, Slot
  <2>3. FlagTypes'
    BY <2>1 DEF SendKick, FlagTypes, walker, wire
  <2>4. DataTypes'
    BY <1>1, <2>1 DEF SendKick, DataTypes, walker, history, wire
  <2>5. Locking'
    BY <1>1, <1>2, <1>3, <1>4, <2>1 DEF SendKick, Locking, Pinned
  <2>6. NothingLost' /\ RingContents'
    BY <1>4, <2>1, <2>2 DEF NothingLost, RingContents
  <2>7. DmaContents' /\ FifoOrder'
    BY <1>4, <2>1 DEF DmaContents, FifoOrder
  <2>8. Busy'
    BY <1>5, <2>1 DEF Busy
  <2> QED BY <1>7, <2>3, <2>4, <2>5, <2>6, <2>7, <2>8
<1>6. CASE ~TxInProgress
  <2>1. /\ TxInProgress' = TRUE /\ tcFlag' = tcFlag
        /\ LoadDma /\ StartDma(KickLength)
        /\ ~dmaOn /\ ~tcFlag
    BY <1>6 DEF SendKick, Busy
  <2>2. InRing = length /\ InRing \in 0 .. Size - 1
    BY <1>3, <1>4, <1>6 DEF Busy, InRing, Head, DataTypes
  <2>3. KickLength = LoadCount
    BY <1>3, <2>2 DEF KickLength, LoadCount, Queued, Minimum, InRing, Head
  <2>4. dmaOn' = TRUE /\ dmaLen' = LoadCount /\ dmaPos' = 0
    BY <2>1, <2>3 DEF StartDma
  <2>5. /\ LoadCount \in 0 .. DmaSize /\ LoadCount <= InRing
        /\ InRing > 0 => LoadCount > 0
        /\ txDmaBuff' \in [0 .. DmaSize - 1 -> Nat]
        /\ TxTail' \in 0 .. Size - 1
        /\ InRing' = InRing - LoadCount /\ InDma' = LoadCount
        /\ RingContents' /\ DmaContents'
    BY <1>3, <1>4, <2>1, <2>4, LoadDmaMoves
  <2>6. TxHead' = TxHead /\ TxBuff' = TxBuff
    BY <2>1 DEF LoadDma
  <2>7. FlagTypes'
    BY <2>1, <2>4 DEF SendKick, FlagTypes, walker, wire
  <2>8. DataTypes'
    BY <1>1, <2>4, <2>5, <2>6 DEF SendKick, DataTypes, walker, history, wire
  <2>9. Locking'
    BY <1>1, <1>2, <1>3, <1>4, <2>6 DEF SendKick, Locking, Pinned
  <2>10. InDma = 0
    BY <2>1 DEF InDma
  <2>11. NothingLost'
    BY <1>4, <2>2, <2>5, <2>10 DEF NothingLost, DataTypes
  <2>12. length > 0
    BY <1>3, <1>6 DEF Busy
  <2>13. Busy'
    BY <2>1, <2>2, <2>4, <2>5, <2>12 DEF Busy
  <2>14. FifoOrder'
    BY <1>4 DEF FifoOrder
  <2> QED BY <1>7, <2>5, <2>7, <2>8, <2>9, <2>11, <2>13, <2>14
<1> QED BY <1>5, <1>6

LEMMA SendEndIInv ==
  ASSUME IInv, NEW s \in Senders, SendEnd(s)
  PROVE  IInv'
<1> USE DEF IInv, TypeOK
<1>1. /\ pc[s] = "unmask" /\ pc' = [pc EXCEPT ![s] = "idle"]
      /\ \A t \in Senders \ {s} : pc[t] = "idle"
  BY OneHolder DEF SendEnd
<1>2. \A t \in Senders : pc'[t] = "idle"
  BY <1>1 DEF DataTypes
<1>3. ~Filling /\ ~Filling' /\ ~Pinned' /\ uartMutex' = None
  BY <1>1, <1>2 DEF SendEnd, Filling, Pinned
<1>4. UNCHANGED <<ring, dma, tcFlag, TxInProgress, length, left, walker,
                  history, wire>>
  BY DEF SendEnd
<1>5. InRing' = InRing /\ InDma' = InDma /\ \A i \in Nat : Slot(i)' = Slot(i)
  BY <1>4 DEF InRing, Head, InDma, Slot, ring, dma
<1>6. FlagTypes'
  BY <1>4 DEF SendEnd, UnmaskIrq, FlagTypes, dma, walker, wire
<1>7. DataTypes'
  BY <1>1, <1>3, <1>4 DEF DataTypes, ring, dma, walker, history, wire
<1>8. Locking'
  BY <1>1, <1>2, <1>3, <1>4 DEF Locking, ring
<1>9. NothingLost' /\ RingContents'
  BY <1>4, <1>5 DEF NothingLost, RingContents, ring, history, wire
<1>10. DmaContents' /\ FifoOrder'
  BY <1>4 DEF DmaContents, FifoOrder, dma, wire
<1>11. Busy'
  BY <1>3, <1>4, <1>5 DEF Busy, dma
<1>12. Measured'
  BY <1>2 DEF Measured
<1> QED BY <1>6, <1>7, <1>8, <1>9, <1>10, <1>11, <1>12

LEMMA SpaceBeginIInv ==
  ASSUME IInv, NEW s \in Senders, SpaceBegin(s)
  PROVE  IInv'
<1> USE DEF IInv, TypeOK
<1>1. \A t \in Senders : pc[t] = "idle"
  BY DEF SpaceBegin, Locking
<1>2. /\ pc' = [pc EXCEPT ![s] = "unmask"] /\ uartMutex' = s
      /\ \A t \in Senders : pc'[t] # "idle" <=> t = s
      /\ \A t \in Senders : pc'[t] \in {"idle", "unmask"}
  BY <1>1 DEF SpaceBegin, DataTypes
<1>3. ~Filling /\ ~Filling' /\ TxHead # Size
  BY <1>1, <1>2 DEF Filling, Locking
<1>4. UNCHANGED <<ring, dma, tcFlag, TxInProgress, length, left, walker,
                  history, wire>>
  BY DEF SpaceBegin
<1>5. InRing' = InRing /\ InDma' = InDma /\ \A i \in Nat : Slot(i)' = Slot(i)
  BY <1>4 DEF InRing, Head, InDma, Slot, ring, dma
<1>6. FlagTypes'
  BY <1>4 DEF SpaceBegin, MaskIrq, FlagTypes, dma, walker, wire
<1>7. DataTypes'
  BY <1>2, <1>4 DEF DataTypes, ring, dma, walker, history, wire
<1>8. Locking'
  BY <1>2, <1>3, <1>4 DEF SpaceBegin, MaskIrq, Locking, ring
<1>9. NothingLost' /\ RingContents'
  BY <1>4, <1>5 DEF NothingLost, RingContents, ring, history, wire
<1>10. DmaContents' /\ FifoOrder'
  BY <1>4 DEF DmaContents, FifoOrder, dma, wire
<1>11. Busy'
  BY <1>3, <1>4, <1>5 DEF Busy, dma
<1>12. Measured'
  BY <1>2 DEF Measured
<1> QED BY <1>6, <1>7, <1>8, <1>9, <1>10, <1>11, <1>12

-----------------------------------------------------------------------------
LEMMA DmaByteIInv ==
  ASSUME IInv, DmaByte
  PROVE  IInv'
<1> USE DEF IInv, TypeOK
<1>1. /\ dmaOn /\ dmaPos < dmaLen /\ dmaPos' = dmaPos + 1
      /\ dmaOn' = (dmaPos + 1 < dmaLen) /\ tcFlag' = (dmaPos + 1 = dmaLen)
      /\ TxInProgress
  BY DEF DmaByte, Busy
<1>2. txDmaBuff[dmaPos] = shifted + 1
  BY <1>1 DEF DmaContents, DataTypes
<1>3. inOrder' = TRUE /\ shifted' = shifted + 1
  BY <1>2 DEF DmaByte, FifoOrder
<1>4. UNCHANGED <<ring, txDmaBuff, dmaLen, TxInProgress, irqMasked, call,
                  walker, history>>
  BY DEF DmaByte
<1>5. InRing' = InRing /\ Filling' = Filling /\ Pinned' = Pinned
      /\ \A i \in Nat : Slot(i)' = Slot(i)
  BY <1>4 DEF InRing, Head, Slot, ring, call, Filling, Pinned
<1>6. shifted' + InDma' = shifted + InDma
  <2>1. InDma = dmaLen - dmaPos /\ dmaLen' = dmaLen
    BY <1>1, <1>4 DEF InDma
  <2>2. CASE dmaPos + 1 < dmaLen
    <3>1. dmaOn'
      BY <2>2, <1>1
    <3> QED BY <3>1, <2>1, <1>1, <1>3 DEF InDma, DataTypes
  <2>3. CASE ~(dmaPos + 1 < dmaLen)
    <3>1. ~dmaOn'
      BY <2>3, <1>1
    <3>2. dmaPos + 1 = dmaLen
      BY <2>3, <1>1 DEF DataTypes
    <3> QED BY <3>1, <3>2, <2>1, <1>3 DEF InDma, DataTypes
  <2> QED BY <2>2, <2>3
<1>7. FlagTypes'
  BY <1>1, <1>3, <1>4 DEF FlagTypes, walker
<1>8. DataTypes'
  BY <1>1, <1>3, <1>4 DEF DataTypes, ring, call, walker, history
<1>9. Locking'
  BY <1>4, <1>5 DEF Locking, ring, call
<1>10. NothingLost'
  BY <1>4, <1>5, <1>6 DEF NothingLost, history, call
<1>11. RingContents'
  BY <1>4, <1>5, <1>6 DEF RingContents, ring, call
<1>12. DmaContents'
  BY <1>1, <1>3, <1>4 DEF DmaContents, DataTypes
<1>13. Busy'
  <2>1. TxInProgress' = TxInProgress
    BY <1>4
  <2>2. dmaPos + 1 < dmaLen \/ dmaPos + 1 = dmaLen
    BY <1>1 DEF DataTypes
  <2>3. dmaPos + 1 < dmaLen => dmaPos + 1 # dmaLen
    BY DEF DataTypes
  <2>4. dmaPos' = dmaPos + 1 /\ dmaLen' = dmaLen
    BY <1>1, <1>4
  <2>5. dmaOn' => dmaPos + 1 < dmaLen
    BY <1>1
  <2>6. dmaOn' => dmaPos' < dmaLen' /\ dmaPos + 1 # dmaLen
    BY <2>3, <2>4, <2>5
  <2>7. dmaOn' \/ tcFlag'
    BY <2>2, <1>1
  <2>8. dmaOn' => ~tcFlag'
    BY <2>6, <1>1
  <2> QED BY <1>1, <2>1, <2>6, <2>7, <2>8 DEF Busy
<1>14. FifoOrder'
  BY <1>3 DEF FifoOrder
<1>15. Measured'
  BY <1>4 DEF Measured, ring, call
<1> QED BY <1>7, <1>8, <1>9, <1>10, <1>11, <1>12, <1>13, <1>14, <1>15

(* The handler runs only while nobody is filling the ring.                 *)
LEMMA DmaIsrIInv ==
  ASSUME IInv, DmaIsr
  PROVE  IInv'
<1> USE DEF IInv, TypeOK
<1>1. /\ tcFlag /\ ~irqMasked /\ tcFlag' = FALSE
      /\ UNCHANGED <<irqMasked, call, walker, history, wire>>
      /\ ~dmaOn /\ TxInProgress
  BY DEF DmaIsr, Busy
<1>2. ~Pinned /\ ~Filling /\ ~Filling' /\ left = 0
  BY <1>1 DEF Locking, Pinned, Filling, call
<1>3. TxHead \in 0 .. Size - 1 /\ InRing \in 0 .. Size - 1 /\ InDma = 0
  BY <1>1, <1>2 DEF Locking, Filling, DataTypes, InRing, Head, InDma
<1>6. Measured'
  BY <1>1, <1>2 DEF Measured, Pinned, call
<1>4. CASE TxTail = TxHead
  <2>1. TxInProgress' = FALSE /\ UNCHANGED <<ring, dma>>
    BY <1>4 DEF DmaIsr, RingEmpty, GoIdle
  <2>2. InRing = 0
    BY <1>3, <1>4 DEF InRing, Head
  <2>3. InRing' = InRing /\ InDma' = InDma /\ \A i \in Nat : Slot(i)' = Slot(i)
    BY <2>1 DEF InRing, Head, InDma, Slot, ring, dma
  <2>4. FlagTypes'
    BY <1>1, <2>1 DEF FlagTypes, dma, walker, wire
  <2>5. DataTypes'
    BY <1>1, <2>1 DEF DataTypes, ring, dma, call, walker, history, wire
  <2>6. Locking'
    BY <1>1, <1>2, <1>3, <2>1 DEF Locking, Pinned, Filling, ring, call
  <2>7. NothingLost' /\ RingContents'
    BY <1>1, <2>1, <2>3 DEF NothingLost, RingContents, ring, call, history, wire
  <2>8. DmaContents' /\ FifoOrder'
    BY <1>1, <2>1 DEF DmaContents, FifoOrder, dma, wire
  <2>9. Busy'
    BY <1>1, <1>2, <2>1, <2>2, <2>3 DEF Busy, dma, call
  <2> QED BY <1>6, <2>4, <2>5, <2>6, <2>7, <2>8, <2>9
<1>5. CASE TxTail # TxHead
  <2>1. /\ LoadDma /\ TxInProgress' = TxInProgress
        /\ dmaOn' = TRUE /\ dmaLen' = LoadCount /\ dmaPos' = 0
    BY <1>5 DEF DmaIsr, RingEmpty, StartDma
  <2>2. InRing > 0
    BY <1>3, <1>5 DEF InRing, Head, DataTypes
  <2>3. shifted' = shifted /\ left' = left
    BY <1>1 DEF wire, call
  <2>4. /\ LoadCount \in 0 .. DmaSize /\ LoadCount <= InRing
        /\ InRing > 0 => LoadCount > 0
        /\ txDmaBuff' \in [0 .. DmaSize - 1 -> Nat]
        /\ TxTail' \in 0 .. Size - 1
        /\ InRing' = InRing - LoadCount /\ InDma' = LoadCount
        /\ RingContents' /\ DmaContents'
    BY <1>1, <1>3, <2>1, <2>3, LoadDmaMoves
  <2>5. TxHead' = TxHead /\ TxBuff' = TxBuff
    BY <2>1 DEF LoadDma
  <2>6. FlagTypes'
    BY <1>1, <2>1 DEF FlagTypes, walker, wire
  <2>7. DataTypes'
    BY <1>1, <2>1, <2>4, <2>5 DEF DataTypes, call, walker, history, wire
  <2>8. Locking'
    BY <1>1, <1>2, <1>3, <2>5 DEF Locking, Pinned, Filling, call
  <2>9. NothingLost'
    BY <1>1, <1>3, <2>3, <2>4 DEF NothingLost, DataTypes, history
  <2>10. Busy'
    BY <1>1, <2>1, <2>2, <2>4 DEF Busy
  <2>11. FifoOrder'
    BY <1>1 DEF FifoOrder, wire
  <2> QED BY <1>6, <2>4, <2>6, <2>7, <2>8, <2>9, <2>10, <2>11
<1> QED BY <1>4, <1>5

-----------------------------------------------------------------------------
LEMMA NextIInv == IInv /\ [NextTasks]_vars => IInv'
<1> SUFFICES ASSUME IInv, [NextTasks]_vars PROVE IInv'
  OBVIOUS
<1>1. ASSUME NEW s \in Senders, Send(s) PROVE IInv'
  <2>1. ASSUME NEW n \in 1 .. MaxLen, SendBegin(s, n) PROVE IInv'
    BY <2>1, SendBeginIInv
  <2>2. CASE SpaceBegin(s)
    BY <2>2, SpaceBeginIInv
  <2>3. CASE SendStore(s)
    BY <2>3, SendStoreIInv
  <2>4. CASE SendWrap(s)
    BY <2>4, SendWrapIInv
  <2>5. CASE SendKick(s)
    BY <2>5, SendKickIInv
  <2>6. CASE SendEnd(s)
    BY <2>6, SendEndIInv
  <2>7. CASE SendRoom(s)
    BY <2>7, SendRoomIInv
  <2> QED
    BY <1>1, <2>1, <2>2, <2>3, <2>4, <2>5, <2>6, <2>7 DEF Send, SendStep
<1>2. CASE DmaByte
  BY <1>2, DmaByteIInv
<1>3. CASE DmaIsr
  BY <1>3, DmaIsrIInv
<1>4. CASE UNCHANGED vars
  BY <1>4
  DEF vars, ring, dma, call, walker, history, wire, IInv, TypeOK, FlagTypes,
      DataTypes, Locking, Measured, NothingLost, RingContents, DmaContents,
      Busy, FifoOrder, Pinned, Filling, InDma, InRing, Head, Slot
<1> QED
  BY <1>1, <1>2, <1>3, <1>4 DEF NextTasks, Hardware

(* The inductive invariant holds in every reachable state of the driver    *)
(* used by tasks and the DMA handler alone.                                *)
THEOREM Invariance == SpecTasks => []IInv
BY InitIInv, NextIInv, PTL DEF SpecTasks

LEMMA IInvFifoSound == IInv => FifoSound
<1> SUFFICES ASSUME IInv PROVE FifoOrder /\ NothingLost /\ IdleIsDrained
  BY DEF FifoSound
<1> USE DEF IInv, TypeOK
<1>1. ASSUME ~TxInProgress, ~Filling
      PROVE  TxHead = TxTail /\ ~dmaOn /\ shifted = accepted
  <2>1. ~dmaOn /\ left = 0 /\ TxHead # Size
    BY <1>1 DEF Busy, Locking, Filling
  <2>2. InRing \in Nat /\ InRing + left = 0
    BY <1>1 DEF Busy, InRing, Head, DataTypes
  <2>3. InRing = 0 /\ InDma = 0
    BY <2>1, <2>2 DEF InDma
  <2> QED BY <2>1, <2>3 DEF NothingLost, InRing, Head, DataTypes
<1> QED BY <1>1 DEF IdleIsDrained

(* Bytes leave the UART once each in the order sendUartBytes took them,    *)
(* none is lost on the way, and TxInProgress is clear only when nothing is *)
(* left to send.                                                           *)
THEOREM Fifo == SpecTasks => []FifoSound
BY IInvFifoSound, Invariance, PTL

(* Type correctness.                                                       *)
THEOREM Typing == SpecTasks => []TypeOK
<1>1. IInv => TypeOK
  BY DEF IInv
<1> QED BY <1>1, Invariance, PTL

-----------------------------------------------------------------------------
(* The driver never holds more than the ring and one DMA buffer.           *)
Bounded ==
  /\ left \in Nat /\ left <= Size - 1 + DmaSize
  /\ accepted - shifted <= Size - 1 + DmaSize

LEMMA IInvBounded == IInv => Bounded
<1> SUFFICES ASSUME IInv PROVE Bounded
  OBVIOUS
<1>1. InRing \in Nat /\ InDma \in 0 .. DmaSize /\ left \in Nat
  BY DEF IInv, TypeOK, DataTypes, InRing, Head, InDma
<1>2. /\ accepted = shifted + InDma + InRing + left
      /\ InRing + left <= Size - 1 /\ shifted \in Nat
  BY DEF IInv, TypeOK, NothingLost, RingContents, DataTypes
<1> QED BY <1>1, <1>2 DEF Bounded

LEMMA StepRefines ==
  IInv /\ IInv' /\ [NextTasks]_vars => [Channel!Next]_(Channel!vars)
<1> SUFFICES ASSUME IInv, IInv', [NextTasks]_vars
             PROVE  Channel!Next \/ UNCHANGED <<accepted, shifted>>
  BY DEF Channel!vars
<1>1. ASSUME NEW s \in Senders, SendRoom(s)
      PROVE  Channel!Next \/ UNCHANGED <<accepted, shifted>>
  <2>1. shifted' = shifted /\ (accepted' = accepted + left' \/ accepted' = accepted)
    BY <1>1 DEF SendRoom, SendEmpty, SendOrder, SendClip, Clip, history, wire
  <2>2. Bounded'
    BY IInvBounded, PTL
  <2>3. accepted \in Nat /\ shifted \in Nat
    BY DEF IInv, TypeOK, DataTypes
  <2>4. CASE left' = 0 \/ accepted' = accepted
    BY <2>1, <2>3, <2>4
  <2>5. CASE left' # 0 /\ accepted' = accepted + left'
    <3>1. left' \in 1 .. Size - 1 + DmaSize
      BY <2>2, <2>5 DEF Bounded
    <3>2. accepted' - shifted <= Size - 1 + DmaSize
      BY <2>1, <2>2 DEF Bounded
    <3> QED BY <2>1, <2>5, <3>1, <3>2 DEF Channel!Next, Channel!Accept
  <2> QED BY <2>1, <2>4, <2>5
<1>2. CASE DmaByte
  <2>1. InDma > 0 /\ InDma \in Nat /\ InRing \in Nat /\ left \in Nat
    BY <1>2 DEF DmaByte, InDma, InRing, Head, IInv, TypeOK, DataTypes
  <2>2. shifted < accepted
    BY <2>1 DEF IInv, TypeOK, NothingLost, DataTypes
  <2>3. shifted' = shifted + 1 /\ accepted' = accepted
    <3>1. inOrder'
      BY DEF IInv, FifoOrder
    <3> QED BY <1>2, <3>1 DEF DmaByte, history
  <2> QED BY <2>2, <2>3 DEF Channel!Next, Channel!Deliver
<1>3. ASSUME NEW s \in Senders,
             \/ \E n \in 1 .. MaxLen : SendBegin(s, n)
             \/ SpaceBegin(s)
             \/ SendStep(s) /\ ~SendRoom(s)
      PROVE  UNCHANGED <<accepted, shifted>>
  BY <1>3 DEF SendBegin, SpaceBegin, SendStep, SendStore, SendWrap, SendKick,
              SendEnd, history, wire
<1>4. CASE DmaIsr
  BY <1>4 DEF DmaIsr, history, wire
<1>5. CASE UNCHANGED vars
  BY <1>5 DEF vars, history, wire
<1> QED
  BY <1>1, <1>2, <1>3, <1>4, <1>5 DEF NextTasks, Send, SendStep, Hardware

(* The safety part of the refinement: the driver does nothing a bounded    *)
(* FIFO channel of Size - 1 + DmaSize bytes would not do.                  *)
THEOREM Refinement ==
  SpecTasks => Channel!Init /\ [][Channel!Next]_(Channel!vars)
<1>1. Init => Channel!Init
  BY DEF Init, Channel!Init
<1> QED BY <1>1, StepRefines, Invariance, PTL DEF SpecTasks

-----------------------------------------------------------------------------
(* With the walks of umm_info, which enable the interrupt under a sender:  *)
(* the handler may then run between SendStore and SendWrap, where the head *)
(* is Size.  What keeps the indices in range is the mutex alone.           *)
HeadHeld ==
  /\ \A s \in Senders : pc[s] # "idle" <=> uartMutex = s
  /\ TxHead = Size => \E s \in Senders : pc[s] = "wrap"
  /\ ~Filling => left = 0
  /\ left <= accepted
RangeInv == TypeOK /\ HeadHeld

(* The copy loop stays in both arrays, wherever the head is.               *)
LEMMA LoadInRange ==
  ASSUME DataTypes, LoadDma
  PROVE  /\ LoadCount \in 0 .. DmaSize /\ TxTail' \in 0 .. Size - 1
         /\ txDmaBuff' \in [0 .. DmaSize - 1 -> Nat]
         /\ TxHead' = TxHead /\ TxBuff' = TxBuff
<1>1. Queued \in Nat
  BY DEF Queued, DataTypes
<1>2. LoadCount \in 0 .. DmaSize
  BY <1>1 DEF LoadCount, Minimum
<1>3. \A i \in 0 .. DmaSize : Slot(i) \in 0 .. Size - 1
  BY DEF Slot, DataTypes
<1>4. ASSUME NEW i \in 0 .. DmaSize - 1
      PROVE  TxBuff[Slot(i)] \in Nat /\ txDmaBuff[i] \in Nat
  <2>1. Slot(i) \in 0 .. Size - 1
    BY <1>3
  <2> QED BY <2>1 DEF DataTypes
<1>5. txDmaBuff' \in [0 .. DmaSize - 1 -> Nat]
  BY <1>4 DEF LoadDma
<1> QED BY <1>2, <1>3, <1>5 DEF LoadDma

LEMMA SendInRange ==
  ASSUME RangeInv, NEW s \in Senders, Send(s)
  PROVE  RangeInv'
<1> USE DEF RangeInv, TypeOK
<1>1. ASSUME NEW n \in 1 .. MaxLen, SendBegin(s, n) PROVE RangeInv'
  <2>1. /\ UNCHANGED <<ring, dma, tcFlag, TxInProgress, left, accepted, walker, wire>>
        /\ irqMasked' = TRUE /\ length' = n /\ pc' = [pc EXCEPT ![s] = "empty"]
        /\ \A t \in Senders : pc[t] = "idle"
    BY <1>1 DEF SendBegin, MaskIrq, HeadHeld
  <2>2. FlagTypes'
    BY <2>1 DEF FlagTypes, dma, walker, wire
  <2>3. left = 0
    BY <2>1 DEF HeadHeld, Filling
  <2>4. DataTypes'
    BY <1>1, <2>1, <2>3 DEF SendBegin, DataTypes, ring, dma, walker, wire
  <2>5. HeadHeld'
    BY <1>1, <2>1, <2>3 DEF SendBegin, HeadHeld, DataTypes, ring
  <2> QED BY <2>2, <2>4, <2>5
<1>7. ASSUME SendRoom(s) PROVE RangeInv'
  <2>1. /\ UNCHANGED <<ring, dma, tcFlag, TxInProgress, irqMasked, uartMutex,
                       walker, requested, wire>>
        /\ pc[s] \in {"empty", "order", "ahead", "behind"}
        /\ \/ /\ UNCHANGED <<length, left, accepted>>
              /\ \E p \in {"order", "ahead", "behind"} : pc' = [pc EXCEPT ![s] = p]
           \/ \E r \in {Size - 1, RoomAhead, RoomBehind} : Clip(s, r)
    BY <1>7 DEF SendRoom, SendEmpty, SendOrder, SendClip, history
  <2>2. TxHead # Size /\ uartMutex = s
    BY <2>1 DEF HeadHeld, DataTypes
  <2>3. FlagTypes'
    BY <2>1 DEF FlagTypes, dma, walker, wire
  <2>4. CASE /\ UNCHANGED <<length, left, accepted>>
             /\ \E p \in {"order", "ahead", "behind"} : pc' = [pc EXCEPT ![s] = p]
    <3>1. DataTypes'
      BY <2>1, <2>4 DEF DataTypes, ring, dma, walker, wire
    <3>2. HeadHeld'
      BY <2>1, <2>2, <2>4 DEF HeadHeld, Filling, DataTypes, ring
    <3> QED BY <2>3, <3>1, <3>2
  <2>5. CASE \E r \in {Size - 1, RoomAhead, RoomBehind} : Clip(s, r)
    <3>1. PICK r \in Int : Clip(s, r)
      BY <2>5 DEF RoomAhead, RoomBehind, DataTypes
    <3>2. /\ left' \in Nat /\ length' = left' /\ accepted' = accepted + left'
          /\ pc' = [pc EXCEPT ![s] = "store"]
      BY <3>1 DEF Clip, Minimum, DataTypes
    <3>5. PICK a \in Nat, m \in Nat : a = accepted /\ m = left' /\ accepted' = a + m
      BY <3>2 DEF DataTypes
    <3>6. accepted' \in Nat /\ left' <= accepted'
      <4>1. a + m \in Nat /\ m <= a + m
        OBVIOUS
      <4> QED BY <3>5, <4>1
    <3>3. DataTypes'
      <4>1. pc' \in [Senders -> {"idle", "empty", "order", "ahead", "behind", "store",
                     "wrap", "unmask"}]
        BY <3>2 DEF DataTypes
      <4>2. left' \in 0 .. length' /\ length' \in Nat
        BY <3>2
      <4>3. accepted' \in Nat
        BY <3>6
      <4> QED BY <2>1, <4>1, <4>2, <4>3 DEF DataTypes, ring, dma, walker, wire
    <3>4. HeadHeld'
      <4>1. \A t \in Senders : pc'[t] = IF t = s THEN "store" ELSE pc[t]
        BY <3>2 DEF DataTypes
      <4>2. TxHead' = TxHead /\ uartMutex' = uartMutex /\ pc[s] # "idle"
        BY <2>1 DEF ring
      <4>3. (\A t \in Senders : pc[t] # "idle" <=> uartMutex = t)'
        BY <4>1, <4>2 DEF HeadHeld
      <4>4. Filling' /\ TxHead' # Size
        BY <4>1, <4>2, <2>2 DEF Filling
      <4>5. left' <= accepted'
        BY <3>6
      <4> QED BY <4>3, <4>4, <4>5 DEF HeadHeld
    <3> QED BY <2>3, <3>3, <3>4
  <2> QED BY <2>1, <2>4, <2>5
<1>2. ASSUME SpaceBegin(s) PROVE RangeInv'
  <2>1. FlagTypes'
    BY <1>2 DEF SpaceBegin, FlagTypes, MaskIrq, dma, walker, wire
  <2>2. DataTypes'
    BY <1>2 DEF SpaceBegin, DataTypes, ring, dma, walker, history, wire
  <2>3. HeadHeld'
    BY <1>2 DEF SpaceBegin, HeadHeld, Filling, DataTypes, ring, history
  <2> QED BY <2>1, <2>2, <2>3
<1>3. ASSUME SendStore(s) PROVE RangeInv'
  <2>1. uartMutex = s /\ pc[s] = "store" /\ TxHead \in 0 .. Size - 1
    BY <1>3 DEF SendStore, HeadHeld, DataTypes
  <2>2. /\ left \in Nat /\ left > 0 /\ left <= length /\ length \in Nat
        /\ left' = left - 1 /\ length' = length /\ accepted \in Nat
    BY <1>3 DEF SendStore, DataTypes
  <2>3. FlagTypes'
    BY <1>3 DEF SendStore, FlagTypes, dma, walker, wire
  <2>4. DataTypes'
    <3>1. left <= accepted
      BY DEF HeadHeld
    <3> QED BY <1>3, <2>1, <2>2, <3>1 DEF SendStore, DataTypes, dma, walker, history, wire
  <2>5. HeadHeld'
    BY <1>3, <2>1, <2>2 DEF SendStore, HeadHeld, Filling, DataTypes, history
  <2> QED BY <2>3, <2>4, <2>5
<1>4. ASSUME SendWrap(s) PROVE RangeInv'
  <2>1. uartMutex = s /\ TxHead' \in 0 .. Size - 1
    BY <1>4 DEF SendWrap, WrapHead, HeadHeld, DataTypes
  <2>2. FlagTypes'
    BY <1>4 DEF SendWrap, FlagTypes, dma, walker, wire
  <2>3. DataTypes'
    BY <1>4, <2>1 DEF SendWrap, DataTypes, dma, walker, history, wire
  <2>4. HeadHeld'
    BY <1>4, <2>1 DEF SendWrap, HeadHeld, Filling, DataTypes, history
  <2> QED BY <2>2, <2>3, <2>4
<1>5. ASSUME SendKick(s) PROVE RangeInv'
  <2>1. uartMutex = s /\ TxHead # Size
    BY <1>5 DEF SendKick, HeadHeld, DataTypes
  <2>2. TxHead' = TxHead
    BY <1>5 DEF SendKick, LoadDma, ring
  <2>3. HeadHeld'
    BY <1>5, <2>1, <2>2 DEF SendKick, HeadHeld, DataTypes, history
  <2>4. FlagTypes'
    BY <1>5 DEF SendKick, FlagTypes, StartDma, dma, walker, wire
  <2>5. CASE TxInProgress
    <3>1. DataTypes'
      BY <1>5, <2>5 DEF SendKick, DataTypes, ring, dma, walker, history, wire
    <3> QED BY <2>3, <2>4, <3>1
  <2>6. CASE ~TxInProgress
    <3>1. KickLength \in 0 .. DmaSize
      BY DEF KickLength, Minimum, DataTypes
    <3>2. LoadDma
      BY <1>5, <2>6 DEF SendKick
    <3>3. /\ TxTail' \in 0 .. Size - 1 /\ TxHead' = TxHead /\ TxBuff' = TxBuff
          /\ txDmaBuff' \in [0 .. DmaSize - 1 -> Nat]
      BY <3>2, LoadInRange
    <3>4. dmaLen' = KickLength /\ dmaPos' = 0
      BY <1>5, <2>6 DEF SendKick, StartDma
    <3>5. DataTypes'
      BY <1>5, <3>1, <3>3, <3>4 DEF SendKick, DataTypes, walker, history, wire
    <3> QED BY <2>3, <2>4, <3>5
  <2> QED BY <2>5, <2>6
<1>6. ASSUME SendEnd(s) PROVE RangeInv'
  <2>1. uartMutex = s /\ TxHead # Size
    BY <1>6 DEF SendEnd, HeadHeld, DataTypes
  <2>2. FlagTypes'
    BY <1>6 DEF SendEnd, FlagTypes, UnmaskIrq, dma, walker, wire
  <2>3. DataTypes'
    BY <1>6 DEF SendEnd, DataTypes, ring, dma, walker, history, wire
  <2>4. HeadHeld'
    BY <1>6, <2>1 DEF SendEnd, HeadHeld, Filling, DataTypes, ring, history
  <2> QED BY <2>2, <2>3, <2>4
<1> QED BY <1>1, <1>2, <1>3, <1>4, <1>5, <1>6, <1>7 DEF Send, SendStep

LEMMA HardwareInRange ==
  ASSUME RangeInv, Hardware
  PROVE  RangeInv'
<1> USE DEF RangeInv, TypeOK
<1>1. ASSUME DmaByte PROVE RangeInv'
  <2>1. FlagTypes'
    BY <1>1 DEF DmaByte, FlagTypes, walker
  <2>2. DataTypes'
    BY <1>1 DEF DmaByte, DataTypes, ring, call, walker, history
  <2>3. HeadHeld'
    BY <1>1 DEF DmaByte, HeadHeld, Filling, ring, call, history
  <2> QED BY <2>1, <2>2, <2>3
<1>2. ASSUME DmaIsr PROVE RangeInv'
  <2>1. TxHead' = TxHead
    BY <1>2 DEF DmaIsr, LoadDma, ring
  <2>2. HeadHeld'
    BY <1>2, <2>1 DEF DmaIsr, HeadHeld, Filling, call, history
  <2>3. FlagTypes'
    BY <1>2 DEF DmaIsr, FlagTypes, GoIdle, StartDma, dma, walker, wire
  <2>4. CASE RingEmpty
    <3>1. DataTypes'
      BY <1>2, <2>4 DEF DmaIsr, DataTypes, ring, dma, call, walker, history, wire
    <3> QED BY <2>2, <2>3, <3>1
  <2>5. CASE ~RingEmpty
    <3>1. LoadDma
      BY <1>2, <2>5 DEF DmaIsr
    <3>2. /\ LoadCount \in 0 .. DmaSize /\ TxTail' \in 0 .. Size - 1
          /\ TxHead' = TxHead /\ TxBuff' = TxBuff
          /\ txDmaBuff' \in [0 .. DmaSize - 1 -> Nat]
      BY <3>1, LoadInRange
    <3>3. dmaLen' = LoadCount /\ dmaPos' = 0
      BY <1>2, <2>5 DEF DmaIsr, StartDma
    <3>4. DataTypes'
      BY <1>2, <3>2, <3>3 DEF DmaIsr, DataTypes, call, walker, history, wire
    <3> QED BY <2>2, <2>3, <3>4
  <2> QED BY <2>4, <2>5
<1> QED BY <1>1, <1>2 DEF Hardware

LEMMA WalkInRange ==
  ASSUME RangeInv, HeapWalk \/ UNCHANGED vars
  PROVE  RangeInv'
<1> USE DEF RangeInv, TypeOK
<1>1. /\ UNCHANGED <<ring, dma, tcFlag, TxInProgress, call, history, wire>>
      /\ irqMasked' \in {irqMasked, FALSE} /\ suspended' \in {suspended, TRUE, FALSE}
      /\ walks' \in {walks, walks + 1} /\ opened' \in {opened, opened \/ Pinned}
  <2> USE DEF PollUnmask, UnmaskIrq, walker
  <2>1. CASE UNCHANGED vars
    BY <2>1 DEF vars
  <2>2. CASE WalkBegin
    BY <2>2 DEF WalkBegin
  <2>3. CASE WalkPoll
    BY <2>3 DEF WalkPoll
  <2>4. CASE WalkEnd
    BY <2>4 DEF WalkEnd
  <2> QED BY <2>1, <2>2, <2>3, <2>4 DEF HeapWalk
<1>2. FlagTypes'
  BY <1>1 DEF FlagTypes, dma, wire
<1>3. DataTypes'
  BY <1>1 DEF DataTypes, ring, dma, call, history, wire
<1>4. HeadHeld'
  BY <1>1 DEF HeadHeld, Filling, ring, call, history
<1> QED BY <1>2, <1>3, <1>4

(* Whatever the walks of umm_info do to the mask, head and tail stay in    *)
(* the ring and a transfer in its buffer (debugUart.c 68, 101 and 176).    *)
THEOREM TypingWithWalks == Spec => []TypeOK
<1>1. Init => RangeInv
  <2>1. Init => HeadHeld
    BY DEF Init, HeadHeld
  <2> QED BY <2>1, InitIInv DEF IInv, RangeInv
<1>2. RangeInv /\ [Next]_vars => RangeInv'
  BY SendInRange, HardwareInRange, WalkInRange DEF Next, NextTasks
<1>3. RangeInv => TypeOK
  BY DEF RangeInv
<1> QED BY <1>1, <1>2, <1>3, PTL DEF Spec

(* A walk leaves the invariant alone when it enables the interrupt while   *)
(* nobody is pinned.                                                       *)
LEMMA WalkIInv ==
  ASSUME IInv, HeapWalk, ~opened'
  PROVE  IInv'
<1> USE DEF IInv, TypeOK
<1>1. /\ UNCHANGED <<ring, dma, tcFlag, TxInProgress, call, history, wire>>
      /\ irqMasked' = irqMasked \/ (irqMasked' = FALSE /\ ~Pinned)
      /\ irqMasked' \in BOOLEAN /\ suspended' \in BOOLEAN
      /\ walks' \in {walks, walks + 1} /\ opened' = FALSE
  <2> USE DEF PollUnmask, UnmaskIrq, FlagTypes
  <2>1. CASE WalkBegin
    BY <2>1 DEF WalkBegin
  <2>2. CASE WalkPoll
    BY <2>2 DEF WalkPoll
  <2>3. CASE WalkEnd
    BY <2>3 DEF WalkEnd
  <2> QED BY <2>1, <2>2, <2>3 DEF HeapWalk
<1>2. /\ InRing' = InRing /\ InDma' = InDma /\ Filling' = Filling
      /\ Pinned' = Pinned /\ \A i \in Nat : Slot(i)' = Slot(i)
  BY <1>1 DEF InRing, Head, InDma, Slot, Filling, Pinned, ring, dma, call
<1>3. FlagTypes'
  BY <1>1 DEF FlagTypes, dma, wire
<1>4. DataTypes'
  BY <1>1 DEF DataTypes, ring, dma, call, history, wire
<1>5. Locking' /\ Measured'
  BY <1>1, <1>2 DEF Locking, Measured, ring, call
<1>6. NothingLost' /\ RingContents'
  BY <1>1, <1>2 DEF NothingLost, RingContents, ring, call, history, wire
<1>7. DmaContents' /\ FifoOrder'
  BY <1>1 DEF DmaContents, FifoOrder, dma, wire
<1>8. Busy'
  BY <1>1, <1>2 DEF Busy, dma, call
<1> QED BY <1>3, <1>4, <1>5, <1>6, <1>7, <1>8

(* The FIFO survives every behaviour with walks in which none enables the  *)
(* interrupt between a sender's lines 85 and 137: what line 68 lets in is  *)
(* the only thing that breaks it.                                          *)
THEOREM FifoUnderWalks == Spec => []WalksKeepFifo
<1> DEFINE Kept == ~opened => IInv
<1>1. Init => Kept
  BY InitIInv
<1>2. Kept /\ [Next]_vars => Kept'
  <2> SUFFICES ASSUME Kept, [Next]_vars, ~opened' PROVE IInv'
    OBVIOUS
  <2>1. CASE NextTasks \/ UNCHANGED vars
    <3>1. opened' = opened
      BY <2>1
      DEF NextTasks, Send, SendBegin, SpaceBegin, SendStep, SendRoom, SendEmpty,
          SendOrder, SendClip, SendStore, SendWrap, SendKick, SendEnd, Hardware,
          DmaByte, DmaIsr, walker, vars
    <3> QED BY <2>1, <3>1, NextIInv
  <2>2. CASE HeapWalk
    <3>1. ~opened
      BY <2>2 DEF HeapWalk, WalkBegin, WalkPoll, WalkEnd
    <3> QED BY <2>2, <3>1, WalkIInv
  <2> QED BY <2>1, <2>2 DEF Next
<1>3. Kept => WalksKeepFifo
  BY IInvFifoSound DEF WalksKeepFifo
<1> QED BY <1>1, <1>2, <1>3, PTL DEF Spec
=============================================================================
