--------------------------- MODULE EthernetProofs ---------------------------
(***************************************************************************)
(* The transmit ring of the Ethernet driver, for every number of           *)
(* descriptors: whoever gets the semaphore finds a free descriptor.        *)
(***************************************************************************)
EXTENDS Ethernet, TLAPS

Steps == {"idle", "load", "own", "advance"}
Descriptor == [own : BOOLEAN, buf : Buffers \cup {NoBuffer}]
RingTypes ==
  /\ tx \in [0 .. NTx - 1 -> Descriptor]
  /\ TxDesc \in 0 .. NTx - 1 /\ dmaTx \in 0 .. NTx - 1
  /\ DMATxDescToClear \in 0 .. NTx - 1 /\ TxSemaphore \in 0 .. NTx
  /\ out \in Steps /\ sending \in Buffers \cup {NoBuffer}

(* uxCount counts the descriptors taken: those from DMATxDescToClear on,   *)
(* the last of which a call under way has still to fill and pass.          *)
Last == IF out = "idle" THEN uxCount ELSE uxCount - 1
Filled == IF out = "load" THEN uxCount - 1 ELSE uxCount

Empty == [own |-> FALSE, buf |-> NoBuffer]
EmptyFrom(n) == \A k \in n .. NTx - 1 : tx[TxPlace(DMATxDescToClear, k)] = Empty
TxInv ==
  /\ RingTypes
  /\ out # "idle" => uxCount > 0
  /\ TxDesc = TxPlace(DMATxDescToClear, Last)
  /\ EmptyFrom(Filled)

-----------------------------------------------------------------------------
(* Positions of the ring are all different.                                *)
LEMMA Positions ==
  ASSUME NEW d \in 0 .. NTx - 1, NEW j \in 0 .. NTx - 1, NEW k \in 0 .. NTx - 1
  PROVE  TxPlace(d, j) \in 0 .. NTx - 1 /\ (TxPlace(d, j) = TxPlace(d, k) => j = k)
BY SizeAssumption DEF TxPlace

(* Going on from a place is going further from the first.                  *)
LEMMA Onwards ==
  ASSUME NEW d \in 0 .. NTx - 1, NEW n \in 0 .. NTx, NEW k \in 0 .. NTx
  PROVE  /\ TxPlace(d, n) \in 0 .. NTx - 1
         /\ n + k <= NTx => TxPlace(TxPlace(d, n), k) = TxPlace(d, n + k)
         /\ n + k >= NTx => TxPlace(TxPlace(d, n), k) = TxPlace(d, n + k - NTx)
BY SizeAssumption DEF TxPlace

(* A descriptor with one field changed.                                    *)
LEMMA Fields ==
  ASSUME NEW r \in Descriptor, NEW v
  PROVE  /\ [r EXCEPT !.own = v] = [own |-> v, buf |-> r.buf]
         /\ [r EXCEPT !.buf = v] = [own |-> r.own, buf |-> v]
BY DEF Descriptor

LEMMA InitTxInv == Init => TxInv
<1> SUFFICES ASSUME Init PROVE TxInv
  OBVIOUS
<1> USE SizeAssumption
<1>1. tx = [d \in 0 .. NTx - 1 |-> Empty] /\ Empty \in Descriptor
  BY DEF Init, Descriptor, Empty
<1>2. RingTypes
  <2>1. tx \in [0 .. NTx - 1 -> Descriptor]
    BY <1>1
  <2>2. TxDesc = 0 /\ dmaTx = 0 /\ DMATxDescToClear = 0 /\ TxSemaphore = NTx
        /\ out = "idle" /\ sending = NoBuffer
    BY DEF Init
  <2>3. 0 \in 0 .. NTx - 1 /\ NTx \in 0 .. NTx
    OBVIOUS
  <2> QED BY <2>1, <2>2, <2>3 DEF RingTypes, Steps
<1>3. uxCount = 0 /\ out = "idle" /\ TxDesc = TxPlace(DMATxDescToClear, 0)
  BY DEF Init, uxCount, TxPlace
<1>4. EmptyFrom(0)
  BY <1>1, <1>2, Positions DEF EmptyFrom, RingTypes
<1> QED BY <1>2, <1>3, <1>4 DEF TxInv, Last, Filled

(* Steps that leave the ring, the semaphore and the call alone.            *)
LEMMA OthersTxInv ==
  ASSUME TxInv, UNCHANGED <<tx, TxDesc, dmaTx, DMATxDescToClear, TxSemaphore, out, sending>>
  PROVE  TxInv'
BY DEF TxInv, RingTypes, Last, Filled, EmptyFrom, uxCount

(* Giving a descriptor back does not fill it.                              *)
LEMMA DmaSendTxInv == ASSUME TxInv, DmaSend PROVE TxInv'
<1> USE SizeAssumption DEF TxInv
<1>1. tx' = [tx EXCEPT ![dmaTx].own = FALSE] /\ dmaTx' = NextTx(dmaTx)
      /\ UNCHANGED <<TxDesc, DMATxDescToClear, TxSemaphore, out, sending>>
  BY DEF DmaSend, output
<1>2. tx' = [tx EXCEPT ![dmaTx] = [own |-> FALSE, buf |-> tx[dmaTx].buf]]
      /\ tx[dmaTx].buf \in Buffers \cup {NoBuffer}
  <2>1. tx[dmaTx] \in Descriptor
    BY DEF RingTypes
  <2>2. [tx[dmaTx] EXCEPT !.own = FALSE] = [own |-> FALSE, buf |-> tx[dmaTx].buf]
    BY <2>1, Fields
  <2> QED BY <1>1, <2>1, <2>2 DEF Descriptor
<1>3. RingTypes'
  <2>1. dmaTx' \in 0 .. NTx - 1
    BY <1>1 DEF NextTx, RingTypes
  <2>2. tx' \in [0 .. NTx - 1 -> Descriptor]
    BY <1>2 DEF RingTypes, Descriptor
  <2> QED BY <1>1, <2>1, <2>2 DEF RingTypes
<1>4. uxCount' = uxCount /\ Last' = Last /\ Filled' = Filled
  BY <1>1 DEF uxCount, Last, Filled
<1>5. ASSUME NEW d \in 0 .. NTx - 1, tx[d] = Empty PROVE tx'[d] = Empty
  <2>1. tx \in [0 .. NTx - 1 -> Descriptor]
    BY DEF RingTypes
  <2>2. CASE d = dmaTx
    <3>1. tx'[d] = [own |-> FALSE, buf |-> tx[d].buf]
      BY <1>2, <2>1, <2>2
    <3>2. tx[d].buf = NoBuffer
      BY <1>5 DEF Empty
    <3> QED BY <3>1, <3>2 DEF Empty
  <2>3. CASE d # dmaTx
    BY <1>2, <1>5, <2>1, <2>3
  <2> QED BY <2>2, <2>3
<1>6. Filled \in Nat
  BY DEF RingTypes, uxCount, Filled
<1>7. EmptyFrom(Filled)'
  BY <1>1, <1>4, <1>5, <1>6, Positions DEF EmptyFrom, RingTypes
<1> QED BY <1>1, <1>3, <1>4, <1>7

(* The descriptor that is taken was empty, and TxDesc is its place.        *)
LEMMA OutputTakeTxInv == ASSUME TxInv, NEW b \in Buffers, OutputTake(b) PROVE TxInv'
<1> USE SizeAssumption DEF TxInv
<1>1. /\ out = "idle" /\ out' = "load" /\ sending' = b
      /\ TxSemaphore > 0 /\ TxSemaphore' = TxSemaphore - 1
      /\ UNCHANGED <<tx, TxDesc, dmaTx, DMATxDescToClear>>
  BY DEF OutputTake
<1>2. RingTypes'
  BY <1>1 DEF RingTypes, Steps
<1>3. uxCount' = uxCount + 1 /\ uxCount \in Nat
  BY <1>1 DEF RingTypes, uxCount
<1>4. Last' = Last /\ Filled' = Filled
  BY <1>1, <1>3 DEF Last, Filled
<1>5. EmptyFrom(Filled)'
  BY <1>1, <1>4 DEF EmptyFrom
<1> QED BY <1>1, <1>2, <1>3, <1>4, <1>5

(* Load and own write only where the taken descriptor is.                  *)
LEMMA OutputStepTxInv ==
  ASSUME TxInv, OutputLoad \/ OutputOwn \/ OutputAdvance
  PROVE  TxInv'
<1> USE SizeAssumption DEF TxInv
<1>1. /\ out \in {"load", "own", "advance"} /\ out' \in Steps
      /\ UNCHANGED <<dmaTx, DMATxDescToClear, TxSemaphore>>
  BY DEF OutputLoad, OutputOwn, OutputAdvance, OutputStep, Steps
<1>2. uxCount' = uxCount /\ uxCount \in 1 .. NTx /\ Last = uxCount - 1
  BY <1>1 DEF RingTypes, uxCount, Last
<1>3. TxDesc = TxPlace(DMATxDescToClear, uxCount - 1) /\ uxCount - 1 \in 0 .. NTx - 1
  BY <1>2
<1>4. CASE OutputLoad \/ OutputOwn
  <2>1. /\ out' \in {"own", "advance"} /\ TxDesc' = TxDesc
        /\ sending' = sending \/ sending' = NoBuffer
    BY <1>4 DEF OutputLoad, OutputOwn, OutputStep
  <2>2. PICK r \in Descriptor : tx' = [tx EXCEPT ![TxDesc] = r]
    <3>1. tx[TxDesc] \in Descriptor /\ sending \in Buffers \cup {NoBuffer}
      BY DEF RingTypes
    <3>2. CASE OutputLoad
      <4>1. [tx[TxDesc] EXCEPT !.buf = sending] = [own |-> tx[TxDesc].own, buf |-> sending]
        BY <3>1, Fields
      <4>2. [own |-> tx[TxDesc].own, buf |-> sending] \in Descriptor
        BY <3>1 DEF Descriptor
      <4> QED BY <3>2, <4>1, <4>2 DEF OutputLoad
    <3>3. CASE OutputOwn
      <4>1. [tx[TxDesc] EXCEPT !.own = TRUE] = [own |-> TRUE, buf |-> tx[TxDesc].buf]
        BY <3>1, Fields
      <4>2. [own |-> TRUE, buf |-> tx[TxDesc].buf] \in Descriptor
        BY <3>1 DEF Descriptor
      <4> QED BY <3>3, <4>1, <4>2 DEF OutputOwn
    <3> QED BY <1>4, <3>2, <3>3
  <2>3. RingTypes'
    BY <1>1, <2>1, <2>2 DEF RingTypes
  <2>4. Last' = Last /\ Filled' = uxCount /\ uxCount >= Filled /\ Filled \in Nat
    BY <1>1, <1>2, <2>1 DEF Last, Filled
  <2>5. ASSUME NEW k \in uxCount .. NTx - 1
        PROVE  tx'[TxPlace(DMATxDescToClear, k)] = Empty
    <3>1. k \in 0 .. NTx - 1 /\ k # uxCount - 1 /\ k \in Filled .. NTx - 1
      BY <1>2, <2>4
    <3>2. /\ TxPlace(DMATxDescToClear, k) \in 0 .. NTx - 1
          /\ TxPlace(DMATxDescToClear, k) # TxDesc
      BY <1>3, <3>1, Positions DEF RingTypes
    <3>3. tx[TxPlace(DMATxDescToClear, k)] = Empty
      BY <3>1 DEF EmptyFrom
    <3> QED BY <2>2, <3>2, <3>3 DEF RingTypes
  <2>6. EmptyFrom(Filled)'
    BY <1>1, <2>4, <2>5 DEF EmptyFrom
  <2> QED BY <1>1, <1>2, <2>1, <2>3, <2>4, <2>6
<1>5. CASE OutputAdvance
  <2>1. out = "advance" /\ out' = "idle" /\ TxDesc' = NextTx(TxDesc) /\ UNCHANGED <<tx, sending>>
    BY <1>5 DEF OutputAdvance, OutputStep
  <2>2. NextTx(TxDesc) = TxPlace(DMATxDescToClear, uxCount) /\ NextTx(TxDesc) \in 0 .. NTx - 1
    BY <1>2, <1>3 DEF NextTx, TxPlace, RingTypes
  <2>3. RingTypes'
    BY <1>1, <2>1, <2>2 DEF RingTypes
  <2>4. Last' = uxCount /\ Filled' = Filled
    BY <1>2, <2>1 DEF Last, Filled
  <2>5. EmptyFrom(Filled)'
    BY <1>1, <2>1, <2>4 DEF EmptyFrom
  <2> QED BY <1>1, <2>1, <2>2, <2>3, <2>4, <2>5
<1> QED BY <1>4, <1>5

(* vClearTXBuffers stops before the descriptor of a call under way, and    *)
(* what it has passed is empty.                                            *)
LEMMA ClearTxInv ==
  ASSUME TxInv, NEW n \in 0 .. uxCount, Clear(n), UNCHANGED <<TxDesc, dmaTx, out, sending>>
  PROVE  TxInv'
<1> USE SizeAssumption DEF TxInv
<1> DEFINE c == DMATxDescToClear
           cleared == {TxPlace(c, i) : i \in 0 .. n - 1}
<1>1. /\ \A i \in 0 .. n - 1 : Passes(i)
      /\ tx' = [d \in DOMAIN tx |-> IF d \in cleared THEN [tx[d] EXCEPT !.buf = NoBuffer] ELSE tx[d]]
      /\ c' = TxPlace(c, n) /\ TxSemaphore' = TxSemaphore + n
  BY DEF Clear, ToClear
<1>2. uxCount \in 0 .. NTx /\ c \in 0 .. NTx - 1 /\ n \in 0 .. NTx /\ n <= uxCount
  BY DEF RingTypes, uxCount
<1> HIDE DEF c
<1>3. uxCount' = uxCount - n /\ TxSemaphore' \in 0 .. NTx
  BY <1>1, <1>2 DEF uxCount, RingTypes
<1>4. out # "idle" => n < uxCount
  <2> SUFFICES ASSUME out # "idle", n = uxCount PROVE FALSE
    BY <1>2
  <2>1. uxCount - 1 \in 0 .. n - 1 /\ ToClear(uxCount - 1) = TxDesc
    BY <1>2 DEF Last, ToClear
  <2>2. uxCount - (uxCount - 1) = NTx
    BY <1>1, <2>1 DEF Passes
  <2> QED BY <1>2, <2>2
<1>5. ASSUME NEW d \in 0 .. NTx - 1
      PROVE  /\ tx[d] \in Descriptor
             /\ tx'[d] = IF d \in cleared THEN [own |-> tx[d].own, buf |-> NoBuffer] ELSE tx[d]
  <2>1. tx[d] \in Descriptor /\ d \in DOMAIN tx
    BY DEF RingTypes
  <2> QED BY <1>1, <2>1, Fields
<1>6. RingTypes'
  <2>1. c' \in 0 .. NTx - 1
    BY <1>1, <1>2, Onwards
  <2>2. DOMAIN tx = 0 .. NTx - 1
    BY DEF RingTypes
  <2>3. ASSUME NEW d \in 0 .. NTx - 1 PROVE tx'[d] \in Descriptor
    <3>1. [own |-> tx[d].own, buf |-> NoBuffer] \in Descriptor
      BY <1>5 DEF Descriptor
    <3> QED BY <1>5, <3>1
  <2>4. tx' \in [0 .. NTx - 1 -> Descriptor]
    BY <1>1, <2>2, <2>3
  <2> QED BY <1>3, <2>1, <2>4 DEF RingTypes, c
<1>7. Last' = Last - n /\ Filled' = Filled - n /\ Filled >= n /\ Last >= n /\ Last <= NTx
      /\ Filled \in Nat /\ Last \in Nat
  BY <1>2, <1>3, <1>4 DEF Last, Filled
<1>8. TxDesc' = TxPlace(c', Last')
  <2>1. TxPlace(TxPlace(c, n), Last - n) = TxPlace(c, n + (Last - n))
    BY <1>2, <1>7, Onwards
  <2> QED BY <1>1, <1>7, <2>1 DEF c
<1>9. ASSUME NEW k \in Filled' .. NTx - 1 PROVE tx'[TxPlace(c', k)] = Empty
  <2>1. k \in 0 .. NTx - 1
    BY <1>2, <1>7
  <2>2. CASE k + n <= NTx - 1
    <3>1. n + k \in Filled .. NTx - 1 /\ k \in 0 .. NTx /\ n + k <= NTx
      BY <1>2, <1>7, <2>1, <2>2
    <3>4. TxPlace(c', k) = TxPlace(c, n + k)
      BY <1>1, <1>2, <3>1, Onwards
    <3>2. tx[TxPlace(c, n + k)] = Empty /\ TxPlace(c, n + k) \in 0 .. NTx - 1
      BY <1>2, <1>7, <3>1, Positions DEF EmptyFrom, c
    <3>3. tx'[TxPlace(c, n + k)] = Empty
      <4>1. [own |-> Empty.own, buf |-> NoBuffer] = Empty
        BY DEF Empty
      <4> QED BY <1>5, <3>2, <4>1
    <3> QED BY <3>3, <3>4
  <2>3. CASE k + n > NTx - 1
    <3>1. TxPlace(c', k) = TxPlace(c, n + k - NTx) /\ n + k - NTx \in 0 .. n - 1
      BY <1>1, <1>2, <2>1, <2>3, Onwards
    <3>2. TxPlace(c, n + k - NTx) \in cleared /\ ~tx[TxPlace(c, n + k - NTx)].own
      BY <1>1, <3>1 DEF Passes, ToClear, c
    <3>3. TxPlace(c, n + k - NTx) \in 0 .. NTx - 1
      BY <1>2, <3>1, Positions
    <3> QED BY <1>5, <3>1, <3>2, <3>3 DEF Descriptor, Empty
  <2> QED BY <1>2, <2>1, <2>2, <2>3
<1>10. EmptyFrom(Filled)'
  BY <1>9 DEF EmptyFrom, c
<1>11. out' # "idle" => uxCount' > 0
  BY <1>2, <1>3, <1>4
<1> QED BY <1>6, <1>8, <1>10, <1>11 DEF c

(* Every step of the driver and its environment keeps the invariant.       *)
LEMMA NextTxInv == TxInv /\ [Next]_vars => TxInv'
<1> SUFFICES ASSUME TxInv, [Next]_vars PROVE TxInv'
  OBVIOUS
<1> USE DEF txRing, output, buffers
<1>1. CASE UNCHANGED vars
  BY <1>1, OthersTxInv DEF vars
<1>2. CASE DmaSend
  BY <1>2, DmaSendTxInv
<1>3. CASE ETH_IRQHandler
  BY <1>3, OthersTxInv DEF ETH_IRQHandler
<1>4. ASSUME NEW ours \in BOOLEAN, FrameArrives(ours) PROVE TxInv'
  BY <1>4, OthersTxInv DEF FrameArrives
<1>5. CASE TestRx \/ TestTx
  BY <1>5, OthersTxInv DEF TestRx, TestTx, Test
<1>6. CASE ClearRx \/ ClearTx
  BY <1>6, OthersTxInv DEF ClearRx, ClearTx
<1>7. CASE InputRefuse \/ InputAccept \/ InputDrop
  BY <1>7, OthersTxInv DEF InputRefuse, InputAccept, InputDrop, Dispose
<1>8. ASSUME NEW sent \in BOOLEAN, InputPass(sent) PROVE TxInv'
  BY <1>8, OthersTxInv DEF InputPass
<1>9. CASE vClearTXBuffers
  <2>1. PICK n \in 0 .. uxCount : Clear(n)
    BY <1>9 DEF vClearTXBuffers
  <2>2. UNCHANGED <<TxDesc, dmaTx, out, sending>>
    BY <1>9 DEF vClearTXBuffers
  <2> QED BY <2>1, <2>2, ClearTxInv
<1>10. ASSUME NEW up \in BOOLEAN, CheckLink(up) PROVE TxInv'
  BY <1>10, OthersTxInv DEF CheckLink
<1>11. CASE Output
  BY <1>11, OutputStepTxInv DEF Output
<1>12. CASE GetBuffer \/ TakeChain
  BY <1>12, OthersTxInv DEF GetBuffer, TakeChain
<1>13. ASSUME NEW b \in Buffers, ReleaseBuffer(b) PROVE TxInv'
  BY <1>13, OthersTxInv DEF ReleaseBuffer
<1>14. ASSUME NEW b \in Buffers, OutputTake(b) PROVE TxInv'
  BY <1>14, OutputTakeTxInv
<1> QED
  BY <1>1, <1>2, <1>3, <1>4, <1>5, <1>6, <1>7, <1>8, <1>9, <1>10, <1>11, <1>12, <1>13, <1>14
  DEF Next, EmacTask

(* The configASSERT of xNetworkInterfaceOutput (line 681) never fires, for *)
(* any number of descriptors, buffers and packets: neither vClearTXBuffers *)
(* nor the DMA between its steps can make the count of the semaphore and   *)
(* the places TxDesc and DMATxDescToClear disagree.                        *)
THEOREM TakenFree == Spec => []TakenIsFree
<1>1. TxInv => TakenIsFree
  <2> SUFFICES ASSUME TxInv, out = "load" PROVE tx[TxDesc] = Empty
    BY DEF TakenIsFree, Empty
  <2>1. uxCount - 1 \in Filled .. NTx - 1 /\ TxDesc = TxPlace(DMATxDescToClear, uxCount - 1)
    BY SizeAssumption DEF TxInv, RingTypes, uxCount, Last, Filled
  <2> QED BY <2>1 DEF TxInv, EmptyFrom
<1> QED BY <1>1, InitTxInv, NextTxInv, PTL DEF Spec
=============================================================================
