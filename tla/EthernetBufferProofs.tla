------------------------ MODULE EthernetBufferProofs ------------------------
(***************************************************************************)
(* The network buffers of the Ethernet driver, for every number of them:   *)
(* each is in one place, and the packets leave in the order of the calls.  *)
(***************************************************************************)
EXTENDS EthernetProofs, SequenceTheorems, FiniteSetTheorems

RxDescriptor == [own : BOOLEAN, buf : Buffers, ours : BOOLEAN]
BufferTypes ==
  /\ RxDesc \in 0 .. NRx - 1 /\ dmaRx \in 0 .. NRx - 1
  /\ rx \in [0 .. NRx - 1 -> RxDescriptor]
  /\ free \subseteq Buffers /\ held \subseteq Buffers
  /\ pxNew \in Buffers \cup {NoBuffer}
  /\ chain \in Seq(Buffers) /\ queue \in Seq(Seq(Buffers))

(* The receive ring: w descriptors from RxDesc on hold frames that wait,   *)
(* the DMA fills the next one.  The first frame for us makes all that wait *)
(* behind it frames for us, as does a new buffer not yet put in the ring.  *)
RxPlace(d, i) == IF d + i < NRx THEN d + i ELSE d + i - NRx
Waits(i) == rx[RxPlace(RxDesc, i)]
Waiting(w) ==
  /\ dmaRx = RxPlace(RxDesc, w)
  /\ \A i \in 0 .. NRx - 1 : Waits(i).own <=> i >= w
  /\ \A i, j \in 0 .. NRx - 1 : i <= j /\ j < w /\ Waits(i).ours => Waits(j).ours
  /\ pxNew # NoBuffer => \A i \in 0 .. NRx - 1 : i < w => Waits(i).ours
RxInv ==
  /\ \E w \in 0 .. NRx : Waiting(w)
  /\ pxNew # NoBuffer => emac = "input"

(* The places a buffer can be in, and that it is in one of them only.      *)
InRx(b) == \E d \in 0 .. NRx - 1 : rx[d].buf = b
InTx(b) == \E d \in 0 .. NTx - 1 : tx[d].buf = b
InQueue(b) == \E i \in 1 .. Len(queue) : b \in Range(queue[i])
InChain(b) == b \in Range(chain)
InCall(b) == b = sending /\ out = "load"
Kinds == {"rx", "tx", "queue", "chain", "call", "free", "held"}
Placed(b, k) ==
  /\ InRx(b) <=> k = "rx"
  /\ InTx(b) <=> k = "tx"
  /\ InQueue(b) <=> k = "queue"
  /\ InChain(b) <=> k = "chain"
  /\ InCall(b) <=> k = "call"
  /\ b \in free <=> k = "free"
  /\ b \in held <=> k = "held"
OnePlace == \A b \in Buffers : \E k \in Kinds : Placed(b, k)
RxDistinct == \A d, e \in 0 .. NRx - 1 : rx[d].buf = rx[e].buf => d = e
TxDistinct ==
  \A d, e \in 0 .. NTx - 1 : tx[d].buf = tx[e].buf /\ tx[d].buf # NoBuffer => d = e
QueueDistinct ==
  \A i, j \in 1 .. Len(queue) : Range(queue[i]) \cap Range(queue[j]) # {} => i = j
PlacesInv == OnePlace /\ RxDistinct /\ TxDistinct /\ QueueDistinct

BufferInv == TxInv /\ BufferTypes /\ RxInv /\ PlacesInv

(* The transmit ring from the DMA's side: p descriptors from dmaTx on are  *)
(* the DMA's, and hold the packets that follow those sent.                 *)
NextFilled == IF out = "advance" THEN NextTx(TxDesc) ELSE TxDesc
Pending(p) ==
  /\ NextFilled = TxPlace(dmaTx, p)
  /\ \A i \in 0 .. NTx - 1 : tx[TxPlace(dmaTx, i)].own <=> i < p
  /\ \A i \in 0 .. NTx - 1 : i < p => Numbered(tx[TxPlace(dmaTx, i)].buf) = Len(line) + 1 + i
  /\ out \in {"load", "own"} => p < NTx
  /\ accepted = Len(line) + p + (IF out \in {"load", "own"} THEN 1 ELSE 0)
OrderInv ==
  /\ line \in Seq(Nat) /\ LineInOrder
  /\ packet \in [Buffers -> Nat] /\ accepted \in Nat
  /\ \E p \in 0 .. NTx : Pending(p)
  /\ out = "load" => Numbered(sending) = accepted
  /\ out = "own" => Numbered(tx[TxDesc].buf) = accepted
  /\ out = "load" => sending \in Buffers
-----------------------------------------------------------------------------
(* The least element of a set of numbers, which pxGetNetworkBuffer... of   *)
(* the model takes off the free list.                                      *)
LEMMA LeastOf ==
  ASSUME NEW S \in SUBSET Nat, S # {}
  PROVE  Min(S) \in S /\ \A y \in S : Min(S) <= y
<1> DEFINE T == {0 .. n : n \in S}
<1>1. T \subseteq FiniteSubsetsOf(Nat) /\ T # {}
  <2>1. ASSUME NEW n \in S PROVE 0 .. n \in FiniteSubsetsOf(Nat)
    <3>1. IsFiniteSet(0 .. n)
      BY FS_Interval
    <3> QED BY <3>1 DEF FiniteSubsetsOf
  <2> QED BY <2>1
<1>2. PICK X \in T : \A Y \in T : <<Y, X>> \notin StrictSubsetOrdering(Nat)
  BY <1>1, FS_StrictSubsetOrderingWellFounded, WFMin
<1>3. PICK x \in S : X = 0 .. x
  OBVIOUS
<1>4. ASSUME NEW y \in S PROVE x <= y
  <2>1. <<0 .. y, X>> \notin StrictSubsetOrdering(Nat)
    BY <1>2
  <2>2. ~(0 .. y \subseteq X /\ 0 .. y # X)
    BY <1>1, <2>1 DEF StrictSubsetOrdering, FiniteSubsetsOf
  <2> QED BY <1>3, <2>2
<1> QED BY <1>4 DEF Min

LEMMA FirstFree == ASSUME BufferTypes, free # {} PROVE Min(free) \in free
BY LeastOf, SizeAssumption DEF BufferTypes, Buffers

(* Positions of the receive ring, and the step to the next.                *)
LEMMA RxPositions ==
  ASSUME NEW d \in 0 .. NRx - 1, NEW j \in 0 .. NRx - 1, NEW k \in 0 .. NRx - 1
  PROVE  RxPlace(d, j) \in 0 .. NRx - 1 /\ (RxPlace(d, j) = RxPlace(d, k) => j = k)
BY SizeAssumption DEF RxPlace

LEMMA RxNext ==
  ASSUME NEW d \in 0 .. NRx - 1, NEW i \in 0 .. NRx - 1
  PROVE  /\ NextRx(d) \in 0 .. NRx - 1 /\ RxPlace(d, 0) = d
         /\ RxPlace(d, i) \in 0 .. NRx - 1
         /\ NextRx(RxPlace(d, i)) = RxPlace(d, i + 1)
         /\ i < NRx - 1 => RxPlace(NextRx(d), i) = RxPlace(d, i + 1)
         /\ RxPlace(NextRx(d), i) = RxPlace(d, i + 1) \/ i = NRx - 1
         /\ RxPlace(NextRx(d), NRx - 1) = d
BY SizeAssumption DEF RxPlace, NextRx

LEMMA InitBuffers == Init => BufferTypes /\ RxInv /\ PlacesInv
<1> SUFFICES ASSUME Init PROVE BufferTypes /\ RxInv /\ PlacesInv
  OBVIOUS
<1> USE SizeAssumption
<1>1. /\ rx = [d \in 0 .. NRx - 1 |-> [own |-> TRUE, buf |-> d + 1, ours |-> FALSE]]
      /\ tx = [d \in 0 .. NTx - 1 |-> [own |-> FALSE, buf |-> NoBuffer]]
      /\ RxDesc = 0 /\ dmaRx = 0 /\ pxNew = NoBuffer /\ chain = <<>> /\ queue = <<>>
      /\ free = NRx + 1 .. NBuffers /\ held = {} /\ out = "idle"
  BY DEF Init
<1>2. ASSUME NEW d \in 0 .. NRx - 1
      PROVE  rx[d] \in RxDescriptor /\ rx[d].own = TRUE /\ rx[d].buf = d + 1
  BY <1>1 DEF RxDescriptor, Buffers
<1>3. BufferTypes
  <2>1. rx \in [0 .. NRx - 1 -> RxDescriptor]
    BY <1>1, <1>2
  <2>2. 0 \in 0 .. NRx - 1 /\ free \subseteq Buffers /\ held \subseteq Buffers
    BY <1>1 DEF Buffers
  <2> QED BY <1>1, <2>1, <2>2 DEF BufferTypes
<1>4. RxInv
  <2>1. Waiting(0)
    BY <1>1, <1>2, RxPositions DEF Waiting, Waits, RxPlace
  <2> QED BY <1>1, <2>1 DEF RxInv
<1>5. RxDistinct
  <2>1. \A d \in 0 .. NRx - 1 : rx[d].buf = d + 1
    BY <1>2
  <2> QED BY <2>1 DEF RxDistinct
<1>6. ASSUME NEW d \in 0 .. NTx - 1 PROVE tx[d].buf = NoBuffer
  BY <1>1
<1>7. TxDistinct
  BY <1>6 DEF TxDistinct
<1>8. QueueDistinct
  BY <1>1 DEF QueueDistinct
<1>9. ASSUME NEW b \in Buffers PROVE \E k \in Kinds : Placed(b, k)
  <2>1. ~InTx(b) /\ ~InQueue(b) /\ ~InChain(b) /\ ~InCall(b) /\ b \notin held
    BY <1>1, <1>6 DEF InTx, InQueue, InChain, InCall, Buffers, NoBuffer, Range
  <2>2. InRx(b) <=> b <= NRx
    <3>1. b <= NRx => b - 1 \in 0 .. NRx - 1 /\ b = (b - 1) + 1
      BY DEF Buffers
    <3>2. \A d \in 0 .. NRx - 1 : rx[d].buf = d + 1
      BY <1>2
    <3>3. InRx(b) <=> \E d \in 0 .. NRx - 1 : d + 1 = b
      BY <3>2 DEF InRx
    <3> QED BY <3>1, <3>3 DEF Buffers
  <2>3. b \in free <=> ~(b <= NRx)
    BY <1>1 DEF Buffers
  <2>4. CASE b <= NRx
    BY <2>1, <2>2, <2>3, <2>4 DEF Placed, Kinds
  <2>5. CASE ~(b <= NRx)
    BY <2>1, <2>2, <2>3, <2>5 DEF Placed, Kinds
  <2> QED BY <2>4, <2>5
<1> QED BY <1>3, <1>4, <1>5, <1>7, <1>8, <1>9 DEF PlacesInv, OnePlace

-----------------------------------------------------------------------------
(* The receive ring.                                                       *)
LEMMA RxQuiet ==
  ASSUME RxInv, UNCHANGED <<rx, RxDesc, dmaRx, pxNew>>, pxNew = NoBuffer \/ emac' = "input"
  PROVE  RxInv'
BY DEF RxInv, Waiting, Waits

LEMMA InputPassRx == ASSUME RxInv, NEW sent \in BOOLEAN, InputPass(sent) PROVE RxInv'
BY DEF InputPass, rxRing, RxInv, Waiting, Waits

(* With the frames of a burst in order, a frame joins those that wait.     *)
LEMMA FrameArrivesRx ==
  ASSUME BufferTypes, RxInv, ~MixedFrames, NEW ours \in BOOLEAN, FrameArrives(ours)
  PROVE  /\ RxInv'
         /\ rx' \in [0 .. NRx - 1 -> RxDescriptor] /\ dmaRx' \in 0 .. NRx - 1
         /\ \A d \in 0 .. NRx - 1 : rx'[d].buf = rx[d].buf
<1> USE SizeAssumption
<1>1. UNCHANGED <<RxDesc, pxNew, emac>> /\ (ours \/ ~OursWaiting)
  BY DEF FrameArrives, task
<1>2. PICK w \in 0 .. NRx : Waiting(w)
  BY DEF RxInv
<1>3. CASE ~rx[dmaRx].own
  <2>1. UNCHANGED <<rx, dmaRx>>
    BY <1>3 DEF FrameArrives
  <2>2. RxInv'
    BY <1>1, <2>1 DEF RxInv, Waiting, Waits
  <2> QED BY <2>1, <2>2 DEF BufferTypes
<1>4. CASE rx[dmaRx].own
  <2>1. /\ rx' = [rx EXCEPT ![dmaRx].own = FALSE, ![dmaRx].ours = ours]
        /\ dmaRx' = NextRx(dmaRx)
    BY <1>4 DEF FrameArrives
  <2>2. rx \in [0 .. NRx - 1 -> RxDescriptor] /\ dmaRx \in 0 .. NRx - 1 /\ RxDesc \in 0 .. NRx - 1
    BY DEF BufferTypes
  <2>3. /\ rx' \in [0 .. NRx - 1 -> RxDescriptor]
        /\ rx'[dmaRx].own = FALSE /\ rx'[dmaRx].ours = ours
        /\ rx'[dmaRx].buf = rx[dmaRx].buf
        /\ \A d \in 0 .. NRx - 1 : d # dmaRx => rx'[d] = rx[d]
    BY <2>1, <2>2 DEF RxDescriptor
  <2>4. w < NRx
    <3>1. w = NRx => RxPlace(RxDesc, w) = RxDesc /\ RxPlace(RxDesc, 0) = RxDesc
      BY <2>2 DEF RxPlace
    <3>2. ~(rx[RxPlace(RxDesc, 0)].own /\ 0 < w)
      BY <1>2, <2>2 DEF Waiting, Waits
    <3> QED BY <1>2, <1>4, <3>1, <3>2 DEF Waiting
  <2>5. dmaRx = RxPlace(RxDesc, w) /\ dmaRx' = RxPlace(RxDesc, w + 1) /\ dmaRx' \in 0 .. NRx - 1
    <3>1. dmaRx = RxPlace(RxDesc, w) /\ w \in 0 .. NRx - 1
      BY <1>2, <2>4 DEF Waiting
    <3> QED BY <2>1, <2>2, <3>1, RxNext
  <2>6. ASSUME NEW i \in 0 .. NRx - 1
        PROVE  /\ Waits(i)'.own <=> (i # w /\ Waits(i).own)
               /\ i # w => (Waits(i)'.ours <=> Waits(i).ours)
               /\ i = w => (Waits(i)'.ours <=> ours)
    <3>1. RxPlace(RxDesc, i) \in 0 .. NRx - 1 /\ (i # w => RxPlace(RxDesc, i) # dmaRx)
      <4>1. w \in 0 .. NRx - 1
        BY <2>4
      <4> QED BY <2>2, <2>5, <4>1, RxPositions
    <3> QED BY <1>1, <2>3, <2>5, <3>1 DEF Waits
  <2>7. ASSUME NEW i \in 0 .. NRx - 1 PROVE Waits(i)'.own <=> i >= w + 1
    <3>1. Waits(i).own <=> i >= w
      BY <1>2 DEF Waiting
    <3> QED BY <2>6, <3>1
  <2>8. ASSUME NEW i \in 0 .. NRx - 1, i < w, Waits(i).ours PROVE OursWaiting
    <3>1. RxPlace(RxDesc, i) \in DOMAIN rx
      BY <2>2, RxPositions
    <3>2. ~Waits(i).own
      BY <1>2, <2>8 DEF Waiting
    <3> QED BY <2>8, <3>1, <3>2 DEF OursWaiting, Waits
  <2>9. ASSUME NEW i \in 0 .. NRx - 1, NEW j \in 0 .. NRx - 1, i <= j, j < w + 1, Waits(i)'.ours
        PROVE  Waits(j)'.ours
    <3>1. CASE j = w /\ i = w
      BY <2>9, <3>1
    <3>2. CASE j = w /\ i < w
      BY <1>1, <2>6, <2>8, <2>9, <3>2
    <3>3. CASE j < w
      BY <1>2, <2>6, <2>9, <3>3 DEF Waiting
    <3> QED BY <2>9, <3>1, <3>2, <3>3
  <2>10. ASSUME pxNew # NoBuffer, NEW i \in 0 .. NRx - 1, i < w + 1 PROVE Waits(i)'.ours
    <3>1. ours
      BY <1>1, <2>10 DEF OursWaiting
    <3>2. i < w => Waits(i).ours
      BY <1>2, <2>10 DEF Waiting
    <3> QED BY <2>6, <2>10, <3>1, <3>2
  <2>11. Waiting(w + 1)'
    BY <1>1, <2>5, <2>7, <2>9, <2>10 DEF Waiting
  <2>12. w + 1 \in 0 .. NRx
    BY <2>4
  <2>13. RxInv'
    BY <1>1, <2>11, <2>12 DEF RxInv
  <2> QED BY <2>3, <2>5, <2>13
<1> QED BY <1>3, <1>4

(* A frame is never refused while a new buffer is at hand: it would be put *)
(* in a second descriptor, and the buffer of the refused frame be lost.    *)
LEMMA RefusedAlone == ASSUME BufferTypes, RxInv, InputRefuse PROVE pxNew = NoBuffer
<1>1. PICK w \in 0 .. NRx : Waiting(w)
  BY DEF RxInv
<1>2. 0 \in 0 .. NRx - 1 /\ Waits(0) = rx[RxDesc]
  <2>1. RxPlace(RxDesc, 0) = RxDesc
    BY SizeAssumption DEF RxPlace, BufferTypes
  <2> QED BY <2>1, SizeAssumption DEF Waits
<1>3. ~rx[RxDesc].own /\ ~rx[RxDesc].ours
  BY DEF InputRefuse, FrameWaits
<1>4. 0 < w
  BY <1>1, <1>2, <1>3 DEF Waiting
<1> QED BY <1>1, <1>2, <1>3, <1>4 DEF Waiting

(* A frame is done with: the next one of those that wait is the first.     *)
LEMMA DisposeRx ==
  ASSUME BufferTypes, RxInv, FrameWaits,
         NEW new \in Buffers \cup {NoBuffer}, new # NoBuffer => rx[RxDesc].ours,
         NEW accept \in BOOLEAN, Dispose(new, accept)
  PROVE  /\ RxInv'
         /\ rx' \in [0 .. NRx - 1 -> RxDescriptor] /\ RxDesc' \in 0 .. NRx - 1
         /\ rx'[RxDesc].buf = IF new = NoBuffer THEN rx[RxDesc].buf ELSE new
         /\ \A d \in 0 .. NRx - 1 : d # RxDesc => rx'[d].buf = rx[d].buf
<1> USE SizeAssumption
<1>1. PICK w \in 0 .. NRx : Waiting(w)
  BY DEF RxInv
<1>2. /\ rx' = [rx EXCEPT ![RxDesc] = Installed(RxDesc, new)] /\ RxDesc' = NextRx(RxDesc)
      /\ pxNew' = new /\ emac' = "input" /\ UNCHANGED dmaRx
  BY DEF Dispose
<1>3. rx \in [0 .. NRx - 1 -> RxDescriptor] /\ RxDesc \in 0 .. NRx - 1 /\ ~rx[RxDesc].own
  BY DEF BufferTypes, FrameWaits
<1>4. PICK r \in RxDescriptor :
        /\ rx' = [rx EXCEPT ![RxDesc] = r]
        /\ r.own = TRUE /\ r.buf = IF new = NoBuffer THEN rx[RxDesc].buf ELSE new
  <2>1. /\ Installed(RxDesc, new) \in RxDescriptor
        /\ Installed(RxDesc, new).own = TRUE
        /\ Installed(RxDesc, new).buf = IF new = NoBuffer THEN rx[RxDesc].buf ELSE new
    BY <1>3 DEF Installed, RxDescriptor
  <2> QED BY <1>2, <2>1
<1>5. rx' \in [0 .. NRx - 1 -> RxDescriptor] /\ rx'[RxDesc] = r
      /\ \A d \in 0 .. NRx - 1 : d # RxDesc => rx'[d] = rx[d]
  BY <1>3, <1>4
<1>6. RxPlace(RxDesc, 0) = RxDesc /\ 0 \in 0 .. NRx - 1 /\ RxDesc' \in 0 .. NRx - 1
  BY <1>2, <1>3, RxNext
<1>7. w >= 1 /\ w - 1 \in 0 .. NRx - 1
  <2>1. Waits(0).own <=> 0 >= w
    BY <1>1, <1>6 DEF Waiting
  <2> QED BY <1>3, <1>6, <2>1 DEF Waits
<1>8. dmaRx' = RxPlace(RxDesc', w - 1)
  <2>1. dmaRx = RxPlace(RxDesc, w)
    BY <1>1 DEF Waiting
  <2> QED BY <1>2, <1>3, <1>7, <2>1 DEF RxPlace, NextRx
<1>9. ASSUME NEW i \in 0 .. NRx - 1
      PROVE  /\ i < NRx - 1 => i + 1 \in 0 .. NRx - 1 /\ Waits(i)' = Waits(i + 1)
             /\ i = NRx - 1 => Waits(i)'.own
  <2>1. CASE i < NRx - 1
    <3>1. /\ i + 1 \in 0 .. NRx - 1
          /\ RxPlace(RxDesc', i) = RxPlace(RxDesc, i + 1)
          /\ RxPlace(RxDesc, i + 1) \in 0 .. NRx - 1
          /\ RxPlace(RxDesc, i + 1) # RxDesc
      BY <1>2, <1>3, <2>1 DEF RxPlace, NextRx
    <3> QED BY <1>5, <2>1, <3>1 DEF Waits
  <2>2. CASE i = NRx - 1
    <3>1. RxPlace(RxDesc', i) = RxDesc
      BY <1>2, <1>3, <2>2 DEF RxPlace, NextRx
    <3> QED BY <1>4, <1>5, <2>2, <3>1 DEF Waits
  <2> QED BY <2>1, <2>2
<1>10. ASSUME NEW i \in 0 .. NRx - 1 PROVE Waits(i)'.own <=> i >= w - 1
  <2>1. CASE i < NRx - 1
    <3>1. Waits(i + 1).own <=> i + 1 >= w
      BY <1>1, <1>9, <2>1 DEF Waiting
    <3> QED BY <1>9, <2>1, <3>1
  <2>2. CASE i = NRx - 1
    BY <1>9, <2>2
  <2> QED BY <2>1, <2>2
<1>11. ASSUME NEW i \in 0 .. NRx - 1, NEW j \in 0 .. NRx - 1, i <= j, j < w - 1, Waits(i)'.ours
       PROVE  Waits(j)'.ours
  <2>1. /\ i + 1 \in 0 .. NRx - 1 /\ Waits(i)' = Waits(i + 1)
        /\ j + 1 \in 0 .. NRx - 1 /\ Waits(j)' = Waits(j + 1)
    BY <1>9, <1>11
  <2>2. Waits(i + 1).ours /\ i + 1 <= j + 1 /\ j + 1 < w
    BY <1>11, <2>1
  <2>3. Waits(j + 1).ours
    BY <1>1, <2>1, <2>2 DEF Waiting
  <2> QED BY <2>1, <2>3
<1>12. ASSUME new # NoBuffer, NEW i \in 0 .. NRx - 1, i < w - 1 PROVE Waits(i)'.ours
  <2>1. i + 1 \in 0 .. NRx - 1 /\ Waits(i)' = Waits(i + 1) /\ 0 <= i + 1 /\ i + 1 < w
    BY <1>9, <1>12
  <2>2. Waits(0).ours
    BY <1>6, <1>12 DEF Waits
  <2>3. Waits(i + 1).ours
    BY <1>1, <1>6, <2>1, <2>2 DEF Waiting
  <2> QED BY <2>1, <2>3
<1>13. Waiting(w - 1)'
  BY <1>2, <1>8, <1>10, <1>11, <1>12 DEF Waiting
<1>14. RxInv'
  <2>1. w - 1 \in 0 .. NRx
    BY <1>7
  <2> QED BY <1>2, <1>13, <2>1 DEF RxInv
<1> QED BY <1>4, <1>5, <1>6, <1>14

-----------------------------------------------------------------------------
(* The buffers: what moves and what stays.                                 *)
LEMMA RxSame ==
  ASSUME \A d \in 0 .. NRx - 1 : rx'[d].buf = rx[d].buf
  PROVE  /\ \A b \in Buffers : InRx(b)' <=> InRx(b)
         /\ RxDistinct => RxDistinct'
BY DEF InRx, RxDistinct

LEMMA TxSame ==
  ASSUME \A d \in 0 .. NTx - 1 : tx'[d].buf = tx[d].buf
  PROVE  /\ \A b \in Buffers : InTx(b)' <=> InTx(b)
         /\ TxDistinct => TxDistinct'
BY DEF InTx, TxDistinct

LEMMA QueueSame ==
  ASSUME UNCHANGED queue
  PROVE  /\ \A b \in Buffers : InQueue(b)' <=> InQueue(b)
         /\ QueueDistinct => QueueDistinct'
BY DEF InQueue, QueueDistinct

(* Steps that move no buffer.                                              *)
LEMMA PlacesQuiet ==
  ASSUME PlacesInv, UNCHANGED <<queue, chain, free, held>>,
         \A d \in 0 .. NRx - 1 : rx'[d].buf = rx[d].buf,
         \A d \in 0 .. NTx - 1 : tx'[d].buf = tx[d].buf,
         \A b \in Buffers : InCall(b)' <=> InCall(b)
  PROVE  PlacesInv'
<1>1. ASSUME NEW b \in Buffers PROVE \E k \in Kinds : Placed(b, k)'
  <2>1. PICK k \in Kinds : Placed(b, k)
    BY DEF PlacesInv, OnePlace
  <2> QED BY <2>1, RxSame, TxSame, QueueSame DEF Placed, InChain
<1> QED BY <1>1, RxSame, TxSame, QueueSame DEF PlacesInv, OnePlace

LEMMA DmaSendBuffers ==
  ASSUME TxInv, DmaSend
  PROVE  \A d \in 0 .. NTx - 1 : /\ tx'[d].buf = tx[d].buf
                                 /\ tx'[d].own <=> d # dmaTx /\ tx[d].own
<1>1. tx \in [0 .. NTx - 1 -> Descriptor] /\ dmaTx \in 0 .. NTx - 1
  BY DEF TxInv, RingTypes
<1>2. tx' = [tx EXCEPT ![dmaTx].own = FALSE]
  BY DEF DmaSend
<1> QED BY <1>1, <1>2 DEF Descriptor

(* The buffer of the accepted frame goes from its descriptor to the chain, *)
(* a free one takes its place.                                             *)
LEMMA InputAcceptPlaces ==
  ASSUME BufferTypes, RxInv, PlacesInv, InputAccept
  PROVE  PlacesInv' /\ BufferTypes' /\ RxInv'
<1> DEFINE x == rx[RxDesc].buf
           m == Min(free)
<1>1. /\ free # {} /\ free' = free \ {m} /\ Dispose(m, TRUE) /\ FrameWaits /\ rx[RxDesc].ours
      /\ chain' = Append(chain, x) /\ pxNew' = m
      /\ UNCHANGED <<tx, queue, held, out, sending, dmaRx>>
  BY DEF InputAccept, Dispose, txRing, output
<1>2. /\ m \in free /\ m \in Buffers /\ m # NoBuffer /\ RxDesc \in 0 .. NRx - 1
      /\ x \in Buffers /\ chain \in Seq(Buffers)
  <2>1. m \in free
    BY <1>1, FirstFree
  <2>2. rx[RxDesc] \in RxDescriptor
    BY DEF BufferTypes
  <2>3. \A b \in Buffers : b # NoBuffer
    BY SizeAssumption DEF Buffers, NoBuffer
  <2>4. x \in Buffers
    BY <2>2 DEF RxDescriptor
  <2> HIDE DEF m, x
  <2>5. m \in Buffers
    BY <2>1 DEF BufferTypes
  <2> QED BY <2>1, <2>3, <2>4, <2>5 DEF BufferTypes
<1> HIDE DEF m
<1>3. /\ RxInv'
      /\ rx' \in [0 .. NRx - 1 -> RxDescriptor] /\ RxDesc' \in 0 .. NRx - 1
      /\ rx'[RxDesc].buf = m
      /\ \A d \in 0 .. NRx - 1 : d # RxDesc => rx'[d].buf = rx[d].buf
  BY <1>1, <1>2, DisposeRx
<1> HIDE DEF x
<1>4. chain' \in Seq(Buffers) /\ \A b : InChain(b)' <=> InChain(b) \/ b = x
  <2>1. chain' \in Seq(Buffers) /\ Len(chain') = Len(chain) + 1 /\ chain'[Len(chain) + 1] = x
        /\ \A i \in 1 .. Len(chain) : chain'[i] = chain[i]
    BY <1>1, <1>2, AppendProperties
  <2>2. DOMAIN chain = 1 .. Len(chain) /\ DOMAIN chain' = 1 .. Len(chain) + 1 /\ Len(chain) \in Nat
    BY <1>2, <2>1, LenProperties
  <2> QED BY <2>1, <2>2 DEF InChain, Range
<1>5. BufferTypes'
  BY <1>1, <1>2, <1>3, <1>4 DEF BufferTypes
<1>6. ASSUME NEW b \in Buffers PROVE b \in free => ~InRx(b)
  BY DEF PlacesInv, OnePlace, Placed
<1>7. ASSUME NEW b \in Buffers PROVE InRx(b)' <=> (InRx(b) /\ b # x) \/ b = m
  <2>1. rx[RxDesc].buf = x
    BY DEF x
  <2>2. RxDistinct
    BY DEF PlacesInv
  <2> QED BY <1>2, <1>3, <2>1, <2>2 DEF InRx, RxDistinct
<1>8. RxDistinct'
  <2>1. \A d \in 0 .. NRx - 1 : rx[d].buf # m
    BY <1>2, <1>6 DEF InRx
  <2>2. RxDistinct
    BY DEF PlacesInv
  <2> QED BY <1>2, <1>3, <2>1, <2>2 DEF RxDistinct
<1>9. InRx(x) /\ TxDistinct' /\ QueueDistinct'
  BY <1>1, <1>2, TxSame, QueueSame DEF PlacesInv, InRx, x
<1>10. ASSUME NEW b \in Buffers PROVE \E k \in Kinds : Placed(b, k)'
  <2>1. PICK k \in Kinds : Placed(b, k)
    BY DEF PlacesInv, OnePlace
  <2>2. (InTx(b)' <=> InTx(b)) /\ (InQueue(b)' <=> InQueue(b)) /\ (InCall(b)' <=> InCall(b))
    BY <1>1, TxSame, QueueSame DEF InCall
  <2>3. CASE b = m
    <3>1. k = "free" /\ b # x
      BY <1>2, <1>6, <1>9, <2>1, <2>3 DEF Placed
    <3>2. Placed(b, "rx")'
      BY <1>1, <1>4, <1>7, <2>1, <2>2, <2>3, <3>1 DEF Placed
    <3> QED BY <3>2 DEF Kinds
  <2>4. CASE b = x /\ b # m
    <3>1. k = "rx"
      BY <1>9, <2>1, <2>4 DEF Placed
    <3>2. Placed(b, "chain")'
      BY <1>1, <1>4, <1>7, <2>1, <2>2, <2>4, <3>1 DEF Placed
    <3> QED BY <3>2 DEF Kinds
  <2>5. CASE b # x /\ b # m
    <3>1. Placed(b, k)'
      BY <1>1, <1>4, <1>7, <2>1, <2>2, <2>5 DEF Placed
    <3> QED BY <2>1, <3>1
  <2> QED BY <2>3, <2>4, <2>5
<1> QED BY <1>3, <1>5, <1>8, <1>9, <1>10 DEF PlacesInv, OnePlace

(* The chain goes to the queue, or back to the free list.                  *)
LEMMA InputPassPlaces ==
  ASSUME BufferTypes, PlacesInv, NEW sent \in BOOLEAN, InputPass(sent)
  PROVE  PlacesInv' /\ BufferTypes'
<1>1. /\ pxNew' = NoBuffer /\ chain' = <<>> /\ (chain = <<>> => sent)
      /\ queue' = IF sent /\ chain # <<>> THEN Append(queue, chain) ELSE queue
      /\ free' = IF sent THEN free ELSE free \cup Range(chain)
      /\ UNCHANGED <<tx, rx, RxDesc, dmaRx, held, out, sending>>
  BY DEF InputPass, txRing, rxRing, output
<1>2. chain \in Seq(Buffers) /\ queue \in Seq(Seq(Buffers)) /\ Len(queue) \in Nat
  BY DEF BufferTypes
<1>3. Range(chain) \subseteq Buffers /\ (chain = <<>> => Range(chain) = {})
  BY <1>2, RangeOfSeq DEF Range
<1>4. \A b \in Buffers : ~InChain(b)'
  BY <1>1 DEF InChain, Range
<1>5. /\ \A b \in Buffers : (InRx(b)' <=> InRx(b)) /\ (InTx(b)' <=> InTx(b))
      /\ RxDistinct' /\ TxDistinct'
  BY <1>1, RxSame, TxSame DEF PlacesInv
<1>6. \A b \in Buffers : InCall(b)' <=> InCall(b)
  BY <1>1 DEF InCall
<1>7. CASE ~sent \/ chain = <<>>
  <2>1. UNCHANGED queue /\ free' = free \cup Range(chain)
    BY <1>1, <1>3, <1>7
  <2>2. QueueDistinct' /\ \A b \in Buffers : InQueue(b)' <=> InQueue(b)
    BY <2>1, QueueSame DEF PlacesInv
  <2>3. ASSUME NEW b \in Buffers PROVE \E k \in Kinds : Placed(b, k)'
    <3>1. PICK k \in Kinds : Placed(b, k)
      BY DEF PlacesInv, OnePlace
    <3>2. b \in free' <=> b \in free \/ InChain(b)
      BY <2>1 DEF InChain
    <3>3. CASE k = "chain"
      BY <1>1, <1>4, <1>5, <1>6, <2>2, <3>1, <3>2, <3>3 DEF Placed, Kinds
    <3>4. CASE k # "chain"
      BY <1>1, <1>4, <1>5, <1>6, <2>2, <3>1, <3>2, <3>4 DEF Placed, Kinds
    <3> QED BY <3>3, <3>4
  <2>4. BufferTypes'
    BY <1>1, <1>3, <2>1 DEF BufferTypes
  <2> QED BY <1>5, <2>2, <2>3, <2>4 DEF PlacesInv, OnePlace
<1>8. CASE sent /\ chain # <<>>
  <2>1. queue' = Append(queue, chain) /\ UNCHANGED free
    BY <1>1, <1>8
  <2>2. /\ queue' \in Seq(Seq(Buffers)) /\ Len(queue') = Len(queue) + 1
        /\ queue'[Len(queue) + 1] = chain
        /\ \A i \in 1 .. Len(queue) : queue'[i] = queue[i]
    BY <1>2, <2>1, AppendProperties
  <2>3. ASSUME NEW b \in Buffers PROVE InQueue(b)' <=> InQueue(b) \/ InChain(b)
    <3>1. /\ Len(queue) + 1 \in 1 .. Len(queue')
          /\ \A i \in 1 .. Len(queue') : (i \in 1 .. Len(queue) \/ i = Len(queue) + 1)
          /\ \A i \in 1 .. Len(queue) : i \in 1 .. Len(queue')
      BY <1>2, <2>2
    <3> QED BY <2>2, <3>1 DEF InQueue, InChain
  <2>4. ASSUME NEW b \in Buffers PROVE ~(InQueue(b) /\ InChain(b))
    BY DEF PlacesInv, OnePlace, Placed
  <2>5. QueueDistinct'
    <3>1. QueueDistinct
      BY DEF PlacesInv
    <3>2. ASSUME NEW i \in 1 .. Len(queue) PROVE Range(queue[i]) \cap Range(chain) = {}
      BY <1>3, <2>4 DEF InQueue, InChain
    <3>3. ASSUME NEW i \in 1 .. Len(queue) + 1, NEW j \in 1 .. Len(queue) + 1,
                 Range(queue'[i]) \cap Range(queue'[j]) # {}
          PROVE  i = j
      <4>1. CASE i \in 1 .. Len(queue) /\ j \in 1 .. Len(queue)
        <5>1. queue'[i] = queue[i] /\ queue'[j] = queue[j]
          BY <2>2, <4>1
        <5> QED BY <3>1, <3>3, <4>1, <5>1 DEF QueueDistinct
      <4>2. CASE i = Len(queue) + 1 /\ j \in 1 .. Len(queue)
        <5>1. queue'[i] = chain /\ queue'[j] = queue[j]
          BY <2>2, <4>2
        <5> QED BY <3>2, <3>3, <4>2, <5>1
      <4>3. CASE j = Len(queue) + 1 /\ i \in 1 .. Len(queue)
        <5>1. queue'[j] = chain /\ queue'[i] = queue[i]
          BY <2>2, <4>3
        <5> QED BY <3>2, <3>3, <4>3, <5>1
      <4> QED BY <1>2, <4>1, <4>2, <4>3
    <3> QED BY <2>2, <3>3 DEF QueueDistinct
  <2>6. ASSUME NEW b \in Buffers PROVE \E k \in Kinds : Placed(b, k)'
    <3>1. PICK k \in Kinds : Placed(b, k)
      BY DEF PlacesInv, OnePlace
    <3>2. b \in free' <=> b \in free
      BY <2>1
    <3>3. CASE k = "chain"
      BY <1>1, <1>4, <1>5, <1>6, <2>3, <3>1, <3>2, <3>3 DEF Placed, Kinds
    <3>4. CASE k # "chain"
      BY <1>1, <1>4, <1>5, <1>6, <2>3, <3>1, <3>2, <3>4 DEF Placed, Kinds
    <3> QED BY <3>3, <3>4
  <2>7. BufferTypes'
    BY <1>1, <2>1, <2>2 DEF BufferTypes
  <2> QED BY <1>5, <2>5, <2>6, <2>7 DEF PlacesInv, OnePlace
<1> QED BY <1>7, <1>8

(* The buffers of the cleared descriptors go back to the free list.        *)
LEMMA ClearPlaces ==
  ASSUME TxInv, BufferTypes, PlacesInv, NEW n \in 0 .. uxCount, Clear(n),
         UNCHANGED <<rx, RxDesc, dmaRx, pxNew, chain, queue, held, out, sending>>
  PROVE  PlacesInv' /\ BufferTypes'
<1> DEFINE cleared == {ToClear(i) : i \in 0 .. n - 1}
           C == {tx[d].buf : d \in cleared}
<1>1. /\ free' = free \cup (C \ {NoBuffer})
      /\ tx' = [d \in DOMAIN tx |-> IF d \in cleared THEN [tx[d] EXCEPT !.buf = NoBuffer] ELSE tx[d]]
  BY DEF Clear
<1>2. tx \in [0 .. NTx - 1 -> Descriptor] /\ cleared \subseteq 0 .. NTx - 1
  <2>1. uxCount \in 0 .. NTx /\ DMATxDescToClear \in 0 .. NTx - 1
    BY SizeAssumption DEF TxInv, RingTypes, uxCount
  <2>2. ASSUME NEW i \in 0 .. n - 1 PROVE ToClear(i) \in 0 .. NTx - 1
    <3>1. i \in 0 .. NTx - 1
      BY <2>1, SizeAssumption
    <3> QED BY <2>1, <3>1, Positions DEF ToClear
  <2> QED BY <2>2 DEF TxInv, RingTypes
<1> HIDE DEF cleared
<1>3. ASSUME NEW d \in 0 .. NTx - 1
      PROVE  /\ tx[d].buf \in Buffers \cup {NoBuffer}
             /\ tx'[d].buf = IF d \in cleared THEN NoBuffer ELSE tx[d].buf
  <2>1. tx[d] \in Descriptor
    BY <1>2
  <2>2. [tx[d] EXCEPT !.buf = NoBuffer] = [own |-> tx[d].own, buf |-> NoBuffer]
    BY <2>1, Fields
  <2> QED BY <1>1, <1>2, <2>1, <2>2 DEF Descriptor
<1>4. \A b \in Buffers : b # NoBuffer
  BY SizeAssumption DEF Buffers, NoBuffer
<1>5. C \subseteq Buffers \cup {NoBuffer}
  BY <1>2, <1>3
<1>6. ASSUME NEW b \in Buffers
      PROVE  (InTx(b)' <=> InTx(b) /\ b \notin C) /\ (b \in C => InTx(b))
  <2>1. TxDistinct
    BY DEF PlacesInv
  <2> QED BY <1>2, <1>3, <1>4, <2>1 DEF InTx, TxDistinct
<1> HIDE DEF C
<1>7. \A b \in Buffers : b \in free' <=> b \in free \/ b \in C
  BY <1>1, <1>4
<1>8. TxDistinct'
  <2>1. TxDistinct
    BY DEF PlacesInv
  <2> QED BY <1>3, <2>1 DEF TxDistinct
<1>9. /\ \A b \in Buffers : (InRx(b)' <=> InRx(b)) /\ (InQueue(b)' <=> InQueue(b))
      /\ RxDistinct' /\ QueueDistinct'
  BY RxSame, QueueSame DEF PlacesInv
<1>10. ASSUME NEW b \in Buffers PROVE \E k \in Kinds : Placed(b, k)'
  <2>1. PICK k \in Kinds : Placed(b, k)
    BY DEF PlacesInv, OnePlace
  <2>2. (InCall(b)' <=> InCall(b)) /\ (InChain(b)' <=> InChain(b)) /\ (b \in held' <=> b \in held)
    BY DEF InCall, InChain
  <2>3. CASE b \in C
    <3>1. k = "tx"
      BY <1>6, <2>1, <2>3 DEF Placed
    <3> QED BY <1>6, <1>7, <1>9, <2>1, <2>2, <2>3, <3>1 DEF Placed, Kinds
  <2>4. CASE b \notin C
    BY <1>6, <1>7, <1>9, <2>1, <2>2, <2>4 DEF Placed
  <2> QED BY <2>3, <2>4
<1>11. BufferTypes'
  <2>1. free' \subseteq Buffers
    BY <1>1, <1>5 DEF BufferTypes
  <2> QED BY <2>1 DEF BufferTypes
<1> QED BY <1>8, <1>9, <1>10, <1>11 DEF PlacesInv, OnePlace

(* The IP task and the applications take buffers and give them back.       *)
LEMMA HolderPlaces ==
  ASSUME BufferTypes, PlacesInv, GetBuffer \/ (\E b \in Buffers : ReleaseBuffer(b))
  PROVE  PlacesInv' /\ BufferTypes'
<1>1. UNCHANGED <<tx, rx, RxDesc, dmaRx, pxNew, chain, queue, out, sending>>
  BY DEF GetBuffer, ReleaseBuffer, buffers, txRing, rxRing, task, output
<1>2. PICK x \in Buffers :
        \/ x \in free /\ free' = free \ {x} /\ held' = held \cup {x}
        \/ x \in held /\ held' = held \ {x} /\ free' = free \cup {x}
  <2>1. CASE GetBuffer
    <3>1. free # {} /\ free' = free \ {Min(free)} /\ held' = held \cup {Min(free)}
      BY <2>1 DEF GetBuffer
    <3>2. Min(free) \in free /\ Min(free) \in Buffers
      BY <3>1, FirstFree DEF BufferTypes
    <3> QED BY <3>1, <3>2
  <2>2. CASE \E b \in Buffers : ReleaseBuffer(b)
    BY <2>2 DEF ReleaseBuffer
  <2> QED BY <2>1, <2>2
<1>3. /\ \A b \in Buffers : /\ (InRx(b)' <=> InRx(b)) /\ (InTx(b)' <=> InTx(b))
                            /\ (InQueue(b)' <=> InQueue(b))
      /\ RxDistinct' /\ TxDistinct' /\ QueueDistinct'
  BY <1>1, RxSame, TxSame, QueueSame DEF PlacesInv
<1>4. ASSUME NEW b \in Buffers PROVE \E k \in Kinds : Placed(b, k)'
  <2>1. PICK k \in Kinds : Placed(b, k)
    BY DEF PlacesInv, OnePlace
  <2>2. (InCall(b)' <=> InCall(b)) /\ (InChain(b)' <=> InChain(b))
    BY <1>1 DEF InCall, InChain
  <2>3. CASE b = x
    BY <1>2, <1>3, <2>1, <2>2, <2>3 DEF Placed, Kinds
  <2>4. CASE b # x
    BY <1>2, <1>3, <2>1, <2>2, <2>4 DEF Placed
  <2> QED BY <2>3, <2>4
<1>5. BufferTypes'
  BY <1>1, <1>2 DEF BufferTypes
<1> QED BY <1>3, <1>4, <1>5 DEF PlacesInv, OnePlace

(* The first chain of the queue goes to the IP task.                       *)
LEMMA TakeChainPlaces == ASSUME BufferTypes, PlacesInv, TakeChain PROVE PlacesInv' /\ BufferTypes'
<1> DEFINE H == Range(Head(queue))
<1>1. /\ UNCHANGED <<tx, rx, RxDesc, dmaRx, pxNew, chain, free, out, sending>>
      /\ queue # <<>> /\ queue' = Tail(queue) /\ held' = held \cup H
  BY DEF TakeChain, buffers, txRing, rxRing, task, output
<1>2. queue \in Seq(Seq(Buffers))
  BY DEF BufferTypes
<1>3. /\ Len(queue) \in Nat \ {0} /\ Head(queue) = queue[1] /\ Head(queue) \in Seq(Buffers)
      /\ queue' \in Seq(Seq(Buffers)) /\ Len(queue') = Len(queue) - 1
      /\ \A i \in 1 .. Len(queue) - 1 : queue'[i] = queue[i + 1]
  BY <1>1, <1>2, HeadTailProperties, EmptySeq
<1>4. H \subseteq Buffers
  BY <1>3, RangeOfSeq
<1>5. H = Range(queue[1])
  BY <1>3
<1> HIDE DEF H
<1>6. QueueDistinct
  BY DEF PlacesInv
<1>7. ASSUME NEW b \in Buffers
      PROVE  (InQueue(b)' <=> InQueue(b) /\ b \notin H) /\ (b \in H => InQueue(b))
  <2>1. 1 \in 1 .. Len(queue)
    BY <1>3
  <2>2. ASSUME InQueue(b)' PROVE InQueue(b) /\ b \notin H
    <3>1. PICK i \in 1 .. Len(queue) - 1 : b \in Range(queue[i + 1])
      BY <1>3, <2>2 DEF InQueue
    <3>2. i + 1 \in 1 .. Len(queue) /\ i + 1 # 1
      BY <1>3
    <3> QED BY <1>5, <1>6, <2>1, <3>1, <3>2 DEF InQueue, QueueDistinct
  <2>3. ASSUME InQueue(b), b \notin H PROVE InQueue(b)'
    <3>1. PICK i \in 1 .. Len(queue) : b \in Range(queue[i])
      BY <2>3 DEF InQueue
    <3>2. i - 1 \in 1 .. Len(queue) - 1 /\ (i - 1) + 1 = i
      BY <1>3, <1>5, <2>3, <3>1
    <3>3. b \in Range(queue'[i - 1])
      BY <1>3, <3>1, <3>2
    <3> QED BY <1>3, <3>2, <3>3 DEF InQueue
  <2>4. b \in H => InQueue(b)
    BY <1>5, <2>1 DEF InQueue
  <2> QED BY <2>2, <2>3, <2>4
<1>8. QueueDistinct'
  <2>1. ASSUME NEW i \in 1 .. Len(queue) - 1, NEW j \in 1 .. Len(queue) - 1,
               Range(queue'[i]) \cap Range(queue'[j]) # {}
        PROVE  i = j
    <3>1. i + 1 \in 1 .. Len(queue) /\ j + 1 \in 1 .. Len(queue)
          /\ queue'[i] = queue[i + 1] /\ queue'[j] = queue[j + 1]
      BY <1>3
    <3>2. i + 1 = j + 1
      BY <1>6, <2>1, <3>1 DEF QueueDistinct
    <3> QED BY <3>2
  <2> QED BY <1>3, <2>1 DEF QueueDistinct
<1>9. /\ \A b \in Buffers : (InRx(b)' <=> InRx(b)) /\ (InTx(b)' <=> InTx(b))
      /\ RxDistinct' /\ TxDistinct'
  BY <1>1, RxSame, TxSame DEF PlacesInv
<1>10. ASSUME NEW b \in Buffers PROVE \E k \in Kinds : Placed(b, k)'
  <2>1. PICK k \in Kinds : Placed(b, k)
    BY DEF PlacesInv, OnePlace
  <2>2. (InCall(b)' <=> InCall(b)) /\ (InChain(b)' <=> InChain(b)) /\ (b \in free' <=> b \in free)
        /\ (b \in held' <=> b \in held \/ b \in H)
    BY <1>1 DEF InCall, InChain
  <2>3. CASE b \in H
    <3>1. k = "queue"
      BY <1>7, <2>1, <2>3 DEF Placed
    <3> QED BY <1>7, <1>9, <2>1, <2>2, <2>3, <3>1 DEF Placed, Kinds
  <2>4. CASE b \notin H
    BY <1>7, <1>9, <2>1, <2>2, <2>4 DEF Placed
  <2> QED BY <2>3, <2>4
<1>11. BufferTypes'
  BY <1>1, <1>3, <1>4 DEF BufferTypes
<1> QED BY <1>8, <1>9, <1>10, <1>11 DEF PlacesInv, OnePlace

(* The call of xNetworkInterfaceOutput: its buffer leaves the holder with  *)
(* the semaphore and enters the descriptor at the next step.               *)
LEMMA OutputTakePlaces ==
  ASSUME BufferTypes, PlacesInv, NEW x \in Buffers, OutputTake(x)
  PROVE  PlacesInv' /\ BufferTypes'
<1>1. /\ UNCHANGED <<tx, rx, RxDesc, dmaRx, pxNew, chain, queue, free>>
      /\ x \in held /\ held' = held \ {x}
      /\ out = "idle" /\ out' = "load" /\ sending' = x
  BY DEF OutputTake, rxRing, task
<1>2. /\ \A b \in Buffers : /\ (InRx(b)' <=> InRx(b)) /\ (InTx(b)' <=> InTx(b))
                            /\ (InQueue(b)' <=> InQueue(b))
      /\ RxDistinct' /\ TxDistinct' /\ QueueDistinct'
  BY <1>1, RxSame, TxSame, QueueSame DEF PlacesInv
<1>3. ASSUME NEW b \in Buffers PROVE \E k \in Kinds : Placed(b, k)'
  <2>1. PICK k \in Kinds : Placed(b, k)
    BY DEF PlacesInv, OnePlace
  <2>2. ~InCall(b) /\ (InCall(b)' <=> b = x) /\ (InChain(b)' <=> InChain(b))
    BY <1>1 DEF InCall, InChain
  <2>3. CASE b = x
    BY <1>1, <1>2, <2>1, <2>2, <2>3 DEF Placed, Kinds
  <2>4. CASE b # x
    BY <1>1, <1>2, <2>1, <2>2, <2>4 DEF Placed
  <2> QED BY <2>3, <2>4
<1>4. BufferTypes'
  BY <1>1 DEF BufferTypes
<1> QED BY <1>2, <1>3, <1>4 DEF PlacesInv, OnePlace

LEMMA OutputLoadPlaces ==
  ASSUME TxInv, BufferTypes, PlacesInv, tx[TxDesc] = Empty, OutputLoad
  PROVE  PlacesInv' /\ BufferTypes'
<1>1. /\ UNCHANGED <<rx, RxDesc, dmaRx, pxNew, chain, queue, free, held, sending>>
      /\ out = "load" /\ out' = "own"
      /\ tx' = [tx EXCEPT ![TxDesc].buf = sending]
  BY DEF OutputLoad, OutputStep, rxRing, task
<1>2. tx \in [0 .. NTx - 1 -> Descriptor] /\ TxDesc \in 0 .. NTx - 1 /\ tx[TxDesc].buf = NoBuffer
  BY DEF TxInv, RingTypes, Empty
<1>3. tx'[TxDesc].buf = sending /\ \A d \in 0 .. NTx - 1 : d # TxDesc => tx'[d].buf = tx[d].buf
  BY <1>1, <1>2 DEF Descriptor
<1>4. \A b \in Buffers : b # NoBuffer
  BY SizeAssumption DEF Buffers, NoBuffer
<1>5. ASSUME NEW b \in Buffers PROVE InTx(b)' <=> InTx(b) \/ b = sending
  BY <1>2, <1>3, <1>4 DEF InTx
<1>6. TxDistinct'
  <2>1. TxDistinct
    BY DEF PlacesInv
  <2>2. CASE sending \in Buffers
    <3>1. ~InTx(sending)
      BY <1>1, <2>2 DEF PlacesInv, OnePlace, Placed, InCall
    <3> QED BY <1>2, <1>3, <2>1, <3>1 DEF TxDistinct, InTx
  <2>3. CASE sending = NoBuffer
    BY <1>2, <1>3, <2>1, <2>3 DEF TxDistinct
  <2> QED BY <2>2, <2>3 DEF TxInv, RingTypes
<1>7. /\ \A b \in Buffers : (InRx(b)' <=> InRx(b)) /\ (InQueue(b)' <=> InQueue(b))
      /\ RxDistinct' /\ QueueDistinct'
  BY <1>1, RxSame, QueueSame DEF PlacesInv
<1>8. ASSUME NEW b \in Buffers PROVE \E k \in Kinds : Placed(b, k)'
  <2>1. PICK k \in Kinds : Placed(b, k)
    BY DEF PlacesInv, OnePlace
  <2>2. ~InCall(b)' /\ (InCall(b) <=> b = sending) /\ (InChain(b)' <=> InChain(b))
        /\ (b \in free' <=> b \in free) /\ (b \in held' <=> b \in held)
    BY <1>1 DEF InCall, InChain
  <2>3. CASE b = sending
    BY <1>5, <1>7, <2>1, <2>2, <2>3 DEF Placed, Kinds
  <2>4. CASE b # sending
    BY <1>5, <1>7, <2>1, <2>2, <2>4 DEF Placed
  <2> QED BY <2>3, <2>4
<1>9. BufferTypes'
  BY <1>1 DEF BufferTypes
<1> QED BY <1>6, <1>7, <1>8, <1>9 DEF PlacesInv, OnePlace

LEMMA OutputOwnBuffers ==
  ASSUME TxInv, OutputOwn
  PROVE  \A d \in 0 .. NTx - 1 : /\ tx'[d].buf = tx[d].buf
                                 /\ tx'[d].own = IF d = TxDesc THEN TRUE ELSE tx[d].own
<1>1. tx \in [0 .. NTx - 1 -> Descriptor] /\ TxDesc \in 0 .. NTx - 1
  BY DEF TxInv, RingTypes
<1>2. tx' = [tx EXCEPT ![TxDesc].own = TRUE]
  BY DEF OutputOwn
<1> QED BY <1>1, <1>2 DEF Descriptor

-----------------------------------------------------------------------------
(* Every step keeps each buffer in its place or moves it to another one.   *)
LEMMA QuietBuffers ==
  ASSUME BufferTypes, RxInv, PlacesInv,
         UNCHANGED <<tx, rx, RxDesc, dmaRx, free, held, pxNew, chain, queue>>,
         pxNew = NoBuffer \/ emac' = "input",
         \A b \in Buffers : InCall(b)' <=> InCall(b)
  PROVE  BufferTypes' /\ RxInv' /\ PlacesInv'
BY RxQuiet, PlacesQuiet DEF BufferTypes

LEMMA TakenEmpty == ASSUME TxInv, out = "load" PROVE tx[TxDesc] = Empty
<1>1. uxCount - 1 \in Filled .. NTx - 1 /\ TxDesc = TxPlace(DMATxDescToClear, uxCount - 1)
  BY SizeAssumption DEF TxInv, RingTypes, uxCount, Last, Filled
<1> QED BY <1>1 DEF TxInv, EmptyFrom

LEMMA EmacBuffers ==
  ASSUME BufferInv, EmacTask
  PROVE  BufferTypes' /\ RxInv' /\ PlacesInv'
<1> USE DEF BufferInv
<1>1. CASE TestRx \/ TestTx \/ ClearRx \/ ClearTx \/ \E up \in BOOLEAN : CheckLink(up)
  <2>1. /\ UNCHANGED <<tx, rx, RxDesc, dmaRx, free, held, pxNew, chain, queue, out, sending>>
        /\ emac # "input"
    BY <1>1 DEF TestRx, TestTx, Test, ClearRx, ClearTx, CheckLink, txRing, rxRing, output
  <2> QED BY <2>1, QuietBuffers DEF RxInv, InCall
<1>2. CASE InputRefuse \/ InputDrop
  <2>1. Dispose(NoBuffer, FALSE) /\ FrameWaits /\ UNCHANGED free
    BY <1>2, RefusedAlone DEF InputRefuse, InputDrop
  <2>2. UNCHANGED <<tx, dmaRx, held, chain, queue, out, sending>> /\ pxNew' = NoBuffer
    BY <2>1 DEF Dispose, txRing, output
  <2>3. /\ RxInv' /\ rx' \in [0 .. NRx - 1 -> RxDescriptor] /\ RxDesc' \in 0 .. NRx - 1
        /\ \A d \in 0 .. NRx - 1 : rx'[d].buf = rx[d].buf
    BY <2>1, DisposeRx
  <2>4. BufferTypes'
    BY <2>1, <2>2, <2>3 DEF BufferTypes
  <2>5. PlacesInv'
    BY <2>1, <2>2, <2>3, PlacesQuiet DEF InCall
  <2> QED BY <2>3, <2>4, <2>5
<1>3. CASE InputAccept
  BY <1>3, InputAcceptPlaces
<1>4. ASSUME NEW sent \in BOOLEAN, InputPass(sent) PROVE BufferTypes' /\ RxInv' /\ PlacesInv'
  BY <1>4, InputPassRx, InputPassPlaces
<1>5. CASE vClearTXBuffers
  <2>1. PICK n \in 0 .. uxCount : Clear(n)
    BY <1>5 DEF vClearTXBuffers
  <2>2. /\ UNCHANGED <<rx, RxDesc, dmaRx, pxNew, chain, queue, held, out, sending>>
        /\ emac # "input"
    BY <1>5 DEF vClearTXBuffers, rxRing, output
  <2> QED BY <2>1, <2>2, ClearPlaces, RxQuiet DEF RxInv
<1> QED BY <1>1, <1>2, <1>3, <1>4, <1>5 DEF EmacTask

LEMMA NextBufferInv == ASSUME ~MixedFrames PROVE BufferInv /\ [Next]_vars => BufferInv'
<1> SUFFICES ASSUME BufferInv, [Next]_vars PROVE BufferTypes' /\ RxInv' /\ PlacesInv'
  BY NextTxInv DEF BufferInv
<1> USE DEF BufferInv
<1>1. CASE UNCHANGED vars
  BY <1>1, QuietBuffers DEF vars, txRing, rxRing, task, output, RxInv, InCall
<1>2. CASE DmaSend
  <2>1. UNCHANGED <<rx, RxDesc, dmaRx, free, held, pxNew, chain, queue, out, sending, emac>>
    BY <1>2 DEF DmaSend, rxRing, task, output
  <2> QED BY <1>2, <2>1, DmaSendBuffers, RxQuiet, PlacesQuiet DEF RxInv, InCall, BufferTypes
<1>3. CASE ETH_IRQHandler
  <2>1. UNCHANGED <<tx, rx, RxDesc, dmaRx, free, held, pxNew, chain, queue, out, sending, emac>>
    BY <1>3 DEF ETH_IRQHandler, txRing, rxRing, task, output
  <2> QED BY <2>1, QuietBuffers DEF RxInv, InCall
<1>4. ASSUME NEW ours \in BOOLEAN, FrameArrives(ours) PROVE BufferTypes' /\ RxInv' /\ PlacesInv'
  <2>1. UNCHANGED <<tx, RxDesc, free, held, pxNew, chain, queue, out, sending>>
    BY <1>4 DEF FrameArrives, txRing, task, output
  <2>2. /\ RxInv' /\ rx' \in [0 .. NRx - 1 -> RxDescriptor] /\ dmaRx' \in 0 .. NRx - 1
        /\ \A d \in 0 .. NRx - 1 : rx'[d].buf = rx[d].buf
    BY <1>4, FrameArrivesRx
  <2> QED BY <2>1, <2>2, PlacesQuiet DEF BufferTypes, InCall
<1>5. CASE EmacTask
  BY <1>5, EmacBuffers
<1>6. CASE OutputLoad
  <2>1. UNCHANGED <<rx, RxDesc, dmaRx, pxNew, emac>> /\ tx[TxDesc] = Empty
    BY <1>6, TakenEmpty DEF OutputLoad, OutputStep, rxRing, task
  <2> QED BY <1>6, <2>1, OutputLoadPlaces, RxQuiet DEF RxInv
<1>7. CASE OutputOwn
  <2>1. /\ UNCHANGED <<rx, RxDesc, dmaRx, free, held, pxNew, chain, queue, emac>>
        /\ out = "own" /\ out' = "advance"
    BY <1>7 DEF OutputOwn, OutputStep, rxRing, task
  <2>2. \A b \in Buffers : InCall(b)' <=> InCall(b)
    BY <2>1 DEF InCall
  <2> QED BY <1>7, <2>1, <2>2, OutputOwnBuffers, RxQuiet, PlacesQuiet DEF RxInv, BufferTypes
<1>8. CASE OutputAdvance
  <2>1. /\ UNCHANGED <<tx, rx, RxDesc, dmaRx, free, held, pxNew, chain, queue, emac>>
        /\ out = "advance" /\ out' = "idle"
    BY <1>8 DEF OutputAdvance, OutputStep, rxRing, task
  <2> QED BY <2>1, QuietBuffers DEF RxInv, InCall
<1>9. CASE GetBuffer \/ \E b \in Buffers : ReleaseBuffer(b)
  <2>1. UNCHANGED <<rx, RxDesc, dmaRx, pxNew, emac>>
    BY <1>9 DEF GetBuffer, ReleaseBuffer, buffers, rxRing, task
  <2> QED BY <1>9, <2>1, HolderPlaces, RxQuiet DEF RxInv
<1>10. CASE TakeChain
  <2>1. UNCHANGED <<rx, RxDesc, dmaRx, pxNew, emac>>
    BY <1>10 DEF TakeChain, buffers, rxRing, task
  <2> QED BY <1>10, <2>1, TakeChainPlaces, RxQuiet DEF RxInv
<1>11. ASSUME NEW b \in Buffers, OutputTake(b) PROVE BufferTypes' /\ RxInv' /\ PlacesInv'
  <2>1. UNCHANGED <<rx, RxDesc, dmaRx, pxNew, emac>>
    BY <1>11 DEF OutputTake, rxRing, task
  <2> QED BY <1>11, <2>1, OutputTakePlaces, RxQuiet DEF RxInv
<1> QED
  BY <1>1, <1>2, <1>3, <1>4, <1>5, <1>6, <1>7, <1>8, <1>9, <1>10, <1>11 DEF Next, Output

-----------------------------------------------------------------------------
(* One place of every buffer, counted as OneOwner counts it.               *)
LEMMA OneOrNone ==
  ASSUME NEW S, NEW x, S = {x} \/ S = {}
  PROVE  Cardinality(S) = IF S = {} THEN 0 ELSE 1
<1>1. CASE S = {}
  BY <1>1, FS_EmptySet
<1>2. CASE S = {x}
  BY <1>2, FS_Singleton
<1> QED BY <1>1, <1>2

LEMMA OneOwnerOf == ASSUME TxInv, BufferTypes, PlacesInv PROVE OneOwner
<1> SUFFICES ASSUME NEW b \in Buffers PROVE Owners(b) = 1
  BY DEF OneOwner
<1> DEFINE R == {d \in DOMAIN rx : rx[d].buf = b}
           T == {d \in DOMAIN tx : tx[d].buf = b}
           Q == {i \in DOMAIN queue : b \in Range(queue[i])}
           P == {place \in {"free", "held", "chain", "sending"} :
                   CASE place = "free" -> b \in free
                     [] place = "held" -> b \in held
                     [] place = "chain" -> b \in Range(chain)
                     [] place = "sending" -> b = sending /\ out = "load"}
<1>1. PICK k \in Kinds : Placed(b, k)
  BY DEF PlacesInv, OnePlace
<1>2. /\ DOMAIN rx = 0 .. NRx - 1 /\ DOMAIN tx = 0 .. NTx - 1 /\ DOMAIN queue = 1 .. Len(queue)
      /\ b # NoBuffer
  BY SizeAssumption, LenProperties DEF BufferTypes, TxInv, RingTypes, Buffers, NoBuffer
<1>3. Cardinality(R) = IF k = "rx" THEN 1 ELSE 0
  <2>1. R = {} <=> k # "rx"
    BY <1>1, <1>2 DEF Placed, InRx
  <2>2. \A d, e \in R : d = e
    BY <1>2 DEF PlacesInv, RxDistinct
  <2>3. \E x : R = {x} \/ R = {}
    BY <2>2
  <2> QED BY <2>1, <2>3, OneOrNone
<1>4. Cardinality(T) = IF k = "tx" THEN 1 ELSE 0
  <2>1. T = {} <=> k # "tx"
    BY <1>1, <1>2 DEF Placed, InTx
  <2>2. \A d, e \in T : d = e
    BY <1>2 DEF PlacesInv, TxDistinct
  <2>3. \E x : T = {x} \/ T = {}
    BY <2>2
  <2> QED BY <2>1, <2>3, OneOrNone
<1>5. Cardinality(Q) = IF k = "queue" THEN 1 ELSE 0
  <2>1. Q = {} <=> k # "queue"
    BY <1>1, <1>2 DEF Placed, InQueue
  <2>2. \A i, j \in Q : i = j
    BY <1>2 DEF PlacesInv, QueueDistinct
  <2>3. \E x : Q = {x} \/ Q = {}
    BY <2>2
  <2> QED BY <2>1, <2>3, OneOrNone
<1>6. Cardinality(P) = IF k \in {"free", "held", "chain", "call"} THEN 1 ELSE 0
  <2> DEFINE x == IF k = "call" THEN "sending" ELSE k
  <2>1. /\ "free" \in P <=> k = "free"
        /\ "held" \in P <=> k = "held"
        /\ "chain" \in P <=> k = "chain"
        /\ "sending" \in P <=> k = "call"
    BY <1>1 DEF Placed, InChain, InCall
  <2>2. P \subseteq {"free", "held", "chain", "sending"}
    OBVIOUS
  <2> HIDE DEF P
  <2>3. CASE k \in {"free", "held", "chain", "call"}
    <3>1. P = {x}
      BY <2>1, <2>2, <2>3
    <3> QED BY <2>3, <3>1, OneOrNone
  <2>4. CASE k \notin {"free", "held", "chain", "call"}
    <3>1. P = {}
      BY <2>1, <2>2, <2>4
    <3> QED BY <2>4, <3>1, OneOrNone
  <2> QED BY <2>3, <2>4
<1>7. Owners(b) = Cardinality(R) + Cardinality(T) + Cardinality(Q) + Cardinality(P)
  BY DEF Owners, InChains
<1> HIDE DEF R, T, Q, P
<1> QED BY <1>3, <1>4, <1>5, <1>6, <1>7 DEF Kinds

(* No network buffer leaks and none is used twice, for any number of       *)
(* descriptors, buffers, frames and packets, as long as no frame for       *)
(* others follows one for us in a burst (NetworkInterface.c 943-1001).     *)
THEOREM OneOwnerAlways == ASSUME ~MixedFrames PROVE Spec => []OneOwner
<1>1. Init => BufferInv
  BY InitTxInv, InitBuffers DEF BufferInv
<1>2. BufferInv => OneOwner
  BY OneOwnerOf DEF BufferInv
<1> QED BY <1>1, <1>2, NextBufferInv, PTL DEF Spec

-----------------------------------------------------------------------------
(* The order of the packets.                                               *)
LEMMA TxNext ==
  ASSUME NEW d \in 0 .. NTx - 1, NEW i \in 0 .. NTx - 1
  PROVE  /\ NextTx(d) \in 0 .. NTx - 1 /\ TxPlace(d, 0) = d /\ TxPlace(d, NTx) = d
         /\ TxPlace(d, i) \in 0 .. NTx - 1
         /\ NextTx(TxPlace(d, i)) = TxPlace(d, i + 1)
         /\ TxPlace(NextTx(d), i) = TxPlace(d, i + 1) \/ i = NTx - 1
         /\ TxPlace(NextTx(d), NTx - 1) = d
BY SizeAssumption DEF TxPlace, NextTx

LEMMA InitOrder == Init => OrderInv
<1> SUFFICES ASSUME Init PROVE OrderInv
  OBVIOUS
<1>1. /\ tx = [d \in 0 .. NTx - 1 |-> Empty] /\ TxDesc = 0 /\ dmaTx = 0 /\ out = "idle"
      /\ packet = [b \in Buffers |-> 0] /\ accepted = 0 /\ line = <<>>
  BY DEF Init, Empty
<1>2. 0 \in 0 .. NTx - 1 /\ 0 \in 0 .. NTx
  BY SizeAssumption
<1>3. TxPlace(0, 0) = 0 /\ \A i \in 0 .. NTx - 1 : ~tx[TxPlace(0, i)].own
  BY <1>1, <1>2, TxNext DEF Empty
<1>4. line \in Seq(Nat) /\ Len(line) = 0 /\ DOMAIN line = {}
  BY <1>1
<1>5. Pending(0)
  <2>1. NextFilled = TxPlace(dmaTx, 0) /\ out \notin {"load", "own"} /\ 0 < NTx
    BY <1>1, <1>3, SizeAssumption DEF NextFilled
  <2>2. accepted = Len(line) + 0 + 0
    BY <1>1, <1>4
  <2>3. dmaTx = 0
    BY <1>1
  <2>4. \A i \in 0 .. NTx - 1 : ~tx[TxPlace(dmaTx, i)].own /\ ~(i < 0)
    BY <1>3, <2>3
  <2> QED BY <2>1, <2>2, <2>4 DEF Pending
<1> QED BY <1>1, <1>2, <1>4, <1>5 DEF OrderInv, LineInOrder

LEMMA OrderQuiet ==
  ASSUME OrderInv,
         UNCHANGED <<tx, TxDesc, dmaTx, out, sending, packet, accepted, line>>
  PROVE  OrderInv'
BY DEF OrderInv, Pending, NextFilled, Numbered, LineInOrder

(* The packet sent is the one that follows those sent before.              *)
LEMMA DmaSendOrder == ASSUME TxInv, OrderInv, DmaSend PROVE OrderInv'
<1> USE SizeAssumption
<1>1. /\ tx[dmaTx].own /\ dmaTx' = NextTx(dmaTx)
      /\ line' = Append(line, Numbered(tx[dmaTx].buf))
      /\ UNCHANGED <<TxDesc, out, sending, packet, accepted>>
  BY DEF DmaSend, output
<1>2. dmaTx \in 0 .. NTx - 1 /\ TxDesc \in 0 .. NTx - 1 /\ out \in Steps
  BY DEF TxInv, RingTypes
<1>3. PICK p \in 0 .. NTx : Pending(p)
  BY DEF OrderInv
<1>4. p > 0 /\ Numbered(tx[dmaTx].buf) = Len(line) + 1
  <2>1. 0 \in 0 .. NTx - 1 /\ TxPlace(dmaTx, 0) = dmaTx
    BY <1>2, TxNext
  <2>2. 0 < p
    BY <1>1, <1>3, <2>1 DEF Pending
  <2> QED BY <1>3, <2>1, <2>2 DEF Pending, OrderInv
<1>5. line \in Seq(Nat) /\ Len(line) \in Nat /\ DOMAIN line = 1 .. Len(line)
  BY DEF OrderInv
<1>6. /\ line' \in Seq(Nat) /\ Len(line') = Len(line) + 1 /\ line'[Len(line) + 1] = Len(line) + 1
      /\ \A i \in 1 .. Len(line) : line'[i] = line[i]
      /\ DOMAIN line' = 1 .. Len(line) + 1
  BY <1>1, <1>4, <1>5, AppendProperties
<1>7. LineInOrder'
  BY <1>5, <1>6 DEF OrderInv, LineInOrder
<1>8. ASSUME NEW i \in 0 .. NTx - 1
      PROVE  /\ i < NTx - 1 => /\ i + 1 \in 0 .. NTx - 1
                               /\ TxPlace(dmaTx', i) = TxPlace(dmaTx, i + 1)
             /\ i = NTx - 1 => TxPlace(dmaTx', i) = dmaTx
             /\ TxPlace(dmaTx', i) \in 0 .. NTx - 1
  <2>1. /\ NextTx(dmaTx) \in 0 .. NTx - 1
        /\ TxPlace(NextTx(dmaTx), i) = TxPlace(dmaTx, i + 1) \/ i = NTx - 1
        /\ TxPlace(NextTx(dmaTx), NTx - 1) = dmaTx
    BY <1>2, TxNext
  <2>2. TxPlace(NextTx(dmaTx), i) \in 0 .. NTx - 1
    BY <2>1, TxNext
  <2> QED BY <1>1, <2>1, <2>2
<1>9. ASSUME NEW i \in 0 .. NTx - 1 PROVE tx'[TxPlace(dmaTx', i)].own <=> i < p - 1
  <2>1. CASE i = NTx - 1
    BY <1>2, <1>8, <2>1, DmaSendBuffers
  <2>2. CASE i < NTx - 1
    <3>1. i + 1 \in 0 .. NTx - 1 /\ TxPlace(dmaTx', i) = TxPlace(dmaTx, i + 1)
          /\ TxPlace(dmaTx', i) \in 0 .. NTx - 1
      BY <1>8, <2>2
    <3>2. TxPlace(dmaTx, i + 1) # dmaTx
      BY <1>2, <2>2 DEF TxPlace
    <3>3. tx[TxPlace(dmaTx, i + 1)].own <=> i + 1 < p
      BY <1>3, <3>1 DEF Pending
    <3>4. tx'[TxPlace(dmaTx, i + 1)].own <=> tx[TxPlace(dmaTx, i + 1)].own
      BY <3>1, <3>2, DmaSendBuffers
    <3> QED BY <3>1, <3>3, <3>4
  <2> QED BY <2>1, <2>2
<1>10. ASSUME NEW i \in 0 .. NTx - 1, i < p - 1
       PROVE  Numbered(tx[TxPlace(dmaTx, i)].buf)' = Len(line') + 1 + i
  <2>1. i + 1 \in 0 .. NTx - 1 /\ i + 1 < p /\ TxPlace(dmaTx', i) = TxPlace(dmaTx, i + 1)
        /\ TxPlace(dmaTx', i) \in 0 .. NTx - 1
    BY <1>8, <1>10
  <2>2. Numbered(tx[TxPlace(dmaTx, i + 1)].buf) = Len(line) + 1 + (i + 1)
    BY <1>3, <2>1 DEF Pending
  <2>3. tx'[TxPlace(dmaTx', i)].buf = tx[TxPlace(dmaTx, i + 1)].buf
    BY <2>1, DmaSendBuffers
  <2> QED BY <1>1, <1>5, <1>6, <2>2, <2>3 DEF Numbered
<1>11. Pending(p - 1)'
  <2>1. NextFilled' = NextFilled
    BY <1>1 DEF NextFilled
  <2>2. NextFilled = TxPlace(dmaTx', p - 1)
    <3>1. NextFilled = TxPlace(dmaTx, p)
      BY <1>3 DEF Pending
    <3> QED BY <1>1, <1>2, <1>4, <3>1 DEF TxPlace, NextTx
  <2>3. accepted = Len(line) + p + (IF out \in {"load", "own"} THEN 1 ELSE 0)
    BY <1>3 DEF Pending
  <2>4. accepted' = Len(line') + (p - 1) + (IF out' \in {"load", "own"} THEN 1 ELSE 0)
    BY <1>1, <1>5, <1>6, <2>3
  <2>5. p - 1 < NTx
    OBVIOUS
  <2> QED BY <1>9, <1>10, <2>1, <2>2, <2>4, <2>5 DEF Pending
<1>12. out' = "own" => Numbered(tx[TxDesc].buf)' = accepted'
  <2>1. tx'[TxDesc].buf = tx[TxDesc].buf
    BY <1>2, DmaSendBuffers
  <2> QED BY <1>1, <2>1 DEF OrderInv, Numbered
<1>13. out' = "load" => Numbered(sending)' = accepted' /\ sending' \in Buffers
  BY <1>1 DEF OrderInv, Numbered
<1>14. p - 1 \in 0 .. NTx
  BY <1>4
<1>15. packet' \in [Buffers -> Nat] /\ accepted' \in Nat
  BY <1>1 DEF OrderInv
<1> QED BY <1>6, <1>7, <1>11, <1>12, <1>13, <1>14, <1>15 DEF OrderInv

(* Steps that leave alone what is in transmission.                         *)
LEMMA OrderKeeps ==
  ASSUME TxInv, OrderInv, UNCHANGED <<TxDesc, dmaTx, out, sending, accepted, line>>,
         packet' \in [Buffers -> Nat],
         \A d \in 0 .. NTx - 1 : tx'[d].own <=> tx[d].own,
         \A d \in 0 .. NTx - 1 : tx[d].own \/ (out = "own" /\ d = TxDesc)
            => Numbered(tx[d].buf)' = Numbered(tx[d].buf),
         out = "load" => Numbered(sending)' = Numbered(sending)
  PROVE  OrderInv'
<1>1. PICK p \in 0 .. NTx : Pending(p)
  BY DEF OrderInv
<1>2. dmaTx \in 0 .. NTx - 1 /\ TxDesc \in 0 .. NTx - 1
  BY DEF TxInv, RingTypes
<1>3. ASSUME NEW i \in 0 .. NTx - 1
      PROVE  /\ tx'[TxPlace(dmaTx', i)].own <=> i < p
             /\ i < p => Numbered(tx[TxPlace(dmaTx, i)].buf)' = Len(line') + 1 + i
  <2>1. TxPlace(dmaTx, i) \in 0 .. NTx - 1
    BY <1>2, TxNext
  <2>2. /\ tx[TxPlace(dmaTx, i)].own <=> i < p
        /\ i < p => Numbered(tx[TxPlace(dmaTx, i)].buf) = Len(line) + 1 + i
    BY <1>1 DEF Pending
  <2> QED BY <2>1, <2>2
<1>4. Pending(p)'
  <2>1. NextFilled' = NextFilled
    BY DEF NextFilled
  <2> QED BY <1>1, <1>3, <2>1 DEF Pending
<1>5. out' = "own" => Numbered(tx[TxDesc].buf)' = accepted'
  BY <1>2 DEF OrderInv
<1>6. out' = "load" => Numbered(sending)' = accepted' /\ sending' \in Buffers
  BY DEF OrderInv
<1> QED BY <1>4, <1>5, <1>6 DEF OrderInv, LineInOrder

(* Writing in a buffer that is neither in a descriptor nor being sent.     *)
LEMMA OtherPacket ==
  ASSUME packet \in [Buffers -> Nat], NEW y \in Buffers, NEW v \in Nat,
         packet' = [packet EXCEPT ![y] = v]
  PROVE  /\ packet' \in [Buffers -> Nat]
         /\ \A x \in Buffers \cup {NoBuffer} : x # y => Numbered(x)' = Numbered(x)
BY DEF Numbered

LEMMA FrameArrivesOrder ==
  ASSUME BufferInv, OrderInv, NEW ours \in BOOLEAN, FrameArrives(ours)
  PROVE  OrderInv'
<1>1. UNCHANGED <<tx, TxDesc, dmaTx, out, sending, accepted, line>>
  BY DEF FrameArrives, txRing, output
<1>2. CASE UNCHANGED packet
  BY <1>1, <1>2, OrderQuiet
<1>3. CASE packet' = [packet EXCEPT ![rx[dmaRx].buf] = 0]
  <2>1. PICK y \in Buffers : y = rx[dmaRx].buf /\ InRx(y)
    <3>1. rx[dmaRx] \in RxDescriptor /\ dmaRx \in 0 .. NRx - 1
      BY DEF BufferInv, BufferTypes
    <3>2. rx[dmaRx].buf \in Buffers
      BY <3>1 DEF RxDescriptor
    <3> QED BY <3>1, <3>2 DEF InRx
  <2>2. ~InTx(y) /\ ~InCall(y)
    BY <2>1 DEF BufferInv, PlacesInv, OnePlace, Placed
  <2>3. /\ packet' \in [Buffers -> Nat]
        /\ \A x \in Buffers \cup {NoBuffer} : x # y => Numbered(x)' = Numbered(x)
    BY <1>3, <2>1, OtherPacket DEF OrderInv
  <2>4. \A d \in 0 .. NTx - 1 : tx[d].buf # y /\ tx[d].buf \in Buffers \cup {NoBuffer}
    <3>1. \A d \in 0 .. NTx - 1 : tx[d] \in Descriptor
      BY DEF BufferInv, TxInv, RingTypes
    <3> QED BY <2>2, <3>1 DEF InTx, Descriptor
  <2>5. ASSUME NEW d \in 0 .. NTx - 1 PROVE Numbered(tx[d].buf)' = Numbered(tx[d].buf)
    <3>1. PICK x \in Buffers \cup {NoBuffer} : x = tx[d].buf /\ x # y
      BY <2>4
    <3>2. tx'[d].buf = x
      BY <1>1, <3>1
    <3> QED BY <2>3, <3>1, <3>2 DEF Numbered
  <2>6. out = "load" => Numbered(sending)' = Numbered(sending)
    <3>1. sending' = sending /\ sending \in Buffers \cup {NoBuffer}
      BY <1>1 DEF BufferInv, TxInv, RingTypes
    <3>2. out = "load" => sending # y
      BY <2>2 DEF InCall
    <3>3. PICK x \in Buffers \cup {NoBuffer} : x = sending
      BY <3>1
    <3>4. x # y => Numbered(x)' = Numbered(x)
      BY <2>3
    <3> QED BY <3>1, <3>2, <3>3, <3>4 DEF Numbered
  <2> QED BY <1>1, <2>3, <2>5, <2>6, OrderKeeps DEF BufferInv
<1> QED BY <1>2, <1>3 DEF FrameArrives

(* vClearTXBuffers does not come to the descriptor of a call under way.    *)
LEMMA ClearOrder ==
  ASSUME TxInv, OrderInv, NEW n \in 0 .. uxCount, Clear(n),
         UNCHANGED <<TxDesc, dmaTx, out, sending, packet, accepted, line>>
  PROVE  OrderInv'
<1> USE SizeAssumption
<1> DEFINE cleared == {ToClear(i) : i \in 0 .. n - 1}
<1>1. /\ tx' = [d \in DOMAIN tx |-> IF d \in cleared THEN [tx[d] EXCEPT !.buf = NoBuffer] ELSE tx[d]]
      /\ \A i \in 0 .. n - 1 : Passes(i)
  BY DEF Clear
<1>2. /\ tx \in [0 .. NTx - 1 -> Descriptor] /\ uxCount \in 0 .. NTx
      /\ DMATxDescToClear \in 0 .. NTx - 1 /\ TxDesc \in 0 .. NTx - 1 /\ out \in Steps
  BY DEF TxInv, RingTypes, uxCount
<1>3. \A d \in cleared : ~tx[d].own
  BY <1>1 DEF Passes
<1>4. out = "own" => TxDesc \notin cleared
  <2> SUFFICES ASSUME out = "own", NEW i \in 0 .. n - 1, ToClear(i) = TxDesc PROVE FALSE
    OBVIOUS
  <2>1. /\ TxDesc = TxPlace(DMATxDescToClear, uxCount - 1)
        /\ TxDesc = TxPlace(DMATxDescToClear, i)
    BY DEF TxInv, Last, ToClear
  <2>2. i \in 0 .. NTx - 1 /\ uxCount - 1 \in 0 .. NTx - 1 /\ uxCount > 0
    BY <1>2 DEF TxInv
  <2>3. i = uxCount - 1
    BY <1>2, <2>1, <2>2, Positions
  <2>4. uxCount - i = NTx
    BY <1>1 DEF Passes
  <2> QED BY <1>2, <2>3, <2>4
<1> HIDE DEF cleared
<1>5. ASSUME NEW d \in 0 .. NTx - 1
      PROVE  /\ tx'[d].own <=> tx[d].own
             /\ d \notin cleared => tx'[d].buf = tx[d].buf
  <2>1. tx[d] \in Descriptor
    BY <1>2
  <2>2. [tx[d] EXCEPT !.buf = NoBuffer] = [own |-> tx[d].own, buf |-> NoBuffer]
    BY <2>1, Fields
  <2> QED BY <1>1, <1>2, <2>1, <2>2 DEF Descriptor
<1>6. ASSUME NEW d \in 0 .. NTx - 1, tx[d].own \/ (out = "own" /\ d = TxDesc)
      PROVE  Numbered(tx[d].buf)' = Numbered(tx[d].buf)
  <2>1. tx'[d].buf = tx[d].buf
    BY <1>3, <1>4, <1>5, <1>6
  <2> QED BY <2>1 DEF Numbered
<1>7. packet' \in [Buffers -> Nat] /\ (out = "load" => Numbered(sending)' = Numbered(sending))
  BY DEF OrderInv, Numbered
<1> QED BY <1>5, <1>6, <1>7, OrderKeeps

(* While a call has its descriptor and has not given it away, the DMA does *)
(* not own the descriptor that TxDesc names.                               *)
LEMMA NextIsFree ==
  ASSUME TxInv, NEW p \in 0 .. NTx, Pending(p), out # "advance", ~tx[TxDesc].own
  PROVE  p < NTx /\ TxDesc = TxPlace(dmaTx, p)
<1>1. dmaTx \in 0 .. NTx - 1 /\ 0 \in 0 .. NTx - 1
  BY SizeAssumption DEF TxInv, RingTypes
<1>2. TxPlace(dmaTx, 0) = dmaTx /\ TxPlace(dmaTx, NTx) = dmaTx
  BY <1>1, TxNext
<1>3. TxDesc = TxPlace(dmaTx, p)
  BY DEF Pending, NextFilled
<1>4. tx[TxPlace(dmaTx, 0)].own <=> 0 < p
  BY <1>1 DEF Pending
<1>5. p # NTx
  BY <1>2, <1>3, <1>4, SizeAssumption
<1> QED BY <1>3, <1>5, SizeAssumption

LEMMA OutputTakeOrder ==
  ASSUME BufferInv, OrderInv, NEW x \in Buffers, OutputTake(x)
  PROVE  OrderInv'
<1> USE SizeAssumption
<1>1. /\ UNCHANGED <<tx, TxDesc, dmaTx, line>>
      /\ out = "idle" /\ out' = "load" /\ sending' = x /\ x \in held /\ TxSemaphore > 0
      /\ accepted' = accepted + 1 /\ packet' = [packet EXCEPT ![x] = accepted + 1]
  BY DEF OutputTake
<1>2. PICK p \in 0 .. NTx : Pending(p)
  BY DEF OrderInv
<1>3. /\ dmaTx \in 0 .. NTx - 1 /\ TxDesc \in 0 .. NTx - 1 /\ TxSemaphore \in 0 .. NTx
      /\ tx \in [0 .. NTx - 1 -> Descriptor]
  BY DEF BufferInv, TxInv, RingTypes
<1>4. tx[TxDesc] = Empty
  <2>1. uxCount \in 0 .. NTx - 1 /\ Filled = uxCount /\ TxDesc = TxPlace(DMATxDescToClear, uxCount)
    BY <1>1, <1>3 DEF BufferInv, TxInv, uxCount, Last, Filled
  <2>2. uxCount \in Filled .. NTx - 1
    BY <2>1
  <2> QED BY <2>1, <2>2 DEF BufferInv, TxInv, EmptyFrom
<1>5. p < NTx /\ TxDesc = TxPlace(dmaTx, p)
  BY <1>1, <1>2, <1>4, NextIsFree DEF BufferInv, Empty
<1>6. ~InTx(x)
  BY <1>1 DEF BufferInv, PlacesInv, OnePlace, Placed
<1>7. /\ packet' \in [Buffers -> Nat]
      /\ \A y \in Buffers \cup {NoBuffer} : y # x => Numbered(y)' = Numbered(y)
  <2>1. packet \in [Buffers -> Nat] /\ accepted + 1 \in Nat
    BY DEF OrderInv
  <2> QED BY <1>1, <2>1, OtherPacket
<1>8. ASSUME NEW i \in 0 .. NTx - 1, i < p
      PROVE  Numbered(tx[TxPlace(dmaTx, i)].buf)' = Len(line') + 1 + i
  <2>1. Numbered(tx[TxPlace(dmaTx, i)].buf) = Len(line) + 1 + i
    BY <1>2, <1>8 DEF Pending
  <2>2. TxPlace(dmaTx, i) \in 0 .. NTx - 1
    BY <1>3, TxNext
  <2>3. PICK y \in Buffers \cup {NoBuffer} : y = tx[TxPlace(dmaTx, i)].buf
    BY <1>3, <2>2 DEF Descriptor
  <2>4. y # x
    BY <1>6, <2>2, <2>3 DEF InTx
  <2>5. Numbered(y)' = Numbered(y)
    BY <1>7, <2>4
  <2>6. tx'[TxPlace(dmaTx', i)].buf = y
    BY <1>1, <2>3
  <2> QED BY <1>1, <2>1, <2>3, <2>5, <2>6 DEF Numbered
<1>9. Pending(p)'
  <2>1. NextFilled' = TxPlace(dmaTx', p)
    BY <1>1, <1>5 DEF NextFilled
  <2>2. accepted = Len(line) + p + (IF out \in {"load", "own"} THEN 1 ELSE 0)
    BY <1>2 DEF Pending
  <2>3. accepted' = Len(line') + p + (IF out' \in {"load", "own"} THEN 1 ELSE 0)
    BY <1>1, <2>2
  <2>4. \A i \in 0 .. NTx - 1 : tx'[TxPlace(dmaTx', i)].own <=> i < p
    BY <1>1, <1>2 DEF Pending
  <2> QED BY <1>5, <1>8, <2>1, <2>3, <2>4 DEF Pending
<1>10. x # NoBuffer
  BY DEF Buffers, NoBuffer
<1>11. Numbered(sending)' = accepted' /\ accepted' \in Nat
  BY <1>1, <1>10 DEF OrderInv, Numbered
<1>12. line' \in Seq(Nat) /\ LineInOrder'
  BY <1>1 DEF OrderInv, LineInOrder
<1>13. out' # "own"
  BY <1>1
<1> QED BY <1>1, <1>7, <1>9, <1>11, <1>12, <1>13 DEF OrderInv

(* A packet of its own enters the descriptor at TxDesc ...                 *)
LEMMA OutputLoadOrder == ASSUME BufferInv, OrderInv, OutputLoad PROVE OrderInv'
<1>1. /\ UNCHANGED <<TxDesc, dmaTx, line, sending, packet, accepted>>
      /\ out = "load" /\ out' = "own"
      /\ tx' = [tx EXCEPT ![TxDesc].buf = sending]
  BY DEF OutputLoad, OutputStep, counts
<1>2. PICK p \in 0 .. NTx : Pending(p)
  BY DEF OrderInv
<1>3. /\ dmaTx \in 0 .. NTx - 1 /\ TxDesc \in 0 .. NTx - 1
      /\ tx \in [0 .. NTx - 1 -> Descriptor]
  BY DEF BufferInv, TxInv, RingTypes
<1>4. tx[TxDesc] = Empty
  BY <1>1, TakenEmpty DEF BufferInv
<1>5. p < NTx /\ TxDesc = TxPlace(dmaTx, p)
  BY <1>1, <1>2, <1>4, NextIsFree DEF BufferInv, Empty
<1>6. /\ tx'[TxDesc].buf = sending
      /\ \A d \in 0 .. NTx - 1 : /\ tx'[d].own <=> tx[d].own
                                 /\ d # TxDesc => tx'[d].buf = tx[d].buf
  BY <1>1, <1>3 DEF Descriptor
<1>7. ASSUME NEW i \in 0 .. NTx - 1
      PROVE  /\ tx'[TxPlace(dmaTx', i)].own <=> i < p
             /\ i < p => Numbered(tx[TxPlace(dmaTx, i)].buf)' = Len(line') + 1 + i
  <2>1. TxPlace(dmaTx, i) \in 0 .. NTx - 1
    BY <1>3, TxNext
  <2>2. tx[TxPlace(dmaTx, i)].own <=> i < p
    BY <1>2 DEF Pending
  <2>3. ASSUME i < p PROVE Numbered(tx[TxPlace(dmaTx, i)].buf)' = Len(line') + 1 + i
    <3>1. Numbered(tx[TxPlace(dmaTx, i)].buf) = Len(line) + 1 + i
      BY <1>2, <2>3 DEF Pending
    <3>2. TxPlace(dmaTx, i) # TxDesc
      BY <1>4, <2>2, <2>3 DEF Empty
    <3>3. tx'[TxPlace(dmaTx', i)].buf = tx[TxPlace(dmaTx, i)].buf
      BY <1>1, <1>6, <2>1, <3>2
    <3> QED BY <1>1, <3>1, <3>3 DEF Numbered
  <2> QED BY <1>1, <1>6, <2>1, <2>2, <2>3
<1>8. Pending(p)'
  <2>1. NextFilled' = TxPlace(dmaTx', p)
    BY <1>1, <1>5 DEF NextFilled
  <2>2. accepted = Len(line) + p + (IF out \in {"load", "own"} THEN 1 ELSE 0)
    BY <1>2 DEF Pending
  <2> QED BY <1>1, <1>5, <1>7, <2>1, <2>2 DEF Pending
<1>9. Numbered(tx[TxDesc].buf)' = accepted'
  <2>1. Numbered(sending) = accepted
    BY <1>1 DEF OrderInv
  <2>2. tx'[TxDesc'].buf = sending
    BY <1>1, <1>6
  <2> QED BY <1>1, <2>1, <2>2 DEF Numbered
<1>10. line' \in Seq(Nat) /\ LineInOrder' /\ packet' \in [Buffers -> Nat] /\ accepted' \in Nat
  BY <1>1 DEF OrderInv, LineInOrder
<1> QED BY <1>1, <1>8, <1>9, <1>10 DEF OrderInv

(* ... is given to the DMA, behind those it has ...                        *)
LEMMA OutputOwnOrder == ASSUME TxInv, OrderInv, OutputOwn PROVE OrderInv'
<1> USE SizeAssumption
<1>1. /\ UNCHANGED <<TxDesc, dmaTx, line, packet, accepted>>
      /\ out = "own" /\ out' = "advance"
  BY DEF OutputOwn, OutputStep, counts
<1>2. PICK p \in 0 .. NTx : Pending(p)
  BY DEF OrderInv
<1>3. dmaTx \in 0 .. NTx - 1 /\ TxDesc \in 0 .. NTx - 1
  BY DEF TxInv, RingTypes
<1>4. p < NTx /\ TxDesc = TxPlace(dmaTx, p) /\ p \in 0 .. NTx - 1
  BY <1>1, <1>2 DEF Pending, NextFilled
<1>5. /\ accepted = Len(line) + p + 1 /\ Len(line) \in Nat
      /\ Numbered(tx[TxDesc].buf) = accepted
  BY <1>1, <1>2 DEF Pending, OrderInv
<1>6. ASSUME NEW i \in 0 .. NTx - 1
      PROVE  /\ tx'[TxPlace(dmaTx', i)].own <=> i < p + 1
             /\ i < p + 1 => Numbered(tx[TxPlace(dmaTx, i)].buf)' = Len(line') + 1 + i
  <2>1. TxPlace(dmaTx, i) \in 0 .. NTx - 1 /\ (TxPlace(dmaTx, i) = TxDesc <=> i = p)
    BY <1>3, <1>4, Positions
  <2>2. tx'[TxPlace(dmaTx, i)].buf = tx[TxPlace(dmaTx, i)].buf
    BY <2>1, OutputOwnBuffers
  <2>3. tx'[TxPlace(dmaTx, i)].own <=> i = p \/ tx[TxPlace(dmaTx, i)].own
    BY <2>1, OutputOwnBuffers
  <2>4. /\ tx[TxPlace(dmaTx, i)].own <=> i < p
        /\ i < p => Numbered(tx[TxPlace(dmaTx, i)].buf) = Len(line) + 1 + i
    BY <1>2 DEF Pending
  <2>5. i < p + 1 <=> i < p \/ i = p
    BY <1>4
  <2>6. i < p + 1 => Numbered(tx[TxPlace(dmaTx, i)].buf) = Len(line) + 1 + i
    BY <1>4, <1>5, <2>4, <2>5
  <2>7. Numbered(tx[TxPlace(dmaTx, i)].buf)' = Numbered(tx[TxPlace(dmaTx, i)].buf)
    BY <1>1, <2>2 DEF Numbered
  <2> QED BY <1>1, <2>3, <2>4, <2>5, <2>6, <2>7
<1>7. Pending(p + 1)'
  <2>1. NextFilled' = TxPlace(dmaTx', p + 1)
    BY <1>1, <1>3, <1>4, TxNext DEF NextFilled
  <2>2. accepted' = Len(line') + (p + 1) + (IF out' \in {"load", "own"} THEN 1 ELSE 0)
    BY <1>1, <1>4, <1>5
  <2>3. out' \notin {"load", "own"}
    BY <1>1
  <2> QED BY <1>6, <2>1, <2>2, <2>3 DEF Pending
<1>8. p + 1 \in 0 .. NTx /\ out' # "load" /\ out' # "own"
  BY <1>1, <1>4
<1>9. line' \in Seq(Nat) /\ LineInOrder' /\ packet' \in [Buffers -> Nat] /\ accepted' \in Nat
  BY <1>1 DEF OrderInv, LineInOrder
<1> QED BY <1>7, <1>8, <1>9 DEF OrderInv

(* ... and TxDesc goes on.                                                 *)
LEMMA OutputAdvanceOrder == ASSUME OrderInv, OutputAdvance PROVE OrderInv'
<1>1. /\ UNCHANGED <<tx, dmaTx, line, packet, accepted>> /\ TxDesc' = NextTx(TxDesc)
      /\ out = "advance" /\ out' = "idle"
  BY DEF OutputAdvance, OutputStep, counts
<1>2. PICK p \in 0 .. NTx : Pending(p)
  BY DEF OrderInv
<1>3. NextFilled' = NextFilled
  BY <1>1 DEF NextFilled
<1>4. Pending(p)'
  BY <1>1, <1>2, <1>3 DEF Pending, Numbered
<1> QED BY <1>1, <1>4 DEF OrderInv, LineInOrder

LEMMA NextOrderInv == BufferInv /\ OrderInv /\ [Next]_vars => OrderInv'
<1> SUFFICES ASSUME BufferInv, OrderInv, [Next]_vars PROVE OrderInv'
  OBVIOUS
<1> USE DEF txRing, output, buffers, counts
<1>1. CASE UNCHANGED vars
  BY <1>1, OrderQuiet DEF vars
<1>2. CASE DmaSend
  BY <1>2, DmaSendOrder DEF BufferInv
<1>3. CASE ETH_IRQHandler
  BY <1>3, OrderQuiet DEF ETH_IRQHandler
<1>4. ASSUME NEW ours \in BOOLEAN, FrameArrives(ours) PROVE OrderInv'
  BY <1>4, FrameArrivesOrder
<1>5. CASE TestRx \/ TestTx
  BY <1>5, OrderQuiet DEF TestRx, TestTx, Test
<1>6. CASE ClearRx \/ ClearTx
  BY <1>6, OrderQuiet DEF ClearRx, ClearTx
<1>7. CASE InputRefuse \/ InputAccept \/ InputDrop
  BY <1>7, OrderQuiet DEF InputRefuse, InputAccept, InputDrop, Dispose
<1>8. ASSUME NEW sent \in BOOLEAN, InputPass(sent) PROVE OrderInv'
  BY <1>8, OrderQuiet DEF InputPass
<1>9. CASE vClearTXBuffers
  <2>1. PICK n \in 0 .. uxCount : Clear(n)
    BY <1>9 DEF vClearTXBuffers
  <2>2. UNCHANGED <<TxDesc, dmaTx, out, sending, packet, accepted, line>>
    BY <1>9 DEF vClearTXBuffers
  <2> QED BY <2>1, <2>2, ClearOrder DEF BufferInv
<1>10. ASSUME NEW up \in BOOLEAN, CheckLink(up) PROVE OrderInv'
  BY <1>10, OrderQuiet DEF CheckLink
<1>11. CASE OutputLoad
  BY <1>11, OutputLoadOrder
<1>12. CASE OutputOwn
  BY <1>12, OutputOwnOrder DEF BufferInv
<1>13. CASE OutputAdvance
  BY <1>13, OutputAdvanceOrder
<1>14. CASE GetBuffer \/ TakeChain
  BY <1>14, OrderQuiet DEF GetBuffer, TakeChain
<1>15. ASSUME NEW b \in Buffers, ReleaseBuffer(b) PROVE OrderInv'
  BY <1>15, OrderQuiet DEF ReleaseBuffer
<1>16. ASSUME NEW b \in Buffers, OutputTake(b) PROVE OrderInv'
  BY <1>16, OutputTakeOrder
<1> QED
  BY <1>1, <1>2, <1>3, <1>4, <1>5, <1>6, <1>7, <1>8, <1>9, <1>10, <1>11, <1>12, <1>13, <1>14,
     <1>15, <1>16
  DEF Next, EmacTask, Output

(* The packets leave in the order of the calls of xNetworkInterfaceOutput, *)
(* each once and with its own contents, for any number of descriptors,     *)
(* buffers and packets: no buffer is written while the DMA still owns it.  *)
THEOREM LineInOrderAlways == ASSUME ~MixedFrames PROVE Spec => []LineInOrder
<1>1. Init => BufferInv /\ OrderInv
  BY InitTxInv, InitBuffers, InitOrder DEF BufferInv
<1>2. BufferInv /\ OrderInv /\ [Next]_vars => (BufferInv /\ OrderInv)'
  BY NextBufferInv, NextOrderInv
<1>3. OrderInv => LineInOrder
  BY DEF OrderInv
<1> QED BY <1>1, <1>2, <1>3, PTL DEF Spec

-----------------------------------------------------------------------------
(* The types, whatever the frames of a burst.                              *)
EventTypes ==
  ISREvents \subseteq {"RX", "TX"} /\ seen \subseteq {"RX", "TX"} /\ irq \subseteq {"R", "T"}

LEMMA DisposeTypes ==
  ASSUME BufferTypes, NEW new \in Buffers \cup {NoBuffer}, NEW accept \in BOOLEAN,
         Dispose(new, accept), free' \subseteq Buffers
  PROVE  BufferTypes'
<1>1. rx \in [0 .. NRx - 1 -> RxDescriptor] /\ RxDesc \in 0 .. NRx - 1
  BY DEF BufferTypes
<1>2. rx[RxDesc].buf \in Buffers /\ Installed(RxDesc, new) \in RxDescriptor
  BY <1>1 DEF RxDescriptor, Installed
<1>3. rx' \in [0 .. NRx - 1 -> RxDescriptor] /\ RxDesc' \in 0 .. NRx - 1
  BY <1>1, <1>2, RxNext DEF Dispose
<1>4. chain' \in Seq(Buffers)
  BY <1>2 DEF Dispose, BufferTypes
<1> QED BY <1>3, <1>4 DEF Dispose, BufferTypes

LEMMA NextTypes ==
  TxInv /\ BufferTypes /\ EventTypes /\ [Next]_vars => BufferTypes' /\ EventTypes'
<1> SUFFICES ASSUME TxInv, BufferTypes, EventTypes, [Next]_vars PROVE BufferTypes' /\ EventTypes'
  OBVIOUS
<1> USE DEF txRing, rxRing, task, output, buffers
<1>1. CASE UNCHANGED vars
  BY <1>1 DEF vars, BufferTypes, EventTypes
<1>2. CASE DmaSend
  BY <1>2 DEF DmaSend, BufferTypes, EventTypes
<1>3. CASE ETH_IRQHandler
  BY <1>3 DEF ETH_IRQHandler, Event, BufferTypes, EventTypes
<1>4. ASSUME NEW ours \in BOOLEAN, FrameArrives(ours) PROVE BufferTypes' /\ EventTypes'
  <2>1. UNCHANGED <<RxDesc, free, held, pxNew, chain, queue, ISREvents, seen>>
        /\ irq' = irq \cup {"R"}
    BY <1>4 DEF FrameArrives
  <2>2. rx \in [0 .. NRx - 1 -> RxDescriptor] /\ dmaRx \in 0 .. NRx - 1
    BY DEF BufferTypes
  <2>3. CASE rx[dmaRx].own
    <3>1. /\ rx' = [rx EXCEPT ![dmaRx].own = FALSE, ![dmaRx].ours = ours]
          /\ dmaRx' = NextRx(dmaRx)
      BY <1>4, <2>3 DEF FrameArrives
    <3>2. rx' \in [0 .. NRx - 1 -> RxDescriptor]
      BY <2>2, <3>1 DEF RxDescriptor
    <3>3. dmaRx' \in 0 .. NRx - 1
      BY <2>2, <3>1, RxNext
    <3> QED BY <2>1, <3>2, <3>3 DEF BufferTypes, EventTypes
  <2>4. CASE ~rx[dmaRx].own
    BY <1>4, <2>1, <2>4 DEF FrameArrives, BufferTypes, EventTypes
  <2> QED BY <2>3, <2>4
<1>5. CASE TestRx \/ TestTx
  BY <1>5 DEF TestRx, TestTx, Test, BufferTypes, EventTypes
<1>6. CASE ClearRx \/ ClearTx
  BY <1>6 DEF ClearRx, ClearTx, StoreEvents, Cleared, BufferTypes, EventTypes
<1>7. CASE InputRefuse \/ InputAccept \/ InputDrop
  <2>1. PICK new \in Buffers \cup {NoBuffer}, accept \in BOOLEAN :
          Dispose(new, accept) /\ free' \subseteq Buffers
    <3>1. CASE InputRefuse
      BY <3>1 DEF InputRefuse, BufferTypes
    <3>2. CASE InputAccept
      <4>1. Min(free) \in Buffers
        BY <3>2, FirstFree DEF InputAccept, BufferTypes
      <4> QED BY <3>2, <4>1 DEF InputAccept, BufferTypes
    <3>3. CASE InputDrop
      BY <3>3 DEF InputDrop, BufferTypes
    <3> QED BY <1>7, <3>1, <3>2, <3>3
  <2> QED BY <2>1, DisposeTypes DEF Dispose, EventTypes
<1>8. ASSUME NEW sent \in BOOLEAN, InputPass(sent) PROVE BufferTypes' /\ EventTypes'
  <2>1. Range(chain) \subseteq Buffers
    BY RangeOfSeq DEF BufferTypes
  <2> QED BY <1>8, <2>1 DEF InputPass, BufferTypes, EventTypes
<1>9. CASE vClearTXBuffers
  <2>1. PICK n \in 0 .. uxCount : Clear(n)
    BY <1>9 DEF vClearTXBuffers
  <2>2. \A i \in 0 .. n - 1 : tx[ToClear(i)].buf \in Buffers \cup {NoBuffer}
    <3>1. uxCount \in 0 .. NTx /\ DMATxDescToClear \in 0 .. NTx - 1
          /\ \A d \in 0 .. NTx - 1 : tx[d].buf \in Buffers \cup {NoBuffer}
      BY SizeAssumption DEF TxInv, RingTypes, uxCount, Descriptor
    <3>2. \A i \in 0 .. n - 1 : i \in 0 .. NTx - 1
      BY <3>1, SizeAssumption
    <3> QED BY <3>1, <3>2, Positions DEF ToClear
  <2>3. free' \subseteq Buffers
    BY <2>1, <2>2 DEF Clear, BufferTypes
  <2> QED BY <1>9, <2>3 DEF vClearTXBuffers, BufferTypes, EventTypes
<1>10. ASSUME NEW up \in BOOLEAN, CheckLink(up) PROVE BufferTypes' /\ EventTypes'
  BY <1>10 DEF CheckLink, BufferTypes, EventTypes
<1>11. CASE Output
  BY <1>11 DEF Output, OutputLoad, OutputOwn, OutputAdvance, OutputStep, BufferTypes, EventTypes
<1>12. CASE GetBuffer
  <2>1. Min(free) \in Buffers
    BY <1>12, FirstFree DEF GetBuffer, BufferTypes
  <2> QED BY <1>12, <2>1 DEF GetBuffer, BufferTypes, EventTypes
<1>13. CASE TakeChain
  <2>1. queue # <<>> /\ queue \in Seq(Seq(Buffers))
    BY <1>13 DEF TakeChain, BufferTypes
  <2>2. Range(Head(queue)) \subseteq Buffers /\ Tail(queue) \in Seq(Seq(Buffers))
    BY <2>1, HeadTailProperties, RangeOfSeq
  <2> QED BY <1>13, <2>2 DEF TakeChain, BufferTypes, EventTypes
<1>14. ASSUME NEW b \in Buffers, ReleaseBuffer(b) \/ OutputTake(b)
       PROVE  BufferTypes' /\ EventTypes'
  BY <1>14 DEF ReleaseBuffer, OutputTake, BufferTypes, EventTypes
<1> QED
  BY <1>1, <1>2, <1>3, <1>4, <1>5, <1>6, <1>7, <1>8, <1>9, <1>10, <1>11, <1>12, <1>13, <1>14
  DEF Next, EmacTask

(* Indices stay in their rings, buffers are buffers, the count of the      *)
(* semaphore stays between 0 and ETH_TXBUFNB.                              *)
THEOREM EthernetTypes == Spec => []TypeOK
<1>1. Init => TxInv /\ BufferTypes /\ EventTypes
  BY InitTxInv, InitBuffers DEF Init, EventTypes
<1>2. TxInv /\ BufferTypes /\ EventTypes /\ [Next]_vars => (TxInv /\ BufferTypes /\ EventTypes)'
  BY NextTxInv, NextTypes
<1>3. TxInv /\ BufferTypes /\ EventTypes => TypeOK
  BY DEF TypeOK, TxInv, RingTypes, Descriptor, BufferTypes, RxDescriptor, EventTypes
<1> QED BY <1>1, <1>2, <1>3, PTL DEF Spec
=============================================================================
