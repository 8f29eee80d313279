------------------------------ MODULE Ethernet ------------------------------
(***************************************************************************)
(* The Ethernet driver NetworkInterface.c over the network buffers of      *)
(* BufferAllocation_1.c, as configured in FreeRTOSIPConfig.h: zero-copy in *)
(* both directions, received packets passed on in linked chains.           *)
(*                                                                         *)
(* Four actors: the MAC with its DMA, which owns the descriptors that have *)
(* their OWN bit set; the interrupt handler, which turns what the MAC      *)
(* reports into bits of ulISREvents; the EMAC task, the highest priority,  *)
(* which empties the receive ring and releases sent buffers; the IP task   *)
(* and the applications behind it, which hold buffers and send.  The EMAC  *)
(* task is interrupted by the handler alone, but it also waits: for a      *)
(* network buffer, and for room in the queue of the IP task.               *)
(***************************************************************************)
EXTENDS Integers, Sequences, FiniteSets, Functions, FiniteSetsExt

CONSTANTS
  NTx, NRx,     \* ETH_TXBUFNB, ETH_RXBUFNB
  NBuffers,     \* ipconfigNUM_NETWORK_BUFFER_DESCRIPTORS
  MixedFrames,  \* may a frame for others follow one for us in a burst?
  MaxFrames,    \* bound: frames that arrive
  MaxPackets    \* bound: packets given to xNetworkInterfaceOutput

ASSUME SizeAssumption ==
  /\ NTx \in Nat /\ NTx > 1 /\ NRx \in Nat \ {0}
  /\ NBuffers \in Nat /\ NBuffers > NRx
  /\ MixedFrames \in BOOLEAN /\ MaxFrames \in Nat /\ MaxPackets \in Nat

VARIABLES
  tx, rx,       \* DMATxDscrTab, DMARxDscrTab: OWN bit and Buffer1Addr, for a
                \* received frame whether it is one for us
  TxDesc, RxDesc,       \* xETH.TxDesc, xETH.RxDesc
  DMATxDescToClear,
  dmaTx, dmaRx, \* the descriptors the DMA has come to
  TxSemaphore,  \* count of xTXDescriptorSemaphore
  free,         \* xFreeBuffersList; xNetworkBufferSemaphore counts it
  ISREvents,    \* ulISREvents
  irq,          \* flags raised in DMASR
  emac,         \* where the EMAC task is
  seen,         \* its register in a read-modify-write of ulISREvents
  pxNew,        \* pxNewDescriptor
  chain,        \* pxFirstDescriptor .. pxLastDescriptor
  queue,        \* xNetworkEventQueue: chains of received packets
  held,         \* buffers of the IP task, its sockets and the applications
  out, sending, \* where xNetworkInterfaceOutput is, and its pxDescriptor
  link,         \* ulLinkStatusMask # 0
  packet,       \* number of the packet in each buffer, 0 if it is not one of ours
  accepted, frames,     \* packets that got a descriptor, frames that arrived
  line,         \* packets the MAC has sent
  lost          \* was a bit that the handler set in ulISREvents overwritten?
txRing == <<tx, TxDesc, DMATxDescToClear, dmaTx, TxSemaphore>>
rxRing == <<rx, RxDesc, dmaRx>>
task   == <<emac, seen, pxNew, chain>>
output == <<out, sending>>
counts == <<packet, accepted, frames, line>>
vars == <<txRing, rxRing, free, ISREvents, irq, task, queue, held, output, link, counts, lost>>

Buffers == 1 .. NBuffers
NoBuffer == 0
NextTx(d) == IF d = NTx - 1 THEN 0 ELSE d + 1
NextRxLate(d) == IF d = NRx THEN 0 ELSE d + 1
NextRx(d) == IF d = NRx - 1 THEN 0 ELSE d + 1

(* xNetworkInterfaceInitialise: prvDMARxDescListInit gives each receive    *)
(* descriptor a buffer of its own.                                         *)
Init ==
  /\ tx = [d \in 0 .. NTx - 1 |-> [own |-> FALSE, buf |-> NoBuffer]]
  /\ rx = [d \in 0 .. NRx - 1 |-> [own |-> TRUE, buf |-> d + 1, ours |-> FALSE]]
  /\ TxDesc = 0 /\ RxDesc = 0 /\ DMATxDescToClear = 0 /\ dmaTx = 0 /\ dmaRx = 0
  /\ TxSemaphore = NTx
  /\ free = NRx + 1 .. NBuffers
  /\ ISREvents = {} /\ irq = {}
  /\ emac = "loop" /\ seen = {} /\ pxNew = NoBuffer /\ chain = <<>>
  /\ queue = <<>> /\ held = {}
  /\ out = "idle" /\ sending = NoBuffer
  /\ link = TRUE
  /\ packet = [b \in Buffers |-> 0] /\ accepted = 0 /\ frames = 0 /\ line = <<>>
  /\ lost = FALSE

-----------------------------------------------------------------------------
(* The MAC and its DMA.                                                    *)

(* The next packet is sent: the DMA hands the descriptor back.             *)
Numbered(b) == IF b = NoBuffer THEN 0 ELSE packet[b]
DmaSend ==
  /\ link /\ tx[dmaTx].own
  /\ tx' = [tx EXCEPT ![dmaTx].own = FALSE]
  /\ dmaTx' = NextTx(dmaTx)
  /\ line' = Append(line, Numbered(tx[dmaTx].buf))
  /\ irq' = irq \cup {"T"}
  /\ UNCHANGED <<TxDesc, DMATxDescToClear, TxSemaphore, rxRing, free, ISREvents, task, queue,
                 held, output, link, packet, accepted, frames, lost>>

(* Frames for us that the EMAC task will find when it looks.               *)
OursWaiting == pxNew # NoBuffer \/ \E d \in DOMAIN rx : ~rx[d].own /\ rx[d].ours

(* A frame arrives; with no descriptor to put it in, it is dropped (RBU).  *)
FrameArrives(ours) ==
  /\ link /\ frames < MaxFrames
  /\ ours \/ MixedFrames \/ ~OursWaiting
  /\ frames' = frames + 1
  /\ irq' = irq \cup {"R"}
  /\ IF rx[dmaRx].own
       THEN /\ rx' = [rx EXCEPT ![dmaRx].own = FALSE, ![dmaRx].ours = ours]
            /\ packet' = [packet EXCEPT ![rx[dmaRx].buf] = 0]
            /\ dmaRx' = NextRx(dmaRx)
       ELSE UNCHANGED <<rx, packet, dmaRx>>
  /\ UNCHANGED <<txRing, RxDesc, free, ISREvents, task, queue, held, output, link, accepted,
                 line, lost>>

(* HAL_ETH_IRQHandler with HAL_ETH_RxCpltCallback, HAL_ETH_TxCpltCallback  *)
EventRx(flag) == "RX"
Event(flag) == IF flag = "R" THEN "RX" ELSE "TX"
ETH_IRQHandler ==
  /\ irq # {}
  /\ irq' = {}
  /\ ISREvents' = ISREvents \cup {Event(f) : f \in irq}
  /\ UNCHANGED <<txRing, rxRing, free, task, queue, held, output, link, counts, lost>>

-----------------------------------------------------------------------------
(* The EMAC task.                                                          *)

(* ulISREvents &= ~event: the event that was tested for is loaded here ... *)
Test(event, yes, no) ==
  /\ IF event \in ISREvents THEN emac' = yes /\ seen' = ISREvents
                            ELSE emac' = no /\ UNCHANGED seen
  /\ UNCHANGED <<txRing, rxRing, free, ISREvents, irq, pxNew, chain, queue, held, output, link,
                 counts, lost>>

(* ... and the result stored here, whatever the handler has set meanwhile. *)
Cleared(event) == seen \ {event}
StoreEvents(event) ==
  /\ ISREvents' = Cleared(event)
  /\ lost' = (lost \/ ~(ISREvents \subseteq Cleared(event) \cup {event}))
  /\ seen' = {}

(* The loop waits for an event, at most 100 ms: it may always go on.       *)
TestRx == emac = "loop" /\ Test("RX", "clearRx", "txTest")
ClearRx ==
  /\ emac = "clearRx" /\ StoreEvents("RX")
  /\ emac' = "input"
  /\ UNCHANGED <<txRing, rxRing, free, irq, pxNew, chain, queue, held, output, link, counts>>

(* prvNetworkInterfaceInput, one frame: it is refused, or takes the place  *)
(* of a new buffer, or is dropped for want of one.  Whatever pxNewDescriptor *)
(* holds is put in the descriptor: after a refused frame, too.             *)
InstalledNever(d, new) == [rx[d] EXCEPT !.own = TRUE]
Installed(d, new) ==
  IF new = NoBuffer THEN [rx[d] EXCEPT !.own = TRUE] ELSE [rx[d] EXCEPT !.own = TRUE, !.buf = new]
Dispose(new, accept) ==
  /\ pxNew' = new
  /\ rx' = [rx EXCEPT ![RxDesc] = Installed(RxDesc, new)]
  /\ chain' = IF accept THEN Append(chain, rx[RxDesc].buf) ELSE chain
  /\ RxDesc' = NextRx(RxDesc)
  /\ emac' = "input"
  /\ UNCHANGED <<txRing, dmaRx, ISREvents, irq, seen, queue, held, output, link, counts, lost>>

FrameWaits == emac = "input" /\ ~rx[RxDesc].own
InputRefuse == FrameWaits /\ ~rx[RxDesc].ours /\ Dispose(pxNew, FALSE) /\ UNCHANGED free
InputAccept ==
  /\ FrameWaits /\ rx[RxDesc].ours /\ free # {}
  /\ free' = free \ {Min(free)}
  /\ Dispose(Min(free), TRUE)
(* niDESCRIPTOR_WAIT_TIME_MS has passed without a buffer                   *)
InputDrop == FrameWaits /\ rx[RxDesc].ours /\ free = {} /\ Dispose(NoBuffer, FALSE) /\ UNCHANGED free

(* prvPassEthMessages; the queue may be full for too long.                 *)
InputPass(sent) ==
  /\ emac = "input" /\ rx[RxDesc].own
  /\ emac' = "txTest" /\ pxNew' = NoBuffer /\ chain' = <<>>
  /\ chain = <<>> => sent
  /\ queue' = IF sent /\ chain # <<>> THEN Append(queue, chain) ELSE queue
  /\ free' = IF sent THEN free ELSE free \cup Range(chain)
  /\ UNCHANGED <<txRing, rxRing, ISREvents, irq, seen, held, output, link, counts, lost>>

TestTx == emac = "txTest" /\ Test("TX", "clearTx", "phy")
ClearTx ==
  /\ emac = "clearTx" /\ StoreEvents("TX")
  /\ emac' = "release"
  /\ UNCHANGED <<txRing, rxRing, free, irq, pxNew, chain, queue, held, output, link, counts>>

(* vClearTXBuffers: the descriptors it passes are those that the DMA has   *)
(* given back, up to the one that xNetworkInterfaceOutput will use next.   *)
uxCount == NTx - TxSemaphore
TxPlace(d, i) == IF d + i < NTx THEN d + i ELSE d + i - NTx
ToClear(i) == TxPlace(DMATxDescToClear, i)
PassesAll(i) == ~tx[ToClear(i)].own
PassesOwned(i) == ToClear(i) = TxDesc => uxCount - i = NTx
Passes(i) == ~tx[ToClear(i)].own /\ (ToClear(i) = TxDesc => uxCount - i = NTx)
Clear(n) ==
  LET cleared == {ToClear(i) : i \in 0 .. n - 1} IN
  /\ \A i \in 0 .. n - 1 : Passes(i)
  /\ n < uxCount => ~Passes(n)
  /\ free' = free \cup ({tx[d].buf : d \in cleared} \ {NoBuffer})
  /\ tx' = [d \in DOMAIN tx |-> IF d \in cleared THEN [tx[d] EXCEPT !.buf = NoBuffer] ELSE tx[d]]
  /\ DMATxDescToClear' = ToClear(n)
  /\ TxSemaphore' = TxSemaphore + n
vClearTXBuffers ==
  /\ emac = "release" /\ emac' = "phy"
  /\ \E n \in 0 .. uxCount : Clear(n)
  /\ UNCHANGED <<TxDesc, dmaTx, rxRing, ISREvents, irq, seen, pxNew, chain, queue, held, output,
                 link, counts, lost>>

(* xPhyCheckLinkStatus and prvEthernetUpdateConfig: HAL_ETH_Start and      *)
(* HAL_ETH_Stop leave the descriptors and the place of the DMA alone.      *)
CheckLink(up) ==
  /\ emac = "phy"
  /\ link' = up
  /\ emac' = "loop"
  /\ UNCHANGED <<txRing, rxRing, free, ISREvents, irq, seen, pxNew, chain, queue, held, output,
                 counts, lost>>

-----------------------------------------------------------------------------
(* The IP task, its sockets and the applications.  They have lower         *)
(* priorities than the EMAC task and run when it waits: for an event, a    *)
(* buffer or room in the queue, or for the log it writes on the way.       *)
EmacWaits == emac \in {"loop", "input", "phy"}
buffers == <<txRing, rxRing, ISREvents, irq, task, link, counts, lost>>

(* pxGetNetworkBufferWithDescriptor, for a packet to be sent               *)
GetBuffer ==
  /\ EmacWaits /\ free # {} /\ accepted < MaxPackets
  /\ held' = held \cup {Min(free)} /\ free' = free \ {Min(free)}
  /\ UNCHANGED <<buffers, queue, output>>

(* prvHandleEthernetPacket                                                 *)
TakeChain ==
  /\ EmacWaits /\ out = "idle" /\ queue # <<>>
  /\ held' = held \cup Range(Head(queue)) /\ queue' = Tail(queue)
  /\ UNCHANGED <<buffers, free, output>>

(* vReleaseNetworkBufferAndDescriptor: of a buffer no longer needed, also  *)
(* of one that xNetworkInterfaceOutput cannot send, as the link is down    *)
(* or no descriptor has become free in 50 ms.                              *)
ReleaseBuffer(b) ==
  /\ EmacWaits /\ b \in held
  /\ held' = held \ {b} /\ free' = free \cup {b}
  /\ UNCHANGED <<buffers, queue, output>>

(* xNetworkInterfaceOutput with a packet in buffer b                       *)
OutputTake(b) ==
  /\ EmacWaits /\ out = "idle" /\ b \in held /\ accepted < MaxPackets
  /\ link /\ TxSemaphore > 0
  /\ TxSemaphore' = TxSemaphore - 1
  /\ out' = "load" /\ sending' = b
  /\ held' = held \ {b}
  /\ accepted' = accepted + 1 /\ packet' = [packet EXCEPT ![b] = accepted + 1]
  /\ UNCHANGED <<tx, TxDesc, DMATxDescToClear, dmaTx, rxRing, free, ISREvents, irq, task, queue,
                 link, frames, line, lost>>

OutputStep(from, to) ==
  /\ EmacWaits /\ out = from /\ out' = to
  /\ UNCHANGED <<DMATxDescToClear, dmaTx, TxSemaphore, rxRing, free, ISREvents, irq, task, queue,
                 held, link, counts, lost>>

OutputLoad ==
  /\ OutputStep("load", "own")
  /\ tx' = [tx EXCEPT ![TxDesc].buf = sending]
  /\ UNCHANGED <<TxDesc, sending>>
OutputOwn ==
  /\ OutputStep("own", "advance")
  /\ tx' = [tx EXCEPT ![TxDesc].own = TRUE]
  /\ sending' = NoBuffer
  /\ UNCHANGED TxDesc
OutputAdvance ==
  /\ OutputStep("advance", "idle")
  /\ TxDesc' = NextTx(TxDesc)
  /\ UNCHANGED <<tx, sending>>

-----------------------------------------------------------------------------
EmacTask ==
  \/ TestRx \/ ClearRx \/ InputRefuse \/ InputAccept \/ InputDrop
  \/ \E sent \in BOOLEAN : InputPass(sent)
  \/ TestTx \/ ClearTx \/ vClearTXBuffers
  \/ \E up \in BOOLEAN : CheckLink(up)
Output == OutputLoad \/ OutputOwn \/ OutputAdvance
Next ==
  \/ DmaSend \/ ETH_IRQHandler
  \/ \E ours \in BOOLEAN : FrameArrives(ours)
  \/ EmacTask \/ Output
  \/ GetBuffer \/ TakeChain
  \/ \E b \in Buffers : ReleaseBuffer(b) \/ OutputTake(b)

(* The handler is entered, the MAC sends, the EMAC task runs; the IP task  *)
(* gets its turn whenever the EMAC task waits, again and again.  Nothing   *)
(* has to be received, and nobody has to send.                             *)
Fairness == WF_vars(DmaSend) /\ WF_vars(ETH_IRQHandler) /\ WF_vars(EmacTask) /\ SF_vars(Output)
Spec == Init /\ [][Next]_vars /\ Fairness

-----------------------------------------------------------------------------
TypeOK ==
  /\ tx \in [0 .. NTx - 1 -> [own : BOOLEAN, buf : Buffers \cup {NoBuffer}]]
  /\ rx \in [0 .. NRx - 1 -> [own : BOOLEAN, buf : Buffers, ours : BOOLEAN]]
  /\ {TxDesc, DMATxDescToClear, dmaTx} \subseteq 0 .. NTx - 1
  /\ {RxDesc, dmaRx} \subseteq 0 .. NRx - 1
  /\ TxSemaphore \in 0 .. NTx
  /\ free \subseteq Buffers /\ held \subseteq Buffers
  /\ ISREvents \subseteq {"RX", "TX"} /\ seen \subseteq {"RX", "TX"} /\ irq \subseteq {"R", "T"}

(* Every network buffer is at every moment in exactly one place: on the    *)
(* free list, in a receive descriptor, in the chain being collected, in    *)
(* the queue, with the IP task, or in a transmit descriptor.  None leaks,  *)
(* none is used twice (NetworkInterface.c 343, 943-1001).                  *)
InChains(b) == Cardinality({i \in DOMAIN queue : b \in Range(queue[i])})
Owners(b) ==
  Cardinality({d \in DOMAIN rx : rx[d].buf = b}) + Cardinality({d \in DOMAIN tx : tx[d].buf = b})
  + InChains(b)
  + Cardinality({place \in {"free", "held", "chain", "sending"} :
      CASE place = "free" -> b \in free
        [] place = "held" -> b \in held
        [] place = "chain" -> b \in Range(chain)
        [] place = "sending" -> b = sending /\ out = "load"})
OneOwner == \A b \in Buffers : Owners(b) = 1

(* The configASSERT of xNetworkInterfaceOutput (line 681), and more: who   *)
(* got the semaphore finds its descriptor given back by the DMA and        *)
(* emptied by vClearTXBuffers.                                             *)
TakenIsFree == out = "load" => tx[TxDesc] = [own |-> FALSE, buf |-> NoBuffer]

(* The packets go out in the order of the calls, each once, each with the  *)
(* contents it was given.                                                  *)
LineInOrder == \A i \in DOMAIN line : line[i] = i

(* The transmit side never comes to a stand with a link that stays up: a   *)
(* descriptor becomes free again and again.  Only a TX event that was      *)
(* overwritten in ulISREvents can stop it.                                 *)
TxGoesOn == []<>(TxSemaphore > 0 \/ ~link \/ lost)
=============================================================================
