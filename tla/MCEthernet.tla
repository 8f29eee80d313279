----------------------------- MODULE MCEthernet -----------------------------
(* Model checking of Ethernet: rings of a few descriptors.                 *)
EXTENDS Ethernet

(* As long as every buffer has one owner, states that differ only in which *)
(* buffer is where are the same state: the view counts them, and says      *)
(* whether that is so.  Of the contents it keeps what is in transmission,  *)
(* and leaves out what the next step that reads it will have written.      *)
Lengths(s) == [i \in DOMAIN s |-> Len(s[i])]
View ==
  << [d \in DOMAIN tx |-> <<tx[d].own, tx[d].buf # NoBuffer, Numbered(tx[d].buf)>>],
     [d \in DOMAIN rx |-> <<rx[d].own, ~rx[d].own /\ rx[d].ours>>],
     TxDesc, RxDesc, DMATxDescToClear, dmaTx, dmaRx, TxSemaphore, ISREvents, irq,
     emac, seen, pxNew # NoBuffer, Len(chain), Lengths(queue),
     Cardinality(held), Cardinality(free), out, Numbered(sending), link,
     accepted, frames, line, lost, OneOwner >>
=============================================================================
