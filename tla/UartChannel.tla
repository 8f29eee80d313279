---------------------------- MODULE UartChannel ----------------------------
(***************************************************************************)
(* What the transmit side of the debug UART promises its callers: a        *)
(* bounded FIFO.  A call is accepted in whole or in part (sendUartBytes    *)
(* drops what does not fit), what is accepted is delivered once, in order. *)
(* Bytes are numbered in the order they are accepted.                      *)
(***************************************************************************)
EXTENDS Naturals

CONSTANT Capacity

VARIABLES accepted, delivered
vars == <<accepted, delivered>>

Init == accepted = 0 /\ delivered = 0

Accept ==
  /\ \E n \in 1 .. Capacity : accepted' = accepted + n
  /\ accepted' - delivered <= Capacity
  /\ UNCHANGED delivered

Deliver ==
  /\ delivered < accepted
  /\ delivered' = delivered + 1
  /\ UNCHANGED accepted

Next == Accept \/ Deliver
Spec == Init /\ [][Next]_vars /\ WF_vars(Deliver)
=============================================================================
