------------------------------ MODULE MCUartTx ------------------------------
(* Bounds for UartTx: a ring of 5 (4 bytes usable), a DMA buffer of 2.      *)
EXTENDS UartTx
=============================================================================
