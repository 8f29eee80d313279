--------------------------- MODULE MCSerialInput ---------------------------
(* Model checking of SerialInput.  A place of RxCommand that nothing waits *)
(* in, and bytes once read, are not read again: the view leaves them out.  *)
EXTENDS SerialInput

Waiting == {i \in 0 .. RxSize - 1 : ReadyBytes(Uarttail, i) < UartReadyBytes}
View == << [i \in Waiting |-> RxCommand[i]], UartRxPtr, Uarttail, reader, PinnedPtr, Loc, Buff,
           arrived, taken, overrun, at, ed, shown, entered, history >>
=============================================================================
