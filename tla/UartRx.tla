------------------------------- MODULE UartRx -------------------------------
(***************************************************************************)
(* The receive side of debugUart.c: the interrupt handler writes each byte *)
(* into RxCommand and never looks at the reader; GetUartReadyBytes pins    *)
(* the write index, copies what lies before it, and moves the tail there.  *)
(* The handler may come between any two of these steps.  The indices are   *)
(* 8 bits wide and RxCommand has 256 bytes, so both wrap by themselves.    *)
(***************************************************************************)
EXTENDS Integers, Sequences

CONSTANTS
  RxSize,    \* sizeof(RxCommand), the range of the indices
  Keys,      \* the bytes that arrive
  MaxBytes   \* bound: bytes that arrive

ASSUME RxAssumption == RxSize \in Nat /\ RxSize > 1 /\ MaxBytes \in Nat

VARIABLES
  RxCommand,         \* a byte and its number among all that arrived
  UartRxPtr, Uarttail,
  reader,            \* is GetUartReadyBytes running?
  PinnedPtr, Loc, Buff,   \* its local variables, and what it has copied
  arrived, taken,    \* bytes that arrived, bytes that were read
  overrun            \* have RxSize bytes been waiting?
rxVars == <<RxCommand, UartRxPtr, Uarttail, reader, PinnedPtr, Loc, Buff, arrived, taken, overrun>>

Nothing == [key |-> "none", n |-> 0]
InitRx ==
  /\ RxCommand = [i \in 0 .. RxSize - 1 |-> Nothing]
  /\ UartRxPtr = 0 /\ Uarttail = 0
  /\ reader = FALSE /\ PinnedPtr = 0 /\ Loc = 0 /\ Buff = <<>>
  /\ arrived = 0 /\ taken = 0 /\ overrun = FALSE

NextIndexLate(i) == IF i = RxSize THEN 0 ELSE i + 1
NextIndex(i) == IF i = RxSize - 1 THEN 0 ELSE i + 1

USART1_IRQHandler(key) ==
  /\ arrived < MaxBytes
  /\ RxCommand' = [RxCommand EXCEPT ![UartRxPtr] = [key |-> key, n |-> arrived + 1]]
  /\ UartRxPtr' = NextIndex(UartRxPtr)
  /\ arrived' = arrived + 1
  /\ overrun' = (overrun \/ arrived + 1 - taken >= RxSize)
  /\ UNCHANGED <<Uarttail, reader, PinnedPtr, Loc, Buff, taken>>

(* GetUartReadyBytes: pin the end, ...                                     *)
GetBegin ==
  /\ ~reader /\ Uarttail # UartRxPtr
  /\ reader' = TRUE
  /\ PinnedPtr' = UartRxPtr /\ Loc' = Uarttail /\ Buff' = <<>>
  /\ UNCHANGED <<RxCommand, UartRxPtr, Uarttail, arrived, taken, overrun>>
(* ... copy a byte, ...                                                    *)
GetCopy ==
  /\ reader /\ Loc # PinnedPtr
  /\ Buff' = Append(Buff, RxCommand[Loc])
  /\ Loc' = NextIndex(Loc)
  /\ UNCHANGED <<RxCommand, UartRxPtr, Uarttail, reader, PinnedPtr, arrived, taken, overrun>>
(* ... and when the end is reached, the tail follows.                      *)
LatestNotPinned == UartRxPtr
Pinned == PinnedPtr
GetEnd ==
  /\ reader /\ Loc = PinnedPtr
  /\ Uarttail' = Pinned
  /\ reader' = FALSE
  /\ taken' = taken + Len(Buff)
  /\ PinnedPtr' = 0 /\ Loc' = 0 /\ Buff' = <<>>      \* gone with the call
  /\ UNCHANGED <<RxCommand, UartRxPtr, arrived, overrun>>

NextRx == (\E key \in Keys : USART1_IRQHandler(key)) \/ GetBegin \/ GetCopy \/ GetEnd
SpecRx == InitRx /\ [][NextRx]_rxVars

(* The bytes from one index to another, an 8-bit difference in the code.   *)
ReadyBytes(from, to) == IF to >= from THEN to - from ELSE RxSize - from + to
UartReadyBytes == ReadyBytes(Uarttail, UartRxPtr)

(* As long as fewer than RxSize bytes wait, what is read is what arrived,  *)
(* in the order of arrival: none lost, none twice, none overwritten while  *)
(* it is copied (debugUart.c 144-157 against 169).                         *)
RxFifo ==
  ~overrun =>
    /\ reader => \A i \in DOMAIN Buff : Buff[i].n = taken + i
    /\ UartReadyBytes = arrived - taken
=============================================================================
