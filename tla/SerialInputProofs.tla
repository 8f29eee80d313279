------------------------- MODULE SerialInputProofs -------------------------
(***************************************************************************)
(* The receive ring delivers what arrived, for every size of the ring:     *)
(* first for UartRx by itself, then for the serial console that reads it.  *)
(***************************************************************************)
EXTENDS SerialInput, TLAPS, SequenceTheorems, FiniteSetTheorems, WellFoundedInduction

(* The types of the ring and of GetUartReadyBytes.                         *)
Item == [key : Keys \cup {"none"}, n : Nat]
RxTypes ==
  /\ RxCommand \in [0 .. RxSize - 1 -> Item]
  /\ UartRxPtr \in 0 .. RxSize - 1 /\ Uarttail \in 0 .. RxSize - 1
  /\ PinnedPtr \in 0 .. RxSize - 1 /\ Loc \in 0 .. RxSize - 1
  /\ Buff \in Seq(Item)
  /\ arrived \in Nat /\ taken \in Nat
  /\ reader \in BOOLEAN /\ overrun \in BOOLEAN

(* The place of the k-th byte that waits, counted from 0                   *)
Place(k) == IF Uarttail + k < RxSize THEN Uarttail + k ELSE Uarttail + k - RxSize

(* The ring holds the bytes that have not been read, in order.             *)
RingHolds ==
  /\ UartReadyBytes = arrived - taken
  /\ \A k \in 0 .. RxSize - 1 : k < arrived - taken => RxCommand[Place(k)].n = taken + k + 1

(* A read stands behind the bytes it has copied and before its pinned end, *)
(* which the handler cannot overtake.                                      *)
CopyHolds ==
  /\ ReadyBytes(Uarttail, PinnedPtr) <= arrived - taken
  /\ Len(Buff) <= ReadyBytes(Uarttail, PinnedPtr)
  /\ Loc = Place(Len(Buff))
  /\ \A i \in 1 .. Len(Buff) : Buff[i].n = taken + i

RxInv == RxTypes /\ (~overrun => RingHolds /\ (reader => CopyHolds))

-----------------------------------------------------------------------------
LEMMA InitRxInv == InitRx => RxInv
<1> SUFFICES ASSUME InitRx PROVE RxInv
  OBVIOUS
<1>1. Nothing \in Item
  BY DEF Nothing, Item
<1>2. <<>> \in Seq(Item)
  OBVIOUS
<1>3. RxTypes
  <2>1. reader \in BOOLEAN /\ overrun \in BOOLEAN /\ 0 \in 0 .. RxSize - 1
    BY RxAssumption DEF InitRx
  <2> QED BY <1>1, <1>2, <2>1 DEF InitRx, RxTypes
<1>4. RingHolds /\ ~reader
  BY RxAssumption DEF InitRx, RingHolds, UartReadyBytes, ReadyBytes
<1> QED BY <1>3, <1>4 DEF RxInv

(* The handler writes behind the bytes that wait.                          *)
LEMMA HandlerRxInv ==
  ASSUME RxInv, NEW key \in Keys, USART1_IRQHandler(key)
  PROVE  RxInv'
<1> USE RxAssumption DEF RxInv, USART1_IRQHandler
<1>1. RxTypes'
  <2>1. [key |-> key, n |-> arrived + 1] \in Item
    BY DEF RxTypes, Item
  <2>2. NextIndex(UartRxPtr) \in 0 .. RxSize - 1
    BY DEF RxTypes, NextIndex
  <2> QED BY <2>1, <2>2 DEF RxTypes
<1>2. ASSUME ~overrun'
      PROVE  RingHolds' /\ (reader' => CopyHolds')
  <2>1. RingHolds /\ (reader => CopyHolds) /\ arrived - taken + 1 <= RxSize - 1
    <3>1. ~overrun /\ ~(arrived + 1 - taken >= RxSize)
      BY <1>2
    <3> QED BY <3>1 DEF RxTypes
  <2>2. /\ UartRxPtr = Place(arrived - taken) /\ arrived - taken \in 0 .. RxSize - 2
        /\ UartReadyBytes' = arrived' - taken'
    BY <2>1 DEF RxTypes, RingHolds, UartReadyBytes, ReadyBytes, Place, NextIndex
  <2>3. ASSUME NEW k \in 0 .. RxSize - 1, k < arrived' - taken'
        PROVE  RxCommand'[Place(k)'].n = taken' + k + 1
    <3>1. Place(k)' = Place(k) /\ Place(k) \in 0 .. RxSize - 1
      BY DEF Place, RxTypes
    <3>2. CASE k = arrived - taken
      BY <2>2, <3>1, <3>2 DEF RxTypes
    <3>3. CASE k < arrived - taken
      <4>1. Place(k) # UartRxPtr
        BY <2>2, <3>3 DEF Place, RxTypes
      <4> QED BY <2>1, <3>1, <3>3, <4>1 DEF RingHolds, RxTypes
    <3> QED BY <2>2, <2>3, <3>2, <3>3 DEF RxTypes
  <2>4. reader' => CopyHolds'
    BY <2>1 DEF CopyHolds, ReadyBytes, Place, RxTypes
  <2> QED BY <2>2, <2>3, <2>4 DEF RingHolds
<1> QED BY <1>1, <1>2

LEMMA GetBeginRxInv == ASSUME RxInv, GetBegin PROVE RxInv'
<1> USE RxAssumption DEF RxInv, GetBegin
<1>1. RxTypes'
  BY DEF RxTypes
<1>2. ASSUME ~overrun' PROVE RingHolds' /\ CopyHolds'
  <2>1. RingHolds'
    BY <1>2 DEF RingHolds, UartReadyBytes, ReadyBytes, Place
  <2>2. CopyHolds'
    BY <1>2 DEF RingHolds, CopyHolds, UartReadyBytes, ReadyBytes, Place, RxTypes
  <2> QED BY <2>1, <2>2
<1> QED BY <1>1, <1>2

(* The byte that is copied is the next in the order of arrival.            *)
LEMMA GetCopyRxInv == ASSUME RxInv, GetCopy PROVE RxInv'
<1> USE RxAssumption DEF RxInv, GetCopy
<1>1. RxCommand[Loc] \in Item /\ NextIndex(Loc) \in 0 .. RxSize - 1
  BY DEF RxTypes, NextIndex
<1>2. Buff' \in Seq(Item) /\ Len(Buff') = Len(Buff) + 1 /\ Len(Buff) \in Nat
  BY <1>1 DEF RxTypes
<1>3. RxTypes'
  BY <1>1, <1>2 DEF RxTypes
<1>4. ASSUME ~overrun' PROVE RingHolds' /\ CopyHolds'
  <2>1. RingHolds /\ CopyHolds
    BY <1>4
  <2>2. RingHolds'
    BY <2>1 DEF RingHolds, UartReadyBytes, ReadyBytes, Place
  <2>3. /\ ReadyBytes(Uarttail, PinnedPtr) \in 0 .. RxSize - 1
        /\ PinnedPtr = Place(ReadyBytes(Uarttail, PinnedPtr))
    BY DEF RxTypes, ReadyBytes, Place
  <2>4. Len(Buff) < ReadyBytes(Uarttail, PinnedPtr)
    BY <1>2, <2>1, <2>3 DEF CopyHolds
  <2>5. Loc' = Place(Len(Buff))'
    <3>1. Loc = Place(Len(Buff)) /\ Len(Buff) + 1 \in 1 .. RxSize - 1
      BY <1>2, <2>1, <2>3, <2>4 DEF CopyHolds
    <3>2. Loc' = Place(Len(Buff) + 1)
      BY <1>2, <3>1 DEF NextIndex, Place, RxTypes
    <3> QED BY <1>2, <3>2 DEF Place
  <2>6. Buff'[Len(Buff) + 1] = RxCommand[Loc] /\ \A i \in 1 .. Len(Buff) : Buff'[i] = Buff[i]
    BY <1>1, <1>2 DEF RxTypes
  <2>7. RxCommand[Loc].n = taken + Len(Buff) + 1
    BY <1>2, <2>1, <2>3, <2>4 DEF CopyHolds, RingHolds, RxTypes
  <2>8. ASSUME NEW i \in 1 .. Len(Buff') PROVE Buff'[i].n = taken + i
    <3>1. CASE i = Len(Buff) + 1
      BY <2>6, <2>7, <3>1 DEF RxTypes
    <3>2. CASE i \in 1 .. Len(Buff)
      BY <2>1, <2>6, <3>2 DEF CopyHolds
    <3> QED BY <1>2, <3>1, <3>2
  <2>9. ReadyBytes(Uarttail, PinnedPtr)' = ReadyBytes(Uarttail, PinnedPtr)
    BY DEF ReadyBytes
  <2>10. CopyHolds'
    <3>1. Len(Buff') <= ReadyBytes(Uarttail, PinnedPtr)
      BY <1>2, <2>3, <2>4
    <3> QED BY <2>1, <2>5, <2>8, <2>9, <3>1 DEF CopyHolds
  <2> QED BY <2>2, <2>10
<1> QED BY <1>3, <1>4

(* The tail moves to the pinned end, over the bytes that were copied.      *)
LEMMA GetEndRxInv == ASSUME RxInv, GetEnd PROVE RxInv'
<1> USE RxAssumption DEF RxInv, GetEnd, Pinned
<1>1. RxTypes' /\ Len(Buff) \in Nat
  BY DEF RxTypes
<1>2. ASSUME ~overrun' PROVE RingHolds'
  <2>1. RingHolds /\ CopyHolds
    BY <1>2
  <2>2. /\ PinnedPtr = Place(Len(Buff))
        /\ Len(Buff) <= arrived - taken /\ Len(Buff) \in 0 .. RxSize - 1
    BY <1>1, <2>1 DEF CopyHolds, RxTypes, ReadyBytes
  <2>3. UartReadyBytes' = arrived' - taken'
    BY <1>1, <2>1, <2>2 DEF RingHolds, UartReadyBytes, ReadyBytes, Place, RxTypes
  <2>4. ASSUME NEW k \in 0 .. RxSize - 1, k < arrived' - taken'
        PROVE  RxCommand'[Place(k)'].n = taken' + k + 1
    <3>1. k + Len(Buff) < arrived - taken /\ k + Len(Buff) \in 0 .. RxSize - 1
      BY <1>1, <2>1, <2>2, <2>4 DEF RingHolds, UartReadyBytes, ReadyBytes, RxTypes
    <3>2. Place(k)' = Place(k + Len(Buff))
      BY <1>1, <2>2, <3>1 DEF Place, RxTypes
    <3> QED BY <1>1, <2>1, <3>1, <3>2 DEF RingHolds, RxTypes
  <2> QED BY <2>3, <2>4 DEF RingHolds
<1> QED BY <1>1, <1>2

LEMMA NextRxInv == RxInv /\ [NextRx]_rxVars => RxInv'
<1> SUFFICES ASSUME RxInv, [NextRx]_rxVars PROVE RxInv'
  OBVIOUS
<1>1. CASE UNCHANGED rxVars
  BY <1>1 DEF rxVars, RxInv, RxTypes, RingHolds, CopyHolds, UartReadyBytes, ReadyBytes, Place
<1> QED
  BY <1>1, HandlerRxInv, GetBeginRxInv, GetCopyRxInv, GetEndRxInv DEF NextRx

LEMMA RxInvFifo == RxInv => RxFifo
<1> SUFFICES ASSUME RxInv, ~overrun
             PROVE  /\ reader => \A i \in DOMAIN Buff : Buff[i].n = taken + i
                    /\ UartReadyBytes = arrived - taken
  BY DEF RxFifo
<1>1. DOMAIN Buff = 1 .. Len(Buff)
  BY DEF RxInv, RxTypes
<1> QED BY <1>1 DEF RxInv, RingHolds, CopyHolds

(* For every size of the ring, whatever the reader does with the bytes and *)
(* wherever the handler interrupts it: unless RxSize bytes were waiting at *)
(* some time, what GetUartReadyBytes returns is what arrived, in order.    *)
THEOREM Receiver == SpecRx => []RxFifo
BY InitRxInv, NextRxInv, RxInvFifo, PTL DEF SpecRx

(* Every step of the serial console is one of the receiver or leaves it.   *)
LEMMA ConsoleStep == [Next]_vars => [NextRx]_rxVars
BY DEF Next, vars, NextRx, Byte, Poll, Read, NothingRead, Part, EndLine

(* And so it holds of the console that polls it between its own steps.     *)
THEOREM ConsoleReads == Spec => []RxFifo
<1>1. Init => InitRx
  BY DEF Init
<1> QED BY <1>1, InitRxInv, ConsoleStep, NextRxInv, RxInvFifo, PTL DEF Spec

-----------------------------------------------------------------------------
(* The line editor.  A set of numbers has a least element, and one that    *)
(* has 0 and the successor of each of its elements has them all.           *)
LEMMA LeastNumber ==
  ASSUME NEW S \in SUBSET Nat, S # {}
  PROVE  \E x \in S : \A y \in S : x <= y
<1> DEFINE T == {0 .. n : n \in S}
<1>1. T \subseteq FiniteSubsetsOf(Nat) /\ T # {}
  <2>1. ASSUME NEW n \in S PROVE 0 .. n \in FiniteSubsetsOf(Nat)
    BY FS_Interval DEF FiniteSubsetsOf
  <2> QED BY <2>1
<1>2. PICK X \in T : \A Y \in T : <<Y, X>> \notin StrictSubsetOrdering(Nat)
  BY <1>1, FS_StrictSubsetOrderingWellFounded, WFMin
<1>3. PICK x \in S : X = 0 .. x
  OBVIOUS
<1>4. ASSUME NEW y \in S PROVE x <= y
  <2>1. <<0 .. y, X>> \notin StrictSubsetOrdering(Nat)
    BY <1>2
  <2>2. ~(0 .. y \subseteq X /\ 0 .. y # X)
    BY <1>1, <2>1 DEF StrictSubsetOrdering, FiniteSubsetsOf
  <2> QED BY <1>3, <2>2
<1> QED BY <1>4

LEMMA Upwards ==
  ASSUME NEW S, 0 \in S, \A n \in Nat : n \in S => n + 1 \in S
  PROVE  Nat \subseteq S
<1> SUFFICES ASSUME Nat \ S # {} PROVE FALSE
  OBVIOUS
<1>1. PICK x \in Nat \ S : \A y \in Nat \ S : x <= y
  BY LeastNumber
<1>2. x - 1 \in Nat /\ x - 1 \in S
  BY <1>1
<1> QED BY <1>1, <1>2

(* PuttyRxHandler goes from key to key.                                    *)
Editing(e, keys, f) ==
  /\ f = [n \in 0 .. Len(keys) |-> f[n]] /\ f[0] = Begun(e)
  /\ \A n \in 0 .. Len(keys) - 1 : f[n + 1] = Key(f[n], keys[n + 1])
LEMMA HandlerEdits ==
  ASSUME NEW S, NEW keys \in Seq(S), NEW e
  PROVE  \E f : Editing(e, keys, f) /\ PuttyRxHandler(e, keys) = f[Len(keys)]
<1> DEFINE Rec(m, g) == g = [n \in 0 .. m |-> IF n = 0 THEN Begun(e) ELSE Key(g[n - 1], keys[n])]
           Some == {m \in Nat : \E g : Rec(m, g)}
<1>1. 0 \in Some
  <2>1. Rec(0, [n \in 0 .. 0 |-> Begun(e)])
    OBVIOUS
  <2> QED BY <2>1
<1>2. ASSUME NEW m \in Nat, m \in Some PROVE m + 1 \in Some
  <2>1. PICK g : Rec(m, g)
    BY <1>2
  <2> DEFINE h == [n \in 0 .. m + 1 |-> IF n <= m THEN g[n] ELSE Key(g[m], keys[m + 1])]
  <2>2. ASSUME NEW n \in 0 .. m + 1
        PROVE  h[n] = IF n = 0 THEN Begun(e) ELSE Key(h[n - 1], keys[n])
    <3>1. CASE n <= m
      BY <2>1, <3>1
    <3>2. CASE n = m + 1
      BY <2>1, <3>2
    <3> QED BY <3>1, <3>2
  <2>3. Rec(m + 1, h)
    BY <2>2
  <2>4. m + 1 \in Nat
    OBVIOUS
  <2> HIDE DEF h, Rec
  <2> QED BY <2>3, <2>4
<1>3. Len(keys) \in Nat
  OBVIOUS
<1>4. PICK f : Rec(Len(keys), f)
  <2>1. Nat \subseteq Some
    <3> HIDE DEF Some
    <3> QED BY <1>1, <1>2, Upwards
  <2> QED BY <2>1, <1>3
<1>5. PuttyRxHandler(e, keys) = (CHOOSE g : Rec(Len(keys), g))[Len(keys)]
  BY DEF PuttyRxHandler
<1>6. Rec(Len(keys), CHOOSE g : Rec(Len(keys), g))
  <2> HIDE DEF Rec
  <2> QED BY <1>4
<1>7. PICK f2 : f2 = CHOOSE g : Rec(Len(keys), g)
  OBVIOUS
<1>8. Editing(e, keys, f2)
  <2>1. f2 = [n \in 0 .. Len(keys) |-> IF n = 0 THEN Begun(e) ELSE Key(f2[n - 1], keys[n])]
    BY <1>6, <1>7
  <2> QED BY <2>1, <1>3 DEF Editing
<1> QED BY <1>5, <1>7, <1>8

(* And the terminal from byte to byte of the echo.                         *)
Showing(text, echo, f) ==
  /\ f = [n \in 0 .. Len(echo) |-> f[n]] /\ f[0] = text
  /\ \A n \in 0 .. Len(echo) - 1 : f[n + 1] = Shows(f[n], echo[n + 1])
LEMMA ShowingOne ==
  ASSUME NEW S, NEW echo \in Seq(S), NEW text, NEW f, Showing(text, echo, f),
         NEW g, Showing(text, echo, g)
  PROVE  f = g
<1> DEFINE Same == {m \in Nat : m <= Len(echo) => f[m] = g[m]}
<1>1. 0 \in Same
  BY DEF Showing
<1>2. ASSUME NEW m \in Nat, m \in Same PROVE m + 1 \in Same
  BY <1>2 DEF Showing
<1>3. Nat \subseteq Same
  <2> HIDE DEF Same
  <2> QED BY <1>1, <1>2, Upwards
<1>4. \A n \in 0 .. Len(echo) : f[n] = g[n]
  BY <1>3
<1> QED BY <1>4 DEF Showing

LEMMA EchoedBy ==
  ASSUME NEW S, NEW echo \in Seq(S), NEW text, NEW f, Showing(text, echo, f)
  PROVE  Echoed(text, echo) = f[Len(echo)]
<1> DEFINE Rec(g) == g = [n \in 0 .. Len(echo) |-> IF n = 0 THEN text ELSE Shows(g[n - 1], echo[n])]
<1>1. Rec(f)
  <2>1. \A n \in 0 .. Len(echo) : f[n] = IF n = 0 THEN text ELSE Shows(f[n - 1], echo[n])
    <3> SUFFICES ASSUME NEW n \in 0 .. Len(echo), n # 0 PROVE f[n] = Shows(f[n - 1], echo[n])
      BY DEF Showing
    <3>1. n - 1 \in 0 .. Len(echo) - 1 /\ (n - 1) + 1 = n
      OBVIOUS
    <3> QED BY <3>1 DEF Showing
  <2> QED BY <2>1 DEF Showing
<1>2. PICK g : g = CHOOSE h : Rec(h)
  OBVIOUS
<1>3. Echoed(text, echo) = g[Len(echo)]
  BY <1>2 DEF Echoed
<1>4. Rec(g)
  <2> HIDE DEF Rec
  <2> QED BY <1>1, <1>2
<1>5. Showing(text, echo, g)
  BY <1>4 DEF Showing
<1> QED BY <1>3, <1>5, ShowingOne

LEMMA EchoShows ==
  ASSUME NEW S, NEW echo \in Seq(S), NEW text
  PROVE  \E f : Showing(text, echo, f)
<1> DEFINE Rec(m, g) == /\ g = [n \in 0 .. m |-> g[n]] /\ g[0] = text
                        /\ \A n \in 0 .. m - 1 : g[n + 1] = Shows(g[n], echo[n + 1])
           Some == {m \in Nat : \E g : Rec(m, g)}
<1>1. 0 \in Some
  <2>1. Rec(0, [n \in 0 .. 0 |-> text])
    OBVIOUS
  <2> HIDE DEF Rec
  <2> QED BY <2>1
<1>2. ASSUME NEW m \in Nat, m \in Some PROVE m + 1 \in Some
  <2>1. PICK g : Rec(m, g)
    BY <1>2
  <2> DEFINE h == [n \in 0 .. m + 1 |-> IF n <= m THEN g[n] ELSE Shows(g[m], echo[m + 1])]
  <2>2. ASSUME NEW n \in 0 .. (m + 1) - 1 PROVE h[n + 1] = Shows(h[n], echo[n + 1])
    <3>1. CASE n < m
      <4>1. n \in 0 .. m - 1 /\ h[n] = g[n] /\ h[n + 1] = g[n + 1]
        BY <3>1
      <4> HIDE DEF h
      <4> QED BY <2>1, <4>1
    <3>2. CASE n = m
      BY <2>1, <3>2
    <3> QED BY <3>1, <3>2
  <2>3. Rec(m + 1, h)
    <3>1. h[0] = text
      BY <2>1
    <3>2. h = [n \in 0 .. m + 1 |-> h[n]]
      OBVIOUS
    <3> HIDE DEF h
    <3> QED BY <2>2, <3>1, <3>2
  <2>4. m + 1 \in Nat
    OBVIOUS
  <2> HIDE DEF h, Rec
  <2> QED BY <2>3, <2>4
<1>3. Len(echo) \in Some
  <2>1. Nat \subseteq Some
    <3> HIDE DEF Some
    <3> QED BY <1>1, <1>2, Upwards
  <2> QED BY <2>1
<1>4. PICK f : Rec(Len(echo), f)
  BY <1>3
<1> QED BY <1>4 DEF Showing

LEMMA EchoEmpty == ASSUME NEW text PROVE Echoed(text, <<>>) = text
<1>1. <<>> \in Seq({}) /\ Len(<<>>) = 0
  OBVIOUS
<1>2. Showing(text, <<>>, [n \in 0 .. 0 |-> text])
  BY <1>1 DEF Showing
<1> QED BY <1>1, <1>2, EchoedBy

LEMMA EchoConcat ==
  ASSUME NEW S, NEW r \in Seq(S), NEW s \in Seq(S), NEW text
  PROVE  Echoed(text, r \o s) = Echoed(Echoed(text, r), s)
<1>1. PICK f : Showing(text, r, f)
  BY EchoShows
<1>2. Echoed(text, r) = f[Len(r)]
  BY <1>1, EchoedBy
<1>3. PICK g : Showing(f[Len(r)], s, g)
  BY EchoShows
<1>4. Echoed(f[Len(r)], s) = g[Len(s)]
  BY <1>3, EchoedBy
<1>5. PICK t \in Seq(S) : /\ t = r \o s /\ Len(t) = Len(r) + Len(s)
                          /\ \A i \in 1 .. Len(r) + Len(s) :
                                t[i] = IF i <= Len(r) THEN r[i] ELSE s[i - Len(r)]
  <2>1. PICK t : t = r \o s
    OBVIOUS
  <2>2. t \in Seq(S) /\ Len(t) = Len(r) + Len(s)
    BY <2>1
  <2>3. \A i \in 1 .. Len(r) + Len(s) : t[i] = IF i <= Len(r) THEN r[i] ELSE s[i - Len(r)]
    <3> SUFFICES ASSUME NEW i \in 1 .. Len(r) + Len(s)
                 PROVE  (r \o s)[i] = IF i <= Len(r) THEN r[i] ELSE s[i - Len(r)]
      BY <2>1
    <3> QED OBVIOUS
  <2> QED BY <2>1, <2>2, <2>3
<1>6. PICK a \in Nat, b \in Nat : a = Len(r) /\ b = Len(s)
  OBVIOUS
<1> DEFINE h == [n \in 0 .. a + b |-> IF n <= a THEN f[n] ELSE g[n - a]]
<1>7. ASSUME NEW n \in 0 .. (a + b) - 1 PROVE h[n + 1] = Shows(h[n], t[n + 1])
  <2>1. CASE n < a
    <3>1. n \in 0 .. a - 1 /\ h[n] = f[n] /\ h[n + 1] = f[n + 1]
      BY <2>1
    <3>2. t[n + 1] = r[n + 1]
      BY <1>5, <1>6, <2>1
    <3> HIDE DEF h
    <3> QED BY <1>1, <1>6, <3>1, <3>2 DEF Showing
  <2>2. CASE n >= a
    <3>1. n - a \in 0 .. b - 1 /\ n + 1 - a = (n - a) + 1
      BY <2>2
    <3>2. h[n] = g[n - a]
      BY <1>1, <1>3, <1>6, <2>2 DEF Showing
    <3>3. h[n + 1] = g[(n - a) + 1]
      BY <2>2, <3>1
    <3>4. t[n + 1] = s[(n - a) + 1]
      BY <1>5, <1>6, <2>2, <3>1
    <3> HIDE DEF h
    <3> QED BY <1>3, <1>6, <3>1, <3>2, <3>3, <3>4 DEF Showing
  <2> QED BY <2>1, <2>2
<1>8. h[0] = text /\ h[a + b] = g[b]
  BY <1>1, <1>3, <1>6 DEF Showing
<1>9. Showing(text, t, h)
  BY <1>5, <1>6, <1>7, <1>8 DEF Showing
<1> HIDE DEF h
<1> QED BY <1>2, <1>4, <1>5, <1>6, <1>8, <1>9, EchoedBy

LEMMA EchoKey ==
  ASSUME NEW S, NEW r \in Seq(S), NEW k \in S, NEW text
  PROVE  Echoed(text, Append(r, k)) = Shows(Echoed(text, r), k)
<1>1. PICK s \in Seq(S) : s = <<k>> /\ Len(s) = 1 /\ s[1] = k
  <2>1. <<k>> \in Seq(S) /\ Len(<<k>>) = 1 /\ <<k>>[1] = k
    OBVIOUS
  <2> QED BY <2>1
<1>2. PICK t : t = Echoed(text, r)
  OBVIOUS
<1> DEFINE f == [n \in 0 .. 1 |-> IF n = 0 THEN t ELSE Shows(t, k)]
<1>3. Showing(t, s, f)
  BY <1>1 DEF Showing
<1>4. f[Len(s)] = Shows(t, k)
  BY <1>1
<1> HIDE DEF f
<1>5. Echoed(t, s) = Shows(t, k)
  BY <1>1, <1>3, <1>4, EchoedBy
<1>6. Append(r, k) = r \o s
  BY <1>1
<1>7. Echoed(text, r \o s) = Echoed(Echoed(text, r), s)
  BY <1>1, EchoConcat
<1> QED BY <1>2, <1>5, <1>6, <1>7

(* Typing into an empty line, and erasing the whole of one.                *)
LEMMA EchoText ==
  ASSUME NEW S, "BS" \notin S, NEW saved \in Seq(S)
  PROVE  Echoed(<<>>, saved) = saved
<1> DEFINE f == [n \in 0 .. Len(saved) |-> SubSeq(saved, 1, n)]
<1>1. ASSUME NEW n \in 0 .. Len(saved) - 1 PROVE f[n + 1] = Shows(f[n], saved[n + 1])
  <2>1. n + 1 \in 1 .. Len(saved) /\ saved[n + 1] \in S /\ saved[n + 1] # "BS"
    BY ElementOfSeq
  <2>2. SubSeq(saved, 1, n + 1) = Append(SubSeq(saved, 1, n), saved[n + 1])
    OBVIOUS
  <2>3. f[n + 1] = SubSeq(saved, 1, n + 1) /\ f[n] = SubSeq(saved, 1, n)
    OBVIOUS
  <2> HIDE DEF f
  <2> QED BY <2>1, <2>2, <2>3 DEF Shows
<1>2. f[0] = <<>> /\ f[Len(saved)] = saved
  OBVIOUS
<1>3. Showing(<<>>, saved, f)
  BY <1>1, <1>2 DEF Showing
<1> HIDE DEF f
<1> QED BY <1>2, <1>3, EchoedBy

Erasures(n) == [i \in 1 .. n |-> "BS"]
LEMMA EchoErase ==
  ASSUME NEW S, NEW text \in Seq(S), NEW m \in Nat, m = Len(text)
  PROVE  Erasures(m) \in Seq({"BS"}) /\ Echoed(text, Erasures(m)) = <<>>
<1>1. PICK t \in Seq({"BS"}) : t = Erasures(m) /\ Len(t) = m /\ \A i \in 1 .. m : t[i] = "BS"
  <2>1. Erasures(m) \in Seq({"BS"}) /\ Len(Erasures(m)) = m
    BY DEF Erasures
  <2>2. \A i \in 1 .. m : Erasures(m)[i] = "BS"
    BY DEF Erasures
  <2> QED BY <2>1, <2>2
<1> DEFINE f == [n \in 0 .. m |-> SubSeq(text, 1, m - n)]
<1>2. ASSUME NEW n \in 0 .. m - 1 PROVE f[n + 1] = Shows(f[n], t[n + 1])
  <2>1. PICK u : u = SubSeq(text, 1, m - n)
    OBVIOUS
  <2>2. u \in Seq(S) /\ Len(u) = m - n
    BY <2>1
  <2>3. t[n + 1] = "BS" /\ u # <<>>
    <3>1. n + 1 \in 1 .. m /\ m - n # 0
      OBVIOUS
    <3> QED BY <1>1, <2>2, <3>1
  <2>4. SubSeq(u, 1, Len(u) - 1) = SubSeq(text, 1, m - (n + 1))
    BY <2>1, <2>2
  <2>5. f[n] = u /\ f[n + 1] = SubSeq(text, 1, m - (n + 1))
    BY <2>1
  <2> HIDE DEF f
  <2> QED BY <2>3, <2>4, <2>5 DEF Shows, Front
<1>3. f[0] = text /\ f[m] = <<>>
  OBVIOUS
<1>4. Showing(text, t, f)
  BY <1>1, <1>2, <1>3 DEF Showing
<1> HIDE DEF f
<1> QED BY <1>1, <1>3, <1>4, EchoedBy

-----------------------------------------------------------------------------
(* What the context of the console is made of.                             *)
Chars == (Keys \cup {"none"}) \ Control
Lines == [0 .. LineLen - 1 -> Chars \cup {NUL}]
Saved == {s \in Seq(Chars) : Len(s) <= CmdLen}
Context ==
  [EscapeSequence : 0 .. 3, CommandRecall : 0 .. SavedLen - 1, Cancel : BOOLEAN,
   CmdReady : BOOLEAN, CmdPtr : 0 .. LineLen - 1, CmdBuilder : Lines,
   SavedCommands : [1 .. SavedLen -> Saved], reply : Seq(Chars \cup {"BS"}),
   done : BOOLEAN, echo : BOOLEAN, strays : BOOLEAN]

(* The first n places of a line hold characters, and they are this text.   *)
Spells(text, line, n) ==
  text = Prefix(line, n) /\ \A i \in 0 .. n - 1 : line[i] # NUL

LEMMA Spelled ==
  ASSUME NEW line \in Lines, NEW n \in 0 .. LineLen, NEW text, Spells(text, line, n)
  PROVE  text \in Seq(Chars) /\ Len(text) = n /\ \A i \in 1 .. n : text[i] = line[i - 1]
<1>1. ASSUME NEW i \in 1 .. n PROVE line[i - 1] \in Chars
  <2>1. i - 1 \in 0 .. n - 1 /\ i - 1 \in 0 .. LineLen - 1
    BY LineAssumption
  <2> QED BY <2>1 DEF Spells, Lines
<1>2. n \in Nat
  BY LineAssumption
<1> QED BY <1>1, <1>2 DEF Spells, Prefix

LEMMA SpellsBackspace ==
  ASSUME NEW line \in Lines, NEW n \in 1 .. LineLen, NEW text, Spells(text, line, n)
  PROVE  Spells(Shows(text, "BS"), line, n - 1)
<1>1. text \in Seq(Chars) /\ Len(text) = n /\ n \in Nat /\ text # <<>>
  BY Spelled, LineAssumption
<1>2. Shows(text, "BS") = SubSeq(text, 1, n - 1)
  BY <1>1 DEF Shows, Front
<1>3. SubSeq(text, 1, n - 1) = Prefix(line, n - 1)
  BY <1>1, Spelled DEF Prefix
<1> QED BY <1>2, <1>3 DEF Spells

LEMMA SpellsTyped ==
  ASSUME NEW line \in Lines, NEW n \in 0 .. LineLen - 1, NEW text, Spells(text, line, n),
         NEW key \in Chars
  PROVE  /\ [line EXCEPT ![n] = key] \in Lines
         /\ Spells(Shows(text, key), [line EXCEPT ![n] = key], n + 1)
<1>1. text \in Seq(Chars) /\ Len(text) = n /\ n \in Nat
  BY Spelled, LineAssumption
<1>2. PICK l \in Lines : /\ l = [line EXCEPT ![n] = key] /\ l[n] = key
                         /\ \A i \in 0 .. LineLen - 1 : i # n => l[i] = line[i]
  <2>1. PICK l : l = [line EXCEPT ![n] = key]
    OBVIOUS
  <2>2. /\ l \in Lines /\ l[n] = key
        /\ \A i \in 0 .. LineLen - 1 : i # n => l[i] = line[i]
    BY <2>1 DEF Lines
  <2> QED BY <2>1, <2>2
<1>3. Shows(text, key) = Append(text, key) /\ key # NUL
  BY DEF Shows, Chars, Control
<1>4. Append(text, key) = Prefix(l, n + 1)
  <2>1. PICK a \in Seq(Chars) : a = Append(text, key) /\ Len(a) = n + 1
    <3>1. PICK a : a = Append(text, key)
      OBVIOUS
    <3> QED BY <1>1, <3>1, AppendProperties
  <2>2. ASSUME NEW i \in 1 .. n + 1 PROVE a[i] = l[i - 1]
    <3>1. CASE i = n + 1
      BY <1>1, <1>2, <2>1, <3>1
    <3>2. CASE i # n + 1
      BY <1>1, <1>2, <2>1, <3>2, Spelled, LineAssumption
    <3> QED BY <3>1, <3>2
  <2>3. a = [i \in 1 .. n + 1 |-> a[i]]
    <3>1. a = [i \in 1 .. Len(a) |-> a[i]]
      OBVIOUS
    <3> QED BY <2>1, <3>1
  <2> QED BY <2>1, <2>2, <2>3 DEF Prefix
<1>5. \A i \in 0 .. n : l[i] # NUL
  BY <1>1, <1>2, <1>3, LineAssumption DEF Spells
<1> QED BY <1>1, <1>2, <1>3, <1>4, <1>5 DEF Spells

(* The line is what the terminal shows once it has the reply, and is not   *)
(* full; what a key does that neither ends the line nor the read.          *)
Told(e, t) ==
  e.CmdPtr < LineLen - 1 /\ Spells(Echoed(t, e.reply), e.CmdBuilder, e.CmdPtr)
Moves(d, e) ==
  /\ d \in Context
  /\ d.CmdReady = e.CmdReady /\ d.done = e.done /\ d.echo = e.echo /\ (e.strays => d.strays)
  /\ d.SavedCommands = e.SavedCommands
  /\ \A t : ~d.strays /\ Told(e, t) => Told(d, t)

LEMMA MovesOn ==
  ASSUME NEW c, NEW d, NEW e, Moves(d, e), Moves(c, d)
  PROVE  Moves(c, e)
BY DEF Moves

LEMMA CountMoves ==
  ASSUME NEW e \in Context, NEW n \in 0 .. 3
  PROVE  Moves([e EXCEPT !.EscapeSequence = n], e)
BY DEF Moves, Context, Told

LEMMA BackspaceMoves == ASSUME NEW e \in Context PROVE Moves(Backspace(e), e)
<1>1. CASE e.CmdPtr > 0
  <2>1. PICK n \in 0 .. LineLen - 1, r \in Seq(Chars \cup {"BS"}) :
          n = e.CmdPtr - 1 /\ r = Append(e.reply, "BS")
    <3>1. e.CmdPtr \in 0 .. LineLen - 1 /\ e.reply \in Seq(Chars \cup {"BS"})
      BY DEF Context
    <3>2. e.CmdPtr - 1 \in 0 .. LineLen - 1
      BY <1>1, <3>1, LineAssumption
    <3>3. Append(e.reply, "BS") \in Seq(Chars \cup {"BS"})
      BY <3>1
    <3> QED BY <3>2, <3>3
  <2>2. PICK d \in Context : d = [e EXCEPT !.CmdPtr = n, !.reply = r]
    BY DEF Context
  <2>3. /\ d.CmdPtr = n /\ d.reply = r /\ d.CmdBuilder = e.CmdBuilder
        /\ d.CmdReady = e.CmdReady /\ d.done = e.done /\ d.echo = e.echo /\ d.strays = e.strays
        /\ d.SavedCommands = e.SavedCommands
    BY <2>2 DEF Context
  <2>4. Backspace(e) = d
    BY <1>1, <2>1, <2>2 DEF Backspace
  <2>5. ASSUME NEW t, Told(e, t) PROVE Told(d, t)
    <3>1. e.reply \in Seq(Chars \cup {"BS"}) /\ e.CmdBuilder \in Lines /\ e.CmdPtr \in 1 .. LineLen
      BY <1>1, LineAssumption DEF Context
    <3>2. Echoed(t, r) = Shows(Echoed(t, e.reply), "BS")
      BY <2>1, <3>1, EchoKey
    <3>3. Spells(Echoed(t, r), e.CmdBuilder, n)
      BY <2>1, <2>5, <3>1, <3>2, SpellsBackspace DEF Told
    <3>4. n < LineLen - 1
      BY <2>1, <2>5, <3>1, LineAssumption DEF Told
    <3> QED BY <2>3, <3>3, <3>4 DEF Told
  <2> QED BY <2>2, <2>3, <2>4, <2>5 DEF Moves
<1>2. CASE ~(e.CmdPtr > 0)
  BY <1>2 DEF Backspace, Moves
<1> QED BY <1>1, <1>2

(* The line that takes the place of what was typed.                        *)
Over(line, saved) ==
  [i \in DOMAIN line |-> IF i < Len(saved) THEN saved[i + 1] ELSE line[i]]
LEMMA OverSpells ==
  ASSUME NEW line \in Lines, NEW saved \in Saved
  PROVE  /\ Over(line, saved) \in Lines /\ Len(saved) \in 0 .. LineLen - 2
         /\ Spells(saved, Over(line, saved), Len(saved))
<1>1. saved \in Seq(Chars) /\ Len(saved) \in Nat /\ Len(saved) <= LineLen - 2 /\ LineLen \in Nat
  BY LineAssumption DEF Saved
<1>2. DOMAIN line = 0 .. LineLen - 1
  BY DEF Lines
<1>3. ASSUME NEW i \in 0 .. Len(saved) - 1
      PROVE  i \in 0 .. LineLen - 1 /\ Over(line, saved)[i] = saved[i + 1] /\ saved[i + 1] \in Chars
  <2>1. i \in 0 .. LineLen - 1 /\ i < Len(saved) /\ i + 1 \in 1 .. Len(saved)
    BY <1>1
  <2>2. saved[i + 1] \in Chars
    BY <1>1, <2>1, ElementOfSeq
  <2> QED BY <1>2, <2>1, <2>2 DEF Over
<1>4. Over(line, saved) \in Lines
  <2>1. ASSUME NEW i \in 0 .. LineLen - 1 PROVE Over(line, saved)[i] \in Chars \cup {NUL}
    <3>1. CASE i < Len(saved)
      <4>1. i \in 0 .. Len(saved) - 1
        BY <1>1, <3>1
      <4> QED BY <1>3, <4>1
    <3>2. CASE ~(i < Len(saved))
      BY <1>2, <3>2 DEF Over, Lines
    <3> QED BY <3>1, <3>2
  <2> QED BY <1>2, <2>1 DEF Over, Lines
<1>5. saved = Prefix(Over(line, saved), Len(saved))
  <2>1. ASSUME NEW i \in 1 .. Len(saved) PROVE saved[i] = Over(line, saved)[i - 1]
    <3>1. i - 1 \in 0 .. Len(saved) - 1 /\ (i - 1) + 1 = i
      BY <1>1
    <3> QED BY <1>3, <3>1
  <2>2. saved = [i \in 1 .. Len(saved) |-> saved[i]]
    BY <1>1
  <2> QED BY <2>1, <2>2 DEF Prefix
<1>6. \A i \in 0 .. Len(saved) - 1 : Over(line, saved)[i] # NUL
  BY <1>3 DEF Chars, Control
<1> QED BY <1>1, <1>4, <1>5, <1>6 DEF Spells

LEMMA EchoOver ==
  ASSUME NEW t, NEW e \in Context, Told(e, t), NEW saved \in Saved
  PROVE  /\ Echoed(t, e.reply \o Erasures(e.CmdPtr)) = <<>>
         /\ Echoed(t, (e.reply \o Erasures(e.CmdPtr)) \o saved) = saved
<1> DEFINE Bytes == Chars \cup {"BS"}
<1>1. /\ e.reply \in Seq(Bytes) /\ e.CmdPtr \in 0 .. LineLen /\ e.CmdPtr \in Nat
      /\ e.CmdBuilder \in Lines
  BY LineAssumption DEF Context
<1>2. PICK text \in Seq(Chars) : text = Echoed(t, e.reply) /\ Len(text) = e.CmdPtr
  BY <1>1, Spelled DEF Told
<1>3. PICK er \in Seq({"BS"}) : er = Erasures(e.CmdPtr) /\ Echoed(text, er) = <<>>
  BY <1>1, <1>2, EchoErase
<1>4. er \in Seq(Bytes) /\ saved \in Seq(Bytes) /\ saved \in Seq(Chars)
  <2>1. saved \in Seq(Chars)
    BY DEF Saved
  <2>2. saved \in Seq(Bytes)
    BY <2>1
  <2> QED BY <2>1, <2>2
<1>5. Echoed(t, e.reply \o er) = <<>>
  BY <1>1, <1>2, <1>3, <1>4, EchoConcat
<1>6. PICK r \in Seq(Bytes) : r = e.reply \o er
  <2>1. e.reply \o er \in Seq(Bytes)
    BY <1>1, <1>4
  <2> QED BY <2>1
<1>7. Echoed(t, r \o saved) = Echoed(<<>>, saved)
  <2>1. Echoed(t, r \o saved) = Echoed(Echoed(t, r), saved)
    <3> HIDE DEF Bytes
    <3> QED BY <1>4, <1>6, EchoConcat
  <2> QED BY <1>5, <1>6, <2>1
<1>8. Echoed(<<>>, saved) = saved
  BY <1>4, EchoText DEF Chars, Control
<1> QED BY <1>3, <1>5, <1>6, <1>7, <1>8

LEMMA EraseIs ==
  ASSUME NEW e \in Context
  PROVE  \E n \in 0 .. LineLen - 1, r \in Seq(Chars \cup {"BS"}) :
           /\ Erase(e) = [e EXCEPT !.CmdPtr = n, !.reply = r]
           /\ e.CmdPtr = 0 => n = 0 /\ r = e.reply
           /\ e.CmdPtr # 0 => r = e.reply \o Erasures(e.CmdPtr)
<1>1. e.CmdPtr \in 0 .. LineLen - 1 /\ e.reply \in Seq(Chars \cup {"BS"}) /\ LineLen - 1 \in 0 .. LineLen - 1
  BY LineAssumption DEF Context
<1>2. CASE e.CmdPtr = 0
  <2>1. Erase(e) = [e EXCEPT !.CmdPtr = e.CmdPtr, !.reply = e.reply]
    <3>1. Erase(e) = e
      BY <1>2 DEF Erase
    <3>2. e = [e EXCEPT !.CmdPtr = e.CmdPtr, !.reply = e.reply]
      BY DEF Context
    <3> QED BY <3>1, <3>2
  <2> QED BY <1>1, <1>2, <2>1
<1>3. CASE e.CmdPtr # 0
  <2>1. Erasures(e.CmdPtr) \in Seq(Chars \cup {"BS"})
    BY <1>1 DEF Erasures
  <2>2. PICK r \in Seq(Chars \cup {"BS"}) : r = e.reply \o Erasures(e.CmdPtr)
    <3>1. e.reply \o Erasures(e.CmdPtr) \in Seq(Chars \cup {"BS"})
      BY <1>1, <2>1
    <3> QED BY <3>1
  <2>3. Erase(e) = [e EXCEPT !.CmdPtr = LineLen - 1, !.reply = r]
    BY <1>1, <1>3, <2>2 DEF Erase, Erasures
  <2> QED BY <1>1, <1>3, <2>2, <2>3
<1> QED BY <1>2, <1>3

LEMMA RecallMoves ==
  ASSUME NEW e \in Context, NEW slot \in 0 .. SavedLen - 1
  PROVE  Moves(Recall(e, slot), e)
<1> DEFINE Bytes == Chars \cup {"BS"}
<1>1. PICK n \in 0 .. LineLen - 1, r \in Seq(Bytes) :
           /\ Erase(e) = [e EXCEPT !.CmdPtr = n, !.reply = r]
           /\ e.CmdPtr = 0 => n = 0 /\ r = e.reply
           /\ e.CmdPtr # 0 => r = e.reply \o Erasures(e.CmdPtr)
  BY EraseIs
<1>2. PICK saved \in Saved : saved = e.SavedCommands[slot + 1]
  <2>1. slot + 1 \in 1 .. SavedLen
    BY LineAssumption
  <2> QED BY <2>1 DEF Context
<1>3. PICK f \in Context : f = [Erase(e) EXCEPT !.CommandRecall = slot]
  BY <1>1 DEF Context
<1>4. /\ f.CmdPtr = n /\ f.reply = r /\ f.CmdBuilder = e.CmdBuilder
      /\ f.CmdReady = e.CmdReady /\ f.done = e.done /\ f.echo = e.echo /\ f.strays = e.strays
      /\ f.SavedCommands = e.SavedCommands
  BY <1>1, <1>3 DEF Context
<1>5. CASE saved = <<>>
  <2>1. PICK b \in BOOLEAN : b = (e.strays \/ e.CmdPtr > 0)
    OBVIOUS
  <2>2. PICK d \in Context : d = [f EXCEPT !.strays = b]
    BY DEF Context
  <2>3. Recall(e, slot) = d
    BY <1>2, <1>3, <1>4, <1>5, <2>1, <2>2 DEF Recall
  <2>4. /\ d.CmdPtr = n /\ d.reply = r /\ d.CmdBuilder = e.CmdBuilder
        /\ d.CmdReady = e.CmdReady /\ d.done = e.done /\ d.echo = e.echo /\ d.strays = b
        /\ d.SavedCommands = e.SavedCommands
    BY <1>4, <2>2 DEF Context
  <2>5. ~d.strays => e.CmdPtr = 0
    BY <2>1, <2>4, LineAssumption DEF Context
  <2> QED BY <1>1, <2>1, <2>2, <2>3, <2>4, <2>5 DEF Moves, Told
<1>6. CASE saved # <<>>
  <2>1. PICK line \in Lines, m \in 0 .. LineLen - 1 :
          /\ line = Over(e.CmdBuilder, saved) /\ m = Len(saved) /\ m < LineLen - 1
          /\ Spells(saved, line, m)
    <3>1. e.CmdBuilder \in Lines
      BY DEF Context
    <3>2. Len(saved) \in 0 .. LineLen - 1 /\ Len(saved) < LineLen - 1
      BY <3>1, OverSpells, LineAssumption
    <3> QED BY <3>1, <3>2, OverSpells
  <2>2. PICK r2 \in Seq(Bytes) : r2 = r \o saved
    <3>1. saved \in Seq(Bytes)
      <4>1. saved \in Seq(Chars)
        BY DEF Saved
      <4> QED BY <4>1
    <3>2. r \o saved \in Seq(Bytes)
      BY <3>1
    <3> QED BY <3>2
  <2>3. PICK d \in Context : d = [f EXCEPT !.CmdBuilder = line, !.CmdPtr = m, !.reply = r2]
    BY DEF Context
  <2>4. Recall(e, slot) = d
    BY <1>2, <1>3, <1>4, <1>6, <2>1, <2>2, <2>3 DEF Recall, Over
  <2>5. /\ d.CmdPtr = m /\ d.reply = r2 /\ d.CmdBuilder = line
        /\ d.CmdReady = e.CmdReady /\ d.done = e.done /\ d.echo = e.echo /\ d.strays = e.strays
        /\ d.SavedCommands = e.SavedCommands
    BY <1>4, <2>3 DEF Context
  <2>6. ASSUME NEW t, Told(e, t) PROVE Echoed(t, r2) = saved
    <3>1. CASE e.CmdPtr = 0
      <4>1. Echoed(t, e.reply) = <<>>
        <5>1. Prefix(e.CmdBuilder, 0) = <<>>
          BY DEF Prefix
        <5> QED BY <2>6, <3>1, <5>1 DEF Told, Spells
      <4>2. saved \in Seq(Chars) /\ saved \in Seq(Bytes)
        <5>1. saved \in Seq(Chars)
          BY DEF Saved
        <5> QED BY <5>1
      <4>3. Echoed(t, e.reply \o saved) = Echoed(Echoed(t, e.reply), saved)
        <5>1. e.reply \in Seq(Bytes)
          BY DEF Context
        <5> HIDE DEF Bytes
        <5> QED BY <4>2, <5>1, EchoConcat
      <4>4. Echoed(<<>>, saved) = saved
        BY <4>2, EchoText DEF Chars, Control
      <4> QED BY <1>1, <2>2, <3>1, <4>1, <4>3, <4>4
    <3>2. CASE e.CmdPtr # 0
      <4>1. Echoed(t, (e.reply \o Erasures(e.CmdPtr)) \o saved) = saved
        BY <2>6, EchoOver
      <4> QED BY <1>1, <2>2, <3>2, <4>1
    <3> QED BY <3>1, <3>2
  <2> QED BY <2>1, <2>3, <2>4, <2>5, <2>6 DEF Moves, Told
<1> QED BY <1>5, <1>6

LEMMA EscapeKeyMoves ==
  ASSUME NEW e \in Context, NEW key
  PROVE  Moves(EscapeKey(e, key), e)
<1>1. /\ Older(e.CommandRecall) \in 0 .. SavedLen - 1
      /\ Newer(e.CommandRecall) \in 0 .. SavedLen - 1
  <2>1. e.CommandRecall \in 0 .. SavedLen - 1 /\ SavedLen \in Nat \ {0}
    BY LineAssumption DEF Context
  <2> QED BY <2>1 DEF Older, Newer
<1>2. Moves(e, e)
  BY DEF Moves
<1> QED BY <1>1, <1>2, BackspaceMoves, RecallMoves DEF EscapeKey

(* While the call is under way: unless keys were lost the terminal, once   *)
(* it has the reply, shows the line, which a Return has ended.             *)
Tells(e, t) ==
  /\ ~e.strays => Told(e, t)
  /\ e.CmdReady => e.done /\ e.CmdBuilder[e.CmdPtr] = NUL
  /\ ~e.echo => e.done /\ (~e.CmdReady /\ ~e.strays => e.reply = <<>>)
Follows(d, e) ==
  d \in Context /\ d.SavedCommands = e.SavedCommands /\ \A t : Tells(e, t) => Tells(d, t)

LEMMA MovesTells ==
  ASSUME NEW e \in Context, ~e.done, NEW d, Moves(d, e)
  PROVE  Follows(d, e)
<1> SUFFICES ASSUME NEW t, Tells(e, t) PROVE Tells(d, t)
  BY DEF Follows, Moves
<1>1. e.strays \in BOOLEAN /\ d.strays \in BOOLEAN
  BY DEF Moves, Context
<1>2. ~e.CmdReady /\ e.echo /\ d.CmdReady = e.CmdReady /\ d.echo = e.echo
  BY DEF Tells, Moves
<1>3. ~d.strays => Told(d, t)
  BY <1>1 DEF Tells, Moves
<1> QED BY <1>2, <1>3 DEF Tells

LEMMA TypedTells ==
  ASSUME NEW e \in Context, ~e.done, NEW key \in Chars
  PROVE  Follows(Typed(e, key), e)
<1>1. /\ e.CmdPtr \in 0 .. LineLen - 1 /\ e.CmdBuilder \in Lines /\ LineLen \in Nat /\ LineLen > 2
      /\ e.reply \in Seq(Chars \cup {"BS"}) /\ e.strays \in BOOLEAN
  BY LineAssumption DEF Context
<1>2. PICK line \in Lines :
        /\ line = [e.CmdBuilder EXCEPT ![e.CmdPtr] = key]
        /\ \A text : Spells(text, e.CmdBuilder, e.CmdPtr) => Spells(Shows(text, key), line, e.CmdPtr + 1)
  <2>1. [e.CmdBuilder EXCEPT ![e.CmdPtr] = key] \in Lines
    BY <1>1 DEF Lines
  <2>2. PICK line \in Lines : line = [e.CmdBuilder EXCEPT ![e.CmdPtr] = key]
    BY <2>1
  <2>3. ASSUME NEW text, Spells(text, e.CmdBuilder, e.CmdPtr)
        PROVE  Spells(Shows(text, key), line, e.CmdPtr + 1)
    BY <1>1, <2>2, <2>3, SpellsTyped
  <2> QED BY <2>2, <2>3
<1>3. PICK r \in Seq(Chars \cup {"BS"}) : r = Append(e.reply, key)
  <2>1. Append(e.reply, key) \in Seq(Chars \cup {"BS"})
    BY <1>1
  <2> QED BY <2>1
<1>4. PICK next \in 0 .. LineLen - 1 : next = IF e.CmdPtr = LineLen - 1 THEN 0 ELSE e.CmdPtr + 1
  BY <1>1
<1>5. PICK full \in BOOLEAN : full = (next = LineLen - 1)
  OBVIOUS
<1>6. PICK n \in 0 .. LineLen - 1, strays \in BOOLEAN :
        n = (IF full THEN 0 ELSE next) /\ strays = (e.strays \/ full)
  BY <1>1, <1>4
<1>7. PICK d \in Context :
        d = [e EXCEPT !.CmdBuilder = line, !.CmdPtr = n, !.reply = r, !.done = full, !.strays = strays]
  BY DEF Context
<1>8. Typed(e, key) = d
  BY <1>2, <1>3, <1>4, <1>5, <1>6, <1>7 DEF Typed
<1>9. /\ d.CmdPtr = n /\ d.reply = r /\ d.CmdBuilder = line /\ d.done = full /\ d.strays = strays
      /\ d.CmdReady = e.CmdReady /\ d.echo = e.echo /\ d.SavedCommands = e.SavedCommands
  BY <1>7 DEF Context
<1> SUFFICES ASSUME NEW t, Tells(e, t) PROVE Tells(d, t)
  BY <1>8, <1>9 DEF Follows
<1>10. ~e.CmdReady /\ e.echo
  BY DEF Tells
<1>11. ASSUME ~d.strays PROVE Told(d, t)
  <2>1. ~e.strays /\ ~full /\ Told(e, t)
    BY <1>5, <1>6, <1>9, <1>11 DEF Tells
  <2>2. Echoed(t, r) = Shows(Echoed(t, e.reply), key)
    BY <1>1, <1>3, EchoKey
  <2>3. n = e.CmdPtr + 1 /\ n < LineLen - 1
    <3>1. e.CmdPtr < LineLen - 1 /\ n = next /\ next # LineLen - 1
      BY <1>5, <1>6, <2>1 DEF Told
    <3> QED BY <1>1, <1>4, <3>1
  <2> QED BY <1>2, <1>9, <2>1, <2>2, <2>3 DEF Told
<1> QED BY <1>9, <1>10, <1>11 DEF Tells

LEMMA ReturnTells ==
  ASSUME NEW e \in Context, ~e.done
  PROVE  Follows(Return(e), e)
<1>1. PICK line \in Lines : /\ line = [e.CmdBuilder EXCEPT ![e.CmdPtr] = NUL]
                            /\ line[e.CmdPtr] = NUL
                            /\ \A i \in 0 .. LineLen - 1 : i # e.CmdPtr => line[i] = e.CmdBuilder[i]
  <2>1. e.CmdBuilder \in Lines /\ e.CmdPtr \in 0 .. LineLen - 1
    BY DEF Context
  <2>2. [e.CmdBuilder EXCEPT ![e.CmdPtr] = NUL] \in Lines
    BY <2>1 DEF Lines
  <2>3. PICK line \in Lines : line = [e.CmdBuilder EXCEPT ![e.CmdPtr] = NUL]
    BY <2>2
  <2> QED BY <2>1, <2>3 DEF Lines
<1>2. PICK d \in Context :
        d = [e EXCEPT !.CmdReady = TRUE, !.CommandRecall = SavedLen - 1, !.CmdBuilder = line,
                      !.done = TRUE, !.echo = FALSE]
  <2>1. SavedLen - 1 \in 0 .. SavedLen - 1
    BY LineAssumption
  <2> QED BY <2>1 DEF Context
<1>3. Return(e) = d
  BY <1>1, <1>2 DEF Return
<1>4. /\ d.CmdReady /\ d.done /\ ~d.echo /\ d.CmdBuilder = line /\ d.CmdPtr = e.CmdPtr
      /\ d.reply = e.reply /\ d.strays = e.strays /\ d.SavedCommands = e.SavedCommands
  BY <1>2 DEF Context
<1>5. ASSUME NEW t, Told(e, t) PROVE Told(d, t)
  <2>1. e.CmdPtr \in 0 .. LineLen - 1 /\ LineLen \in Nat
    BY LineAssumption DEF Context
  <2>2. \A i \in 0 .. e.CmdPtr - 1 : i \in 0 .. LineLen - 1 /\ i # e.CmdPtr /\ line[i] = e.CmdBuilder[i]
    BY <1>1, <2>1
  <2>3. Prefix(line, e.CmdPtr) = Prefix(e.CmdBuilder, e.CmdPtr)
    <3>1. ASSUME NEW i \in 1 .. e.CmdPtr PROVE line[i - 1] = e.CmdBuilder[i - 1]
      <4>1. i - 1 \in 0 .. e.CmdPtr - 1
        BY <2>1
      <4> QED BY <2>2, <4>1
    <3> QED BY <3>1 DEF Prefix
  <2> QED BY <1>4, <1>5, <2>2, <2>3 DEF Told, Spells
<1>6. ASSUME NEW t, Tells(e, t) PROVE Tells(d, t)
  <2>1. ~e.strays => Told(e, t)
    BY <1>6 DEF Tells
  <2> QED BY <1>1, <1>4, <1>5, <2>1 DEF Tells
<1> QED BY <1>3, <1>4, <1>6 DEF Follows

LEMMA BreakTells ==
  ASSUME NEW e \in Context, ~e.done, NEW key
  PROVE  Follows(Break(e, key), e)
<1>1. PICK cancel \in BOOLEAN, strays \in BOOLEAN :
        cancel = (e.Cancel \/ key = "^C") /\ strays = (e.strays \/ e.reply # <<>>)
  OBVIOUS
<1>2. PICK d \in Context :
        d = [e EXCEPT !.Cancel = cancel, !.strays = strays, !.done = TRUE, !.echo = FALSE]
  BY DEF Context
<1>3. Break(e, key) = d
  BY <1>1, <1>2 DEF Break
<1>4. /\ d.CmdReady = e.CmdReady /\ d.done /\ ~d.echo /\ d.CmdBuilder = e.CmdBuilder
      /\ d.CmdPtr = e.CmdPtr /\ d.reply = e.reply /\ d.strays = strays
      /\ d.SavedCommands = e.SavedCommands
  BY <1>2 DEF Context
<1>5. ASSUME NEW t, Tells(e, t) PROVE Tells(d, t)
  BY <1>1, <1>4, <1>5 DEF Tells, Told
<1> QED BY <1>3, <1>4, <1>5 DEF Follows

LEMMA KeyTells ==
  ASSUME NEW e \in Context, NEW key \in Keys \cup {"none"}
  PROVE  Follows(Key(e, key), e)
<1>1. CASE e.done
  BY <1>1 DEF Key, Follows
<1>2. CASE ~e.done /\ key = "CR"
  <2>1. Key(e, key) = Return(e)
    BY <1>2 DEF Key
  <2> QED BY <1>2, <2>1, ReturnTells
<1>3. CASE ~e.done /\ key \in {"^C", "^E"}
  <2>1. Key(e, key) = Break(e, key)
    BY <1>3 DEF Key
  <2> QED BY <1>3, <2>1, BreakTells
<1>4. PICK b \in Context : b = (IF key = "BS" THEN Backspace(e) ELSE e) /\ Moves(b, e)
  <2>1. Moves(Backspace(e), e) /\ Moves(e, e)
    BY BackspaceMoves DEF Moves
  <2>2. Moves(IF key = "BS" THEN Backspace(e) ELSE e, e)
    BY <2>1
  <2> QED BY <2>2 DEF Moves
<1>5. CASE ~e.done /\ key \notin {"CR", "^C", "^E"} /\ Started(e, key) > 0
  <2>1. PICK n \in 0 .. 3 : n = CountDown(Started(e, key), key)
    <3>1. e.EscapeSequence \in 0 .. 3
      BY DEF Context
    <3>2. Started(e, key) \in 1 .. 4
      BY <1>5, <3>1 DEF Started
    <3>3. CountDown(Started(e, key), key) \in 0 .. 3
      BY <3>2 DEF CountDown
    <3> QED BY <3>3
  <2>2. PICK c \in Context : c = [b EXCEPT !.EscapeSequence = n] /\ Moves(c, e)
    <3>1. Moves([b EXCEPT !.EscapeSequence = n], b)
      BY CountMoves
    <3>2. PICK c : c = [b EXCEPT !.EscapeSequence = n]
      OBVIOUS
    <3>3. Moves(c, e) /\ c \in Context
      BY <1>4, <3>1, <3>2, MovesOn DEF Moves
    <3> QED BY <3>2, <3>3
  <2>3. PICK d : d = (IF n = 0 THEN EscapeKey(c, key) ELSE c) /\ Moves(d, e)
    <3>1. Moves(EscapeKey(c, key), e)
      BY <2>2, EscapeKeyMoves, MovesOn
    <3> QED BY <2>2, <3>1
  <2>4. Key(e, key) = d
    BY <1>4, <1>5, <2>1, <2>2, <2>3 DEF Key
  <2> QED BY <1>5, <2>3, <2>4, MovesTells
<1>6. CASE ~e.done /\ key \notin {"CR", "^C", "^E"} /\ ~(Started(e, key) > 0)
  <2>1. Key(e, key) = IF key \in Control THEN b ELSE Typed(e, key)
    BY <1>4, <1>6 DEF Key
  <2>2. CASE key \in Control
    BY <1>4, <1>6, <2>1, <2>2, MovesTells
  <2>3. CASE key \notin Control
    BY <1>6, <2>1, <2>3, TypedTells DEF Chars
  <2> QED BY <2>2, <2>3
<1> QED BY <1>1, <1>2, <1>3, <1>5, <1>6

LEMMA BegunIs ==
  ASSUME NEW e \in Context
  PROVE  /\ Begun(e) \in Context /\ Begun(e).reply = <<>> /\ ~Begun(e).done /\ Begun(e).echo
         /\ Begun(e).CmdReady = e.CmdReady /\ Begun(e).strays = e.strays
         /\ Begun(e).CmdBuilder = e.CmdBuilder /\ Begun(e).CmdPtr = e.CmdPtr
         /\ Begun(e).SavedCommands = e.SavedCommands
<1>1. <<>> \in Seq(Chars \cup {"BS"})
  OBVIOUS
<1> QED BY <1>1 DEF Begun, Context

(* The keys of a read, one after the other.                                *)
LEMMA HandlerTells ==
  ASSUME NEW e \in Context, NEW keys \in Seq(Keys \cup {"none"})
  PROVE  Follows(PuttyRxHandler(e, keys), Begun(e))
<1>1. PICK f : Editing(e, keys, f) /\ PuttyRxHandler(e, keys) = f[Len(keys)]
  BY HandlerEdits
<1> DEFINE Good == {n \in Nat : n <= Len(keys) => Follows(f[n], Begun(e))}
<1>2. 0 \in Good
  BY <1>1, BegunIs DEF Editing, Follows
<1>3. ASSUME NEW n \in Nat, n \in Good PROVE n + 1 \in Good
  <2> SUFFICES ASSUME n + 1 <= Len(keys) PROVE Follows(f[n + 1], Begun(e))
    OBVIOUS
  <2>1. n \in 0 .. Len(keys) - 1 /\ n + 1 \in 1 .. Len(keys) /\ n <= Len(keys)
    OBVIOUS
  <2>2. f[n + 1] = Key(f[n], keys[n + 1]) /\ keys[n + 1] \in Keys \cup {"none"}
    BY <1>1, <2>1, ElementOfSeq DEF Editing
  <2>3. Follows(f[n], Begun(e))
    BY <1>3, <2>1
  <2>4. Follows(Key(f[n], keys[n + 1]), f[n])
    BY <2>2, <2>3, KeyTells DEF Follows
  <2> QED BY <2>2, <2>3, <2>4 DEF Follows
<1>4. Nat \subseteq Good
  <2> HIDE DEF Good
  <2> QED BY <1>2, <1>3, Upwards
<1>5. Len(keys) \in Good
  BY <1>4
<1> QED BY <1>1, <1>5

-----------------------------------------------------------------------------
(* The string in the buffer: up to the first NUL.                          *)
NoNul(line, m) == \A i \in 0 .. m - 1 : line[i] # NUL
LEMMA NoNulBefore ==
  ASSUME NEW line, NEW m \in Nat, NEW n \in Nat, NoNul(line, m), line[n] = NUL
  PROVE  m <= n
<1> SUFFICES ASSUME n < m PROVE FALSE
  OBVIOUS
<1>1. n \in 0 .. m - 1
  OBVIOUS
<1> QED BY <1>1 DEF NoNul

LEMMA TextIs ==
  ASSUME NEW line \in Lines, NEW n \in 0 .. LineLen
  PROVE  \E m \in 0 .. n : /\ Text(line, n) = Prefix(line, m)
                           /\ NoNul(line, m) /\ (m = n \/ line[m] = NUL)
<1> DEFINE ends == {i \in 0 .. n - 1 : line[i] = NUL}
           first == CHOOSE i \in ends : \A j \in ends : i <= j
<1>1. n \in Nat
  BY LineAssumption
<1>2. Text(line, n) = Prefix(line, IF ends = {} THEN n ELSE first)
  BY DEF Text
<1>3. CASE ends = {}
  <2>1. NoNul(line, n)
    BY <1>3 DEF NoNul
  <2> QED BY <1>1, <1>2, <1>3, <2>1
<1>4. CASE ends # {}
  <2>1. \E i \in ends : \A j \in ends : i <= j
    <3>1. ends \in SUBSET Nat
      BY <1>1
    <3> HIDE DEF ends
    <3> QED BY <1>4, <3>1, LeastNumber
  <2>2. first \in ends /\ \A j \in ends : first <= j
    <3> HIDE DEF ends
    <3> QED BY <2>1
  <2>3. PICK m \in 0 .. n - 1 : m = first /\ line[m] = NUL /\ \A j \in ends : m <= j
    BY <2>2
  <2>4. ASSUME NEW i \in 0 .. m - 1 PROVE line[i] # NUL
    <3>1. i \in 0 .. n - 1 /\ ~(m <= i)
      BY <1>1
    <3> QED BY <2>3, <3>1
  <2>5. m \in 0 .. n
    BY <1>1
  <2>6. NoNul(line, m)
    BY <2>4 DEF NoNul
  <2> QED BY <1>2, <1>4, <2>3, <2>5, <2>6
<1> QED BY <1>3, <1>4

(* A line that Return has ended is the string in its buffer, ...           *)
LEMMA EndedText ==
  ASSUME NEW line \in Lines, NEW p \in 0 .. LineLen - 1, line[p] = NUL, NEW text,
         Spells(text, line, p)
  PROVE  text = Text(line, LineLen)
<1>1. LineLen \in 0 .. LineLen /\ LineLen \in Nat
  BY LineAssumption
<1>2. PICK m \in 0 .. LineLen : /\ Text(line, LineLen) = Prefix(line, m)
                               /\ NoNul(line, m) /\ (m = LineLen \/ line[m] = NUL)
  BY <1>1, TextIs
<1>3. m <= p
  BY <1>1, <1>2, NoNulBefore
<1>4. ~(m < p)
  <2>1. NoNul(line, p)
    BY DEF Spells, NoNul
  <2> SUFFICES ASSUME m < p PROVE FALSE
    OBVIOUS
  <2>2. line[m] = NUL
    BY <1>1, <1>2
  <2> QED BY <1>1, <2>1, <2>2, NoNulBefore
<1>5. m = p
  BY <1>1, <1>3, <1>4
<1> QED BY <1>2, <1>5 DEF Spells

(* ... and what SaveCommand keeps of a string is its beginning.            *)
LEMMA SavedText ==
  ASSUME NEW line \in Lines, NEW text, text = Text(line, LineLen)
  PROVE  /\ Text(line, CmdLen) \in Saved
         /\ SubSeq(text, 1, IF Len(text) < CmdLen THEN Len(text) ELSE CmdLen) = Text(line, CmdLen)
<1>1. LineLen \in 0 .. LineLen /\ LineLen \in Nat /\ CmdLen \in 0 .. LineLen /\ CmdLen \in Nat /\ CmdLen < LineLen
  BY LineAssumption
<1>2. PICK m \in 0 .. LineLen : /\ Text(line, LineLen) = Prefix(line, m)
                               /\ NoNul(line, m) /\ (m = LineLen \/ line[m] = NUL)
  BY <1>1, TextIs
<1>3. PICK k \in 0 .. CmdLen : /\ Text(line, CmdLen) = Prefix(line, k)
                              /\ NoNul(line, k) /\ (k = CmdLen \/ line[k] = NUL)
  BY <1>1, TextIs
<1>4. k = IF m < CmdLen THEN m ELSE CmdLen
  <2>1. ~(m < k)
    <3> SUFFICES ASSUME m < k PROVE FALSE
      OBVIOUS
    <3>1. line[m] = NUL
      BY <1>1, <1>2
    <3> QED BY <1>1, <1>3, <3>1, NoNulBefore
  <2>2. ~(k < m /\ k < CmdLen)
    <3> SUFFICES ASSUME k < m, k < CmdLen PROVE FALSE
      OBVIOUS
    <3>1. line[k] = NUL
      BY <1>1, <1>3
    <3> QED BY <1>1, <1>2, <3>1, NoNulBefore
  <2> QED BY <1>1, <2>1, <2>2
<1>5. Spells(Text(line, LineLen), line, m) /\ Spells(Text(line, CmdLen), line, k)
  BY <1>2, <1>3 DEF Spells, NoNul
<1>6. /\ text \in Seq(Chars) /\ Len(text) = m /\ \A i \in 1 .. m : text[i] = line[i - 1]
  BY <1>5, Spelled
<1>7. PICK s : s = Text(line, CmdLen)
  OBVIOUS
<1>8. s \in Seq(Chars) /\ Len(s) = k /\ \A i \in 1 .. k : s[i] = line[i - 1]
  <2>1. k \in 0 .. LineLen
    BY <1>1
  <2> QED BY <1>5, <1>7, <2>1, Spelled
<1>9. s \in Saved
  BY <1>1, <1>8 DEF Saved
<1>10. SubSeq(text, 1, k) = s
  <2>1. PICK u : u = SubSeq(text, 1, k)
    OBVIOUS
  <2>2. k \in 0 .. m /\ k \in Nat /\ m \in Nat
    BY <1>1, <1>4
  <2>3. u \in Seq(Chars) /\ Len(u) = k /\ \A i \in 1 .. k : u[i] = text[i]
    BY <1>6, <2>1, <2>2
  <2>4. ASSUME NEW i \in 1 .. k PROVE u[i] = s[i]
    <3>1. i \in 1 .. m
      BY <2>2
    <3> QED BY <1>6, <1>8, <2>3, <3>1
  <2> QED BY <1>8, <2>1, <2>2, <2>3, <2>4, SeqEqual
<1> QED BY <1>4, <1>6, <1>7, <1>9, <1>10

-----------------------------------------------------------------------------
(* Of the console between its steps: at the prompt no line is complete and *)
(* the terminal shows what was typed, unless keys were lost; afterwards    *)
(* the line that runs is the string in the buffer.                         *)
EditInv ==
  /\ at \in {"idle", "ready", "more", "again"} /\ ed \in Context
  /\ history = ed.SavedCommands
  /\ at = "idle" =>
       /\ ~ed.CmdReady
       /\ ~ed.strays => ed.CmdPtr < LineLen - 1 /\ Spells(shown, ed.CmdBuilder, ed.CmdPtr)
  /\ at # "idle" => entered = Text(ed.CmdBuilder, LineLen)

LEMMA FreshIn ==
  /\ EmptyLine \in Lines /\ <<>> \in Saved /\ LineLen - 1 \in Nat
  /\ Prefix(EmptyLine, 0) = <<>> /\ Spells(<<>>, EmptyLine, 0)
<1>1. EmptyLine \in Lines
  BY DEF EmptyLine, Lines
<1>2. <<>> \in Seq(Chars) /\ Len(<<>>) = 0 /\ 0 <= CmdLen /\ LineLen - 1 \in Nat
  BY LineAssumption
<1>3. Prefix(EmptyLine, 0) = <<>>
  BY DEF Prefix
<1> QED BY <1>1, <1>2, <1>3 DEF Saved, Spells

LEMMA InitEdit == Init => EditInv
<1> SUFFICES ASSUME Init PROVE EditInv
  OBVIOUS
<1>1. PICK saved \in [1 .. SavedLen -> Saved], none \in Seq(Chars \cup {"BS"}) :
        saved = [i \in 1 .. SavedLen |-> <<>>] /\ none = <<>>
  <2>1. [i \in 1 .. SavedLen |-> <<>>] \in [1 .. SavedLen -> Saved] /\ <<>> \in Seq(Chars \cup {"BS"})
    BY FreshIn
  <2> QED BY <2>1
<1>2. PICK line \in Lines : line = EmptyLine
  BY FreshIn
<1>3. FreshContext =
        [EscapeSequence |-> 0, CommandRecall |-> SavedLen - 1, Cancel |-> FALSE, CmdReady |-> FALSE,
         CmdPtr |-> 0, CmdBuilder |-> line, SavedCommands |-> saved,
         reply |-> none, done |-> FALSE, echo |-> TRUE, strays |-> FALSE]
  BY <1>1, <1>2 DEF FreshContext
<1>4. 0 \in 0 .. LineLen - 1 /\ 0 < LineLen - 1 /\ SavedLen - 1 \in 0 .. SavedLen - 1
  BY LineAssumption
<1>5. /\ FreshContext \in Context /\ ~FreshContext.CmdReady /\ FreshContext.CmdPtr = 0
      /\ FreshContext.CmdBuilder = line /\ FreshContext.SavedCommands = saved
  BY <1>3, <1>4 DEF Context
<1> QED BY <1>1, <1>2, <1>4, <1>5, FreshIn DEF Init, EditInv

(* The call of PuttyRxHandler, and the echo.                               *)
LEMMA HandledIs ==
  ASSUME ed \in Context, Buff \in Seq(Item)
  PROVE  Follows(Handled, Begun(ed))
<1>1. PICK keys : keys = [i \in DOMAIN Buff |-> Buff[i].key]
  OBVIOUS
<1>2. keys \in Seq(Keys \cup {"none"})
  <2>1. ASSUME NEW i \in 1 .. Len(Buff) PROVE Buff[i].key \in Keys \cup {"none"}
    <3>1. Buff[i] \in Item
      BY ElementOfSeq
    <3> QED BY <3>1 DEF Item
  <2>2. keys = [i \in 1 .. Len(Buff) |-> Buff[i].key] /\ Len(Buff) \in Nat
    BY <1>1
  <2> QED BY <2>1, <2>2
<1> QED BY <1>1, <1>2, HandlerTells DEF Handled

LEMMA ReadEdit ==
  ASSUME EditInv, Buff \in Seq(Item), Read
  PROVE  EditInv'
<1>1. PICK h : h = Handled
  OBVIOUS
<1>2. h \in Context /\ \A t : Tells(Begun(ed), t) => Tells(h, t)
  BY <1>1, HandledIs DEF Follows, EditInv
<1>3. PICK s \in BOOLEAN, none \in Seq(Chars \cup {"BS"}) : s = (h.strays \/ at = "more") /\ none = <<>>
  <2>1. <<>> \in Seq(Chars \cup {"BS"})
    OBVIOUS
  <2> QED BY <2>1
<1>4. ed' = [h EXCEPT !.reply = none, !.done = FALSE, !.echo = TRUE, !.strays = s]
  BY <1>1, <1>2, <1>3 DEF Read, Context
<1>5. /\ ed' \in Context /\ ed'.CmdReady = h.CmdReady /\ ed'.strays = s
      /\ ed'.CmdPtr = h.CmdPtr /\ ed'.CmdBuilder = h.CmdBuilder /\ ed'.SavedCommands = h.SavedCommands
  BY <1>2, <1>4 DEF Context
<1>6. history' = history /\ h.SavedCommands = ed.SavedCommands /\ history = ed.SavedCommands
  BY <1>1, HandledIs, BegunIs DEF EditInv, Follows, Read
<1>7. /\ h.CmdPtr \in 0 .. LineLen - 1 /\ h.CmdBuilder \in Lines /\ h.strays \in BOOLEAN
      /\ h.CmdReady \in BOOLEAN /\ h.echo \in BOOLEAN
  BY <1>2 DEF Context
<1>8. CASE at = "more"
  <2>1. at' = "again" /\ entered' = Text(h.CmdBuilder, LineLen)
    BY <1>1, <1>8 DEF Read
  <2> QED BY <1>5, <1>6, <2>1 DEF EditInv
<1>9. CASE at = "idle"
  <2>1. Tells(Begun(ed), shown)
    <3>1. Echoed(shown, <<>>) = shown
      BY EchoEmpty
    <3> QED BY <1>9, <3>1, BegunIs DEF EditInv, Tells, Told
  <2>2. Tells(h, shown)
    BY <1>2, <2>1
  <2>3. s = h.strays
    BY <1>3, <1>7, <1>9
  <2>4. CASE h.CmdReady
    <3>1. at' = "ready" /\ h.CmdBuilder[h.CmdPtr] = NUL
      BY <1>1, <1>9, <2>2, <2>4 DEF Read, Tells
    <3>2. CASE h.strays
      <4>1. entered' = Text(h.CmdBuilder, LineLen)
        BY <1>1, <3>1, <3>2 DEF Read
      <4> QED BY <1>5, <1>6, <3>1, <4>1 DEF EditInv
    <3>3. CASE ~h.strays
      <4>1. entered' = Echoed(shown, h.reply)
        BY <1>1, <3>1, <3>3 DEF Read
      <4>2. Spells(Echoed(shown, h.reply), h.CmdBuilder, h.CmdPtr)
        BY <2>2, <3>3 DEF Tells, Told
      <4>3. entered' = Text(h.CmdBuilder, LineLen)
        BY <1>7, <3>1, <4>1, <4>2, EndedText
      <4> QED BY <1>5, <1>6, <3>1, <4>3 DEF EditInv
    <3> QED BY <3>2, <3>3
  <2>5. CASE ~h.CmdReady
    <3>1. at' = "idle"
      BY <1>1, <1>9, <2>5 DEF Read
    <3>2. ASSUME ~h.strays PROVE shown' = Echoed(shown, h.reply)
      <4>1. CASE h.echo
        BY <1>1, <4>1 DEF Read
      <4>2. CASE ~h.echo
        <5>1. h.reply = <<>> /\ shown' = shown
          BY <1>1, <2>2, <2>5, <3>2, <4>2 DEF Read, Tells
        <5> QED BY <5>1, EchoEmpty
      <4> QED BY <4>1, <4>2
    <3>3. ~h.strays => h.CmdPtr < LineLen - 1 /\ Spells(shown', h.CmdBuilder, h.CmdPtr)
      BY <2>2, <3>2 DEF Tells, Told
    <3> QED BY <1>5, <1>6, <2>3, <2>5, <3>1, <3>3 DEF EditInv
  <2> QED BY <2>4, <2>5
<1>10. at \in {"idle", "more"}
  BY DEF Read
<1> QED BY <1>8, <1>9, <1>10

LEMMA EndLineEdit ==
  ASSUME EditInv, EndLine
  PROVE  EditInv'
<1>1. /\ ed \in Context /\ ed.CmdBuilder \in Lines /\ ed.SavedCommands \in [1 .. SavedLen -> Saved]
      /\ entered = Text(ed.CmdBuilder, LineLen) /\ history = ed.SavedCommands
  BY DEF EditInv, EndLine, Context
<1>2. PICK first \in Saved :
        /\ first = Text(ed.CmdBuilder, CmdLen)
        /\ first = SubSeq(entered, 1, IF Len(entered) < CmdLen THEN Len(entered) ELSE CmdLen)
  BY <1>1, SavedText
<1>3. PICK saved \in [1 .. SavedLen -> Saved] :
        saved = [i \in 1 .. SavedLen |-> IF i = 1 THEN first ELSE ed.SavedCommands[i - 1]]
  <2>1. ASSUME NEW i \in 1 .. SavedLen
        PROVE  (IF i = 1 THEN first ELSE ed.SavedCommands[i - 1]) \in Saved
    <3>1. i # 1 => i - 1 \in 1 .. SavedLen
      BY LineAssumption
    <3> QED BY <1>1, <3>1
  <2> QED BY <2>1
<1>4. PICK line \in Lines : line = EmptyLine
  BY FreshIn
<1>5. history' = saved
  BY <1>1, <1>2, <1>3 DEF EndLine
<1>6. SaveCommand(ed) = saved
  BY <1>2, <1>3 DEF SaveCommand
<1>7. ed' = [ed EXCEPT !.SavedCommands = saved, !.CmdBuilder = line, !.CmdPtr = 0,
                       !.Cancel = FALSE, !.CmdReady = FALSE, !.strays = FALSE]
  BY <1>4, <1>6 DEF EndLine, ClearCommand
<1>8. 0 \in 0 .. LineLen - 1 /\ 0 < LineLen - 1
  BY LineAssumption
<1>9. /\ ed' \in Context /\ ed'.SavedCommands = saved /\ ed'.CmdBuilder = line /\ ed'.CmdPtr = 0
      /\ ~ed'.CmdReady
  BY <1>1, <1>7, <1>8 DEF Context
<1> QED BY <1>4, <1>5, <1>8, <1>9, FreshIn DEF EditInv, EndLine

LEMMA NextEdit ==
  ASSUME RxInv, EditInv, [Next]_vars
  PROVE  EditInv'
<1>1. ASSUME UNCHANGED <<ed, shown, entered, history>>,
             at' = at \/ (at # "idle" /\ at' \in {"more", "again"})
      PROVE  EditInv'
  BY <1>1 DEF EditInv
<1>2. Buff \in Seq(Item)
  BY DEF RxInv, RxTypes
<1>3. CASE Read
  BY <1>2, <1>3, ReadEdit
<1>4. CASE EndLine
  BY <1>4, EndLineEdit
<1>5. CASE (\E key \in Keys : Byte(key)) \/ Poll \/ UNCHANGED vars
  BY <1>1, <1>5 DEF Byte, Poll, vars
<1>6. CASE NothingRead \/ Part
  BY <1>1, <1>6 DEF NothingRead, Part
<1> QED BY <1>3, <1>4, <1>5, <1>6 DEF Next

LEMMA EditAlways == Spec => [](RxInv /\ EditInv)
<1>1. Init => RxInv /\ EditInv
  BY InitRxInv, InitEdit DEF Init
<1>2. RxInv /\ EditInv /\ [Next]_vars => (RxInv /\ EditInv)'
  BY ConsoleStep, NextRxInv, NextEdit
<1> QED BY <1>1, <1>2, PTL DEF Spec

(* At the prompt the terminal shows the line that Enter would run: for     *)
(* every alphabet, length of a line and number of saved commands, every    *)
(* division of the keys into reads and every moment they arrive at.        *)
THEOREM EchoTellsLineAlways == Spec => []EchoTellsLine
<1>1. EditInv => EchoTellsLine
  BY DEF EditInv, EchoTellsLine, Spells
<1> QED BY <1>1, EditAlways, PTL

(* The recalled commands are what was entered, keys lost or not.           *)
THEOREM HistoryIsWhatRanAlways == Spec => []HistoryIsWhatRan
<1>1. EditInv => HistoryIsWhatRan
  BY DEF EditInv, HistoryIsWhatRan
<1> QED BY <1>1, EditAlways, PTL

(* The indices of the line, of the saved commands and of the ring stay in  *)
(* their ranges.                                                           *)
THEOREM SerialTypes == Spec => []TypeOK
<1>1. RxInv /\ EditInv => TypeOK
  BY DEF RxInv, RxTypes, EditInv, Context, TypeOK
<1> QED BY <1>1, EditAlways, PTL
=============================================================================
