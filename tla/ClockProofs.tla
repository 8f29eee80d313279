----------------------------- MODULE ClockProofs -----------------------------
(***************************************************************************)
(* The clock tells UTC once an answer has set it, for every span of days   *)
(* from 2000 to 18 January 2038, the last whole day of a 32-bit time, and  *)
(* every division of the day.                                              *)
(***************************************************************************)
EXTENDS Clock, TLAPS

Calendar == [year : 0 .. 99, month : 0 .. 12, mday : 0 .. 31, tick : 0 .. DayTicks - 1]
ClockTypes ==
  /\ day \in FirstDay .. LastDay /\ tick \in 0 .. DayTicks - 1
  /\ rtc \in Calendar
  /\ t[1] \in FirstDay .. LastDay
  /\ set \in BOOLEAN /\ turned \in BOOLEAN /\ raced \in BOOLEAN
  /\ sntp \in {"notify", "request", "recv", "date", "delay"}

(* Between the two halves of WriteUtcTime the time of the day is right and *)
(* the day is still the one that will be written, or midnight has passed.  *)
HalfWritten == (sntp = "date" /\ ~raced) => day = t[1] /\ rtc.tick = tick
ClockInv == ClockTypes /\ HalfWritten /\ ClockRight

-----------------------------------------------------------------------------
(* The largest of some months.                                             *)
LEMMA LastMonth ==
  ASSUME NEW S \in SUBSET (0 .. 11), 0 \in S
  PROVE  Max(S) \in S /\ \A n \in S : Max(S) >= n
<1>1. \E m \in S : \A n \in S : m >= n
  <2>1. PICK k \in 0 .. 11 : k \in S /\ \A n \in k + 1 .. 11 : n \notin S
    <3>1. CASE 11 \in S
      BY <3>1
    <3>2. CASE 11 \notin S /\ 10 \in S
      BY <3>2
    <3>3. CASE 11 \notin S /\ 10 \notin S /\ 9 \in S
      BY <3>3
    <3>4. CASE (\A n \in 9 .. 11 : n \notin S) /\ 8 \in S
      BY <3>4
    <3>5. CASE (\A n \in 8 .. 11 : n \notin S) /\ 7 \in S
      BY <3>5
    <3>6. CASE (\A n \in 7 .. 11 : n \notin S) /\ 6 \in S
      BY <3>6
    <3>7. CASE (\A n \in 6 .. 11 : n \notin S) /\ 5 \in S
      BY <3>7
    <3>8. CASE (\A n \in 5 .. 11 : n \notin S) /\ 4 \in S
      BY <3>8
    <3>9. CASE (\A n \in 4 .. 11 : n \notin S) /\ 3 \in S
      BY <3>9
    <3>10. CASE (\A n \in 3 .. 11 : n \notin S) /\ 2 \in S
      BY <3>10
    <3>11. CASE \A n \in 2 .. 11 : n \notin S
      BY <3>11
    <3> QED BY <3>1, <3>2, <3>3, <3>4, <3>5, <3>6, <3>7, <3>8, <3>9, <3>10, <3>11
  <2>2. \A n \in S : k >= n
    BY <2>1
  <2> QED BY <2>1, <2>2
<1> QED BY <1>1 DEF Max

(* The days before each month, and before each year.                       *)
YearLength(y) == IF Leap(y) THEN 366 ELSE 365
LEMMA MonthStarts ==
  ASSUME NEW y \in 0 .. 100, NEW m \in 0 .. 12
  PROVE  /\ MonthStart(y, m) \in Nat /\ MonthStart(y, 0) = 0
         /\ MonthStart(y, 12) = YearLength(y) /\ YearLength(y) \in Nat
BY DEF MonthStart, Starts, Leap, YearLength

LEMMA MonthLengths ==
  ASSUME NEW y \in 0 .. 99, NEW m \in 0 .. 11, NEW n, n = m + 1
  PROVE  MonthStart(y, n) - MonthStart(y, m) \in 28 .. 31
BY DEF MonthStart, Starts, Leap

Century == {d \in Nat : d < 36525}
YearOf(d) == (4 * d) \div 1461
LEMMA YearStarts ==
  ASSUME NEW d \in Century
  PROVE  /\ YearOf(d) \in 0 .. 99 /\ YearStart(YearOf(d)) \in Nat
         /\ d - YearStart(YearOf(d)) \in Nat
         /\ d - YearStart(YearOf(d)) < YearLength(YearOf(d))
<1> DEFINE y == YearOf(d)
           q == y \div 4
           r == y % 4
<1>1. y \in 0 .. 99 /\ 1461 * y <= 4 * d /\ 4 * d < 1461 * y + 1461
  BY DEF YearOf, Century
<1> HIDE DEF y
<1>2. y = 4 * q + r /\ q \in 0 .. 24 /\ r \in 0 .. 3
  <2>1. y \in 0 .. 99
    BY <1>1
  <2> QED BY ONLY <2>1
<1>3. (y + 3) \div 4 = IF r = 0 THEN q ELSE q + 1
  <2>1. y \in 0 .. 99
    BY <1>1
  <2> QED BY ONLY <2>1
<1>4. YearStart(y) = 1461 * q + 365 * r + (IF r = 0 THEN 0 ELSE 1)
  BY <1>2, <1>3 DEF YearStart
<1>5. YearLength(y) = IF r = 0 THEN 366 ELSE 365
  BY DEF Leap, YearLength
<1> HIDE DEF q, r
<1>6. d \in Nat
  BY DEF Century
<1>7. d - YearStart(y) \in Nat /\ d - YearStart(y) < YearLength(y)
  <2>1. CASE r = 0
    BY <1>1, <1>2, <1>4, <1>5, <1>6, <2>1
  <2>2. CASE r = 1
    BY <1>1, <1>2, <1>4, <1>5, <1>6, <2>2
  <2>3. CASE r = 2
    BY <1>1, <1>2, <1>4, <1>5, <1>6, <2>3
  <2>4. CASE r = 3
    BY <1>1, <1>2, <1>4, <1>5, <1>6, <2>4
  <2> QED BY <1>2, <2>1, <2>2, <2>3, <2>4
<1> QED BY <1>1, <1>2, <1>4, <1>7 DEF y

(* gmtime_r returns a date, and mktime takes it back to the day.           *)
LEMMA RoundTrip ==
  ASSUME NEW d \in Century
  PROVE  /\ Gmtime(d).year \in 0 .. 99 /\ Gmtime(d).mon \in 0 .. 11 /\ Gmtime(d).mday \in 1 .. 31
         /\ Mktime(Gmtime(d).year, Gmtime(d).mon, Gmtime(d).mday) = d
<1>1. PICK y : y = YearOf(d)
  OBVIOUS
<1>2. PICK yday : yday = d - YearStart(y)
  OBVIOUS
<1>3. PICK m : m = Max({n \in 0 .. 11 : MonthStart(y, n) <= yday})
  OBVIOUS
<1>4. d \in Nat
  BY DEF Century
<1>5. y \in 0 .. 99 /\ YearStart(y) \in Nat /\ yday \in Nat
      /\ yday < YearLength(y)
  BY <1>1, <1>2, YearStarts
<1>6. Gmtime(d) = [year |-> y, mon |-> m, mday |-> yday - MonthStart(y, m) + 1]
  BY <1>1, <1>2, <1>3 DEF Gmtime, YearOf
<1>7. m \in 0 .. 11 /\ MonthStart(y, m) <= yday /\ MonthStart(y, m) \in Nat
      /\ \A n \in 0 .. 11 : MonthStart(y, n) <= yday => m >= n
  <2>1. MonthStart(y, 0) = 0 /\ yday >= 0
    BY <1>5, MonthStarts
  <2> DEFINE S == {n \in 0 .. 11 : MonthStart(y, n) <= yday}
  <2>2. S \in SUBSET (0 .. 11) /\ 0 \in S
    BY <2>1
  <2>3. m \in S /\ \A n \in S : m >= n
    <3> HIDE DEF S
    <3> QED BY <1>3, <2>2, LastMonth DEF S
  <2>4. m \in 0 .. 11 /\ MonthStart(y, m) <= yday
        /\ \A n \in 0 .. 11 : MonthStart(y, n) <= yday => m >= n
    BY <2>3
  <2> QED BY <1>5, <2>4, MonthStarts
<1>8. yday < MonthStart(y, m + 1)
  <2>1. CASE m = 11
    BY <1>5, <2>1, MonthStarts
  <2>2. CASE m < 11
    <3>1. m + 1 \in 0 .. 11
      BY <1>7, <2>2
    <3>2. MonthStart(y, m + 1) \in Nat
      BY <1>5, <3>1, MonthStarts
    <3>3. ~(MonthStart(y, m + 1) <= yday)
      BY <1>7, <3>1
    <3> QED BY <1>5, <3>2, <3>3
  <2> QED BY <1>7, <2>1, <2>2
<1>9. yday - MonthStart(y, m) + 1 \in 1 .. 31
  <2>1. MonthStart(y, m + 1) - MonthStart(y, m) \in 28 .. 31
    BY <1>5, <1>7, MonthLengths
  <2>2. m + 1 \in 0 .. 12
    BY <1>7
  <2>3. MonthStart(y, m + 1) \in Nat
    BY <1>5, <2>2, MonthStarts
  <2> QED BY <1>5, <1>7, <1>8, <2>1, <2>3
<1>10. m \div 12 = 0 /\ m % 12 = m
  BY <1>7
<1>11. Mktime(y, m, yday - MonthStart(y, m) + 1) = d
  BY <1>2, <1>4, <1>5, <1>7, <1>10 DEF Mktime
<1> QED BY <1>5, <1>6, <1>7, <1>9, <1>11

-----------------------------------------------------------------------------
(* The calendar after each of the changes that the code makes.             *)
LEMMA CalendarFields ==
  ASSUME NEW c \in Calendar
  PROVE  /\ c.year \in 0 .. 99 /\ c.month \in 0 .. 12 /\ c.mday \in 0 .. 31
         /\ c.tick \in 0 .. DayTicks - 1
BY DEF Calendar

LEMMA NewTick ==
  ASSUME NEW c \in Calendar, NEW v \in 0 .. DayTicks - 1, NEW e, e = [c EXCEPT !.tick = v]
  PROVE  /\ e \in Calendar
         /\ e.year = c.year /\ e.month = c.month /\ e.mday = c.mday /\ e.tick = v
BY DEF Calendar

LEMMA NewDay ==
  ASSUME NEW c \in Calendar, NEW v \in 0 .. 31, NEW e, e = [c EXCEPT !.mday = v]
  PROVE  /\ e \in Calendar
         /\ e.year = c.year /\ e.month = c.month /\ e.mday = v /\ e.tick = c.tick
BY DEF Calendar

LEMMA NewMonth ==
  ASSUME NEW c \in Calendar, NEW y \in 0 .. 99, NEW m \in 0 .. 12, NEW v \in 0 .. 31,
         NEW e, e = [c EXCEPT !.mday = v, !.month = m, !.year = y]
  PROVE  e \in Calendar
BY DEF Calendar

(* At the end of a day the calendar stays within its ranges.               *)
LEMMA NextDate ==
  ASSUME NEW c \in Calendar, NEW turns \in Turns(c), 0 \in 0 .. DayTicks - 1,
         NEW new, new = [IF turns THEN Turned(c) ELSE [c EXCEPT !.mday = @ + 1] EXCEPT !.tick = 0]
  PROVE  /\ new \in Calendar /\ new.tick = 0
         /\ ~turns => new.year = c.year /\ new.month = c.month /\ new.mday = c.mday + 1
<1>1. /\ c.year \in 0 .. 99 /\ c.month \in 0 .. 12 /\ c.mday \in 0 .. 31
  BY CalendarFields
<1>2. CASE turns
  <2>1. PICK y, m : /\ y = IF c.month = 12 THEN (c.year + 1) % 100 ELSE c.year
                    /\ m = IF c.month = 12 THEN 1 ELSE c.month + 1
    OBVIOUS
  <2>2. y \in 0 .. 99 /\ m \in 0 .. 12
    <3>1. (c.year + 1) % 100 \in 0 .. 99
      BY <1>1
    <3> QED BY <1>1, <2>1, <3>1
  <2>3. Turned(c) = [c EXCEPT !.mday = 1, !.month = m, !.year = y]
    BY <2>1 DEF Turned
  <2>4. Turned(c) \in Calendar
    BY <2>2, <2>3, 1 \in 0 .. 31, NewMonth
  <2>5. new = [Turned(c) EXCEPT !.tick = 0]
    BY <1>2
  <2> QED BY <1>2, <2>4, <2>5, NewTick
<1>3. CASE ~turns
  <2>1. c.mday <= 30
    <3>1. CASE c.month \in 1 .. 12 /\ c.mday <= Length(c.year, c.month)
      <4>1. c.mday # Length(c.year, c.month)
        BY <1>3, <3>1 DEF Turns
      <4>2. c.month - 1 \in 0 .. 11 /\ c.month = (c.month - 1) + 1
        BY <3>1
      <4>3. Length(c.year, c.month) \in 28 .. 31
        BY <1>1, <4>2, MonthLengths DEF Length
      <4> QED BY <1>1, <3>1, <4>1, <4>3
    <3>2. CASE ~(c.month \in 1 .. 12 /\ c.mday <= Length(c.year, c.month))
      BY <1>1, <1>3, <3>2 DEF Turns
    <3> QED BY <3>1, <3>2
  <2>2. c.mday + 1 \in 0 .. 31
    BY <1>1, <2>1
  <2>3. PICK e : e = [c EXCEPT !.mday = c.mday + 1]
    OBVIOUS
  <2>4. new = [e EXCEPT !.tick = 0]
    BY <1>3, <2>3
  <2>5. e \in Calendar /\ e.year = c.year /\ e.month = c.month /\ e.mday = c.mday + 1
    BY <2>2, <2>3, NewDay
  <2> QED BY <2>4, <2>5, NewTick
<1> QED BY <1>2, <1>3

LEMMA Days ==
  /\ FirstDay \in Century /\ LastDay \in Century /\ FirstDay \in Nat /\ LastDay \in Nat
  /\ FirstDay <= LastDay /\ DayTicks \in Nat /\ DayTicks > 1 /\ 0 \in 0 .. DayTicks - 1
BY DayAssumption DEF Century

LEMMA InitClockInv == Init => ClockInv
<1> SUFFICES ASSUME Init PROVE ClockInv
  OBVIOUS
<1>1. /\ day = FirstDay /\ tick = 0 /\ t = <<day, tick>> /\ sntp = "notify"
      /\ set = FALSE /\ turned = FALSE /\ raced = FALSE
  BY DEF Init, utc
<1>2. rtc \in Calendar
  BY Days DEF Init, Calendar
<1>3. day \in FirstDay .. LastDay /\ t[1] \in FirstDay .. LastDay /\ tick \in 0 .. DayTicks - 1
  BY <1>1, Days
<1>4. ClockTypes
  BY <1>1, <1>2, <1>3 DEF ClockTypes
<1> QED BY <1>1, <1>4 DEF ClockInv, HalfWritten, ClockRight

(* What the steps below know of the state they start in.                   *)
LEMMA Typed ==
  ASSUME ClockInv
  PROVE  /\ day \in FirstDay .. LastDay /\ tick \in 0 .. DayTicks - 1
         /\ rtc \in Calendar
         /\ rtc.year \in 0 .. 99 /\ rtc.month \in 0 .. 12 /\ rtc.mday \in 0 .. 31
         /\ rtc.tick \in 0 .. DayTicks - 1 /\ t[1] \in FirstDay .. LastDay
         /\ set \in BOOLEAN /\ turned \in BOOLEAN /\ raced \in BOOLEAN
         /\ sntp \in {"notify", "request", "recv", "date", "delay"}
BY CalendarFields DEF ClockInv, ClockTypes

(* The day that gettime tells goes up with the day of the month.           *)
LEMMA NextDay ==
  ASSUME NEW c \in Calendar, NEW e,
         e.year = c.year, e.month = c.month, e.mday = c.mday + 1
  PROVE  GetDay(e) = GetDay(c) + 1
<1>1. PICK yy, mm : yy = c.year + c.month \div 12 /\ mm = c.month % 12
  OBVIOUS
<1>2. yy \in 0 .. 100 /\ mm \in 0 .. 12
  BY <1>1, CalendarFields
<1>3. MonthStart(yy, mm) \in Int
  BY <1>2, MonthStarts
<1>4. YearStart(yy) \in Int
  BY <1>2 DEF YearStart
<1>5. /\ GetDay(c) = YearStart(yy) + MonthStart(yy, mm) + c.mday - 1
      /\ GetDay(e) = YearStart(yy) + MonthStart(yy, mm) + (c.mday + 1) - 1
  BY <1>1 DEF GetDay, Mktime
<1>6. c.mday \in Int
  BY CalendarFields
<1> QED BY <1>3, <1>4, <1>5, <1>6

(* The calendar goes on as time does, until it turns its month.            *)
LEMMA TickClockInv == ASSUME ClockInv, Tick PROVE ClockInv'
<1>1. /\ sntp = "date" => utc = t
      /\ day < LastDay \/ tick < DayTicks - 1
      /\ tick' = (tick + 1) % DayTicks
      /\ day' = IF tick = DayTicks - 1 THEN day + 1 ELSE day
      /\ sntp' = sntp /\ t' = t /\ set' = set
  BY DEF Tick
<1>2. /\ day \in Int /\ tick \in Int /\ FirstDay \in Int /\ LastDay \in Int
      /\ DayTicks \in Int /\ DayTicks > 1
      /\ day >= FirstDay /\ day <= LastDay /\ tick >= 0 /\ tick <= DayTicks - 1
  BY Typed, Days
<1>3. /\ rtc.tick \in 0 .. DayTicks - 1 /\ rtc.mday \in Int
      /\ rtc \in Calendar
  BY Typed
<1>4. day' \in FirstDay .. LastDay /\ tick' \in 0 .. DayTicks - 1
      /\ tick' = IF tick = DayTicks - 1 THEN 0 ELSE tick + 1
  <2>1. CASE tick = DayTicks - 1
    <3>1. (tick + 1) % DayTicks = 0
      BY <1>2, <2>1
    <3> QED BY <1>1, <1>2, <2>1, <3>1
  <2>2. CASE tick < DayTicks - 1
    <3>1. (tick + 1) % DayTicks = tick + 1
      BY <1>2, <2>2
    <3> QED BY <1>1, <1>2, <2>2, <3>1
  <2> QED BY <1>2, <2>1, <2>2
<1>5. ASSUME rtc' \in Calendar, turned' \in BOOLEAN, raced' \in BOOLEAN
      PROVE  ClockTypes'
  <2>1. /\ t'[1] \in FirstDay .. LastDay /\ set' \in BOOLEAN
        /\ sntp' \in {"notify", "request", "recv", "date", "delay"}
    BY <1>1, Typed
  <2> QED BY <1>4, <1>5, <2>1 DEF ClockTypes, Calendar
<1>6. CASE rtc.tick < DayTicks - 1
  <2>1. rtc' = [rtc EXCEPT !.tick = rtc.tick + 1] /\ turned' = turned /\ raced' = raced
    BY <1>6 DEF Tick
  <2>2. /\ rtc' \in Calendar /\ rtc'.year = rtc.year /\ rtc'.month = rtc.month
        /\ rtc'.mday = rtc.mday /\ rtc'.tick = rtc.tick + 1
    <3>1. rtc.tick + 1 \in 0 .. DayTicks - 1
      BY <1>2, <1>3, <1>6
    <3> QED BY <1>3, <2>1, <3>1, NewTick
  <2>3. ClockTypes' /\ GetDay(rtc') = GetDay(rtc)
    BY <1>5, <2>1, <2>2, Typed DEF GetDay
  <2>4. HalfWritten'
    <3> SUFFICES ASSUME sntp = "date", ~raced PROVE day' = t'[1] /\ rtc'.tick = tick'
      BY <1>1, <2>1 DEF HalfWritten
    <3>1. day = t[1] /\ rtc.tick = tick
      BY DEF ClockInv, HalfWritten
    <3> QED BY <1>1, <1>2, <1>4, <1>6, <2>2, <3>1
  <2>5. ClockRight'
    <3> SUFFICES ASSUME set, ~turned, sntp # "date" PROVE (gettime = utc)'
      BY <1>1, <2>1 DEF ClockRight
    <3>1. GetDay(rtc) = day /\ rtc.tick = tick
      BY DEF ClockInv, ClockRight, gettime, utc
    <3>2. GetDay(rtc') = day' /\ rtc'.tick = tick'
      BY <1>1, <1>2, <1>4, <1>6, <2>2, <2>3, <3>1
    <3> QED BY <3>2 DEF gettime, utc, GetDay
  <2> QED BY <2>3, <2>4, <2>5 DEF ClockInv
<1>7. CASE rtc.tick = DayTicks - 1
  <2>1. PICK turns \in Turns(rtc) :
          /\ rtc' = [IF turns THEN Turned(rtc) ELSE [rtc EXCEPT !.mday = @ + 1] EXCEPT !.tick = 0]
          /\ turned' = (turned \/ turns)
          /\ raced' = (raced \/ sntp = "date")
    BY <1>2, <1>7 DEF Tick
  <2>2. /\ rtc' \in Calendar /\ rtc'.tick = 0
        /\ ~turns => /\ rtc'.year = rtc.year /\ rtc'.month = rtc.month
                     /\ rtc'.mday = rtc.mday + 1
    BY <1>3, <2>1, NextDate, Days
  <2>3. turned' \in BOOLEAN /\ raced' \in BOOLEAN /\ (~turned' => ~turned /\ ~turns)
    BY <2>1
  <2>4. ClockTypes'
    BY <1>5, <2>2, <2>3
  <2>5. HalfWritten'
    BY <1>1, <2>1 DEF HalfWritten
  <2>6. ClockRight'
    <3> SUFFICES ASSUME set, ~turned', sntp # "date" PROVE (gettime = utc)'
      BY <1>1 DEF ClockRight
    <3>1. GetDay(rtc) = day /\ rtc.tick = tick
      BY <2>3 DEF ClockInv, ClockRight, gettime, utc
    <3>2. day' = day + 1 /\ tick' = 0
      BY <1>1, <1>4, <1>7, <3>1
    <3>3. GetDay(rtc') = GetDay(rtc) + 1
      BY <1>3, <2>2, <2>3, NextDay
    <3> QED BY <2>2, <3>1, <3>2, <3>3 DEF gettime, utc, GetDay
  <2> QED BY <2>4, <2>5, <2>6 DEF ClockInv
<1> QED BY <1>2, <1>3, <1>6, <1>7

(* The steps of the thread that leave the calendar alone, the network that *)
(* comes up, and a reset.                                                  *)
LEMMA QuietClockInv ==
  ASSUME ClockInv, day' = day, tick' = tick, rtc' = rtc, turned' = turned,
         \/ set' = set /\ raced' = raced /\ t' = t /\ sntp' = sntp
         \/ /\ sntp # "date" \/ ~set'
            /\ sntp' \in {"notify", "request", "recv", "delay"} /\ set' \in {FALSE, set}
            /\ raced' \in {FALSE, raced} /\ t'[1] \in {FirstDay, t[1]}
  PROVE  ClockInv'
<1>1. ClockTypes'
  <2>1. FirstDay \in FirstDay .. LastDay
    BY Days
  <2>2. /\ t'[1] \in FirstDay .. LastDay /\ raced' \in BOOLEAN /\ set' \in BOOLEAN
        /\ sntp' \in {"notify", "request", "recv", "date", "delay"}
    BY <2>1, Typed
  <2> QED BY <2>2, Typed DEF ClockTypes, Calendar
<1>2. HalfWritten'
  BY DEF ClockInv, HalfWritten
<1>3. ClockRight'
  BY DEF ClockInv, ClockRight, gettime, utc, GetDay
<1> QED BY <1>1, <1>2, <1>3 DEF ClockInv

(* An answer is processed: the clock tells UTC, or the time of the day is  *)
(* put right.                                                              *)
LEMMA AnswerClockInv == ASSUME ClockInv, Answer PROVE ClockInv'
<1>1. /\ day' = day /\ tick' = tick /\ turned' = turned /\ raced' = raced
  BY DEF Answer, Go, utc
<1>2. CASE utc # gettime
  <2>1. sntp' = "date" /\ rtc' = [rtc EXCEPT !.tick = tick] /\ t' = <<day, tick>> /\ set' = set
    BY <1>2 DEF Answer, Go, Differ, utc
  <2>3. rtc' \in Calendar /\ rtc'.tick = tick
    BY <2>1, Typed, NewTick
  <2>4. ClockTypes'
    BY <1>1, <2>1, <2>3, Typed DEF ClockTypes, Calendar
  <2> QED BY <1>1, <2>1, <2>3, <2>4 DEF ClockInv, HalfWritten, ClockRight
<1>3. CASE utc = gettime
  <2>1. sntp' = "delay" /\ rtc' = rtc /\ t' = t /\ set' = TRUE
    BY <1>3 DEF Answer, Go, Differ
  <2>2. ClockTypes'
    BY <1>1, <2>1, Typed DEF ClockTypes, Calendar
  <2>3. (gettime = utc)'
    BY <1>1, <1>3, <2>1 DEF gettime, utc, GetDay
  <2> QED BY <2>1, <2>2, <2>3 DEF ClockInv, HalfWritten, ClockRight
<1> QED BY <1>2, <1>3

(* The date is written: the day that was asked for, as mktime reads it.    *)
LEMMA SetDateClockInv == ASSUME ClockInv, SetDate PROVE ClockInv'
<1>1. /\ day' = day /\ tick' = tick /\ sntp = "date" /\ sntp' = "delay"
      /\ set' = ~raced /\ turned' = FALSE /\ raced' = FALSE /\ t' = <<FirstDay, 0>>
      /\ rtc' = WriteDate(rtc, t[1])
  BY DEF SetDate, Go, utc
<1>2. t[1] \in Century
  BY Typed, Days DEF Century
<1>3. PICK g : g = Gmtime(t[1])
  OBVIOUS
<1>4. /\ g.year \in 0 .. 99 /\ g.mon \in 0 .. 11 /\ g.mday \in 1 .. 31
      /\ Mktime(g.year, g.mon, g.mday) = t[1]
  BY <1>2, <1>3, RoundTrip
<1>5. rtc' = [rtc EXCEPT !.year = g.year, !.month = g.mon, !.mday = g.mday]
  BY <1>1, <1>3 DEF WriteDate, RtcYear, RtcMonth
<1>6. /\ rtc' \in Calendar /\ rtc'.year = g.year /\ rtc'.month = g.mon
      /\ rtc'.mday = g.mday /\ rtc'.tick = rtc.tick
  <2>1. PICK y, m, v : y = g.year /\ m = g.mon /\ v = g.mday
    OBVIOUS
  <2>2. y \in 0 .. 99 /\ m \in 0 .. 12 /\ v \in 0 .. 31
    BY <1>4, <2>1
  <2>3. rtc' = [rtc EXCEPT !.year = y, !.month = m, !.mday = v]
    BY <1>5, <2>1
  <2>4. rtc \in Calendar
    BY Typed
  <2>5. PICK c, e : c = rtc /\ e = rtc'
    OBVIOUS
  <2>6. c \in Calendar /\ e = [c EXCEPT !.year = y, !.month = m, !.mday = v]
    BY <2>3, <2>4, <2>5
  <2>7. e \in Calendar /\ e.year = y /\ e.month = m /\ e.mday = v /\ e.tick = c.tick
    <3>1. e \in Calendar
      BY <2>2, <2>6 DEF Calendar
    <3>2. e.year = y /\ e.month = m /\ e.mday = v /\ e.tick = c.tick
      BY <2>2, <2>6 DEF Calendar
    <3> QED BY <3>1, <3>2
  <2> QED BY <2>1, <2>5, <2>7
<1>7. ClockTypes'
  <2>1. t'[1] \in FirstDay .. LastDay
    BY <1>1, Days
  <2> QED BY <1>1, <1>6, <2>1, Typed DEF ClockTypes, Calendar
<1>8. ClockRight'
  <2> SUFFICES ASSUME ~raced PROVE (gettime = utc)'
    BY <1>1 DEF ClockRight
  <2>1. day = t[1] /\ rtc.tick = tick
    BY <1>1 DEF ClockInv, HalfWritten
  <2> QED BY <1>1, <1>4, <1>6, <2>1 DEF gettime, utc, GetDay
<1> QED BY <1>1, <1>7, <1>8 DEF ClockInv, HalfWritten

LEMMA ClockInduction == Spec => []ClockInv
<1>1. ASSUME ClockInv, [Next]_vars PROVE ClockInv'
  <2>1. CASE Tick
    BY <1>1, <2>1, TickClockInv
  <2>2. CASE Answer
    BY <1>1, <2>2, AnswerClockInv
  <2>3. CASE SetDate
    BY <1>1, <2>3, SetDateClockInv
  <2>4. CASE NetworkReady
    BY <1>1, <2>4, QuietClockInv DEF NetworkReady, utc
  <2>5. CASE Notified \/ Send \/ SendFails \/ NoAnswer \/ DelayOver
    BY <1>1, <2>5, QuietClockInv
       DEF Notified, Send, SendFails, NoAnswer, DelayOver, Go, calendar, utc
  <2>6. CASE Reset
    <3>1. /\ day' = day /\ tick' = tick /\ rtc' = rtc /\ turned' = turned
          /\ sntp' = "notify" /\ set' = FALSE /\ raced' = FALSE /\ t' = <<FirstDay, 0>>
      BY <2>6 DEF Reset, utc
    <3> QED BY <1>1, <3>1, QuietClockInv
  <2>7. CASE UNCHANGED vars
    BY <1>1, <2>7, QuietClockInv DEF vars, utc
  <2> QED BY <1>1, <2>1, <2>2, <2>3, <2>4, <2>5, <2>6, <2>7 DEF Next, Sntp
<1> QED BY <1>1, InitClockInv, PTL DEF Spec

(* Whatever date is written, and wherever the calendar turns from there,   *)
(* its fields stay in the ranges of the registers (rtcc.c 57 to 63).       *)
THEOREM CalendarTypes == Spec => []TypeOK
<1>1. ClockInv => TypeOK
  BY DEF ClockInv, ClockTypes, TypeOK, Calendar
<1> QED BY <1>1, ClockInduction, PTL

(* Once an answer has been processed the clock tells UTC, whatever the     *)
(* dates, until the calendar turns its month: the month that WriteUtcTime  *)
(* stores and GetUtcTime reads is the same, and mktime undoes gmtime_r     *)
(* (rtcc.c 17 to 64).                                                      *)
THEOREM RightUntilTurned == Spec => []ClockRight
<1>1. ClockInv => ClockRight
  BY DEF ClockInv
<1> QED BY <1>1, ClockInduction, PTL
=============================================================================
