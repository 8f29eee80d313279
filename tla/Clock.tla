-------------------------------- MODULE Clock --------------------------------
(***************************************************************************)
(* The time of day: the SNTP client (sntp.c), started by NetworkReadyTask  *)
(* (main.c), sets the calendar of the real-time clock (rtcc.c), which then *)
(* counts by itself and keeps counting through a reset.  WriteUtcTime      *)
(* stores tm_mon, counted from 0, as the month, and GetUtcTime reads it    *)
(* back as it is; the calendar takes it for a month counted from 1.        *)
(*                                                                         *)
(* Days are counted from 2000-01-01 and divided into DayTicks ticks, each  *)
(* longer than the five seconds of difference that sntp_process tolerates  *)
(* and than the steps of a request that has been answered; the waits of    *)
(* the thread may last any number of ticks.  The days end before the 19th  *)
(* of January 2038 (day 13898): sntp_process takes the times through long, *)
(* which is 32 bits here, and from that day on would set a wrong date.     *)
(***************************************************************************)
EXTENDS Integers, FiniteSetsExt

CONSTANTS
  FirstDay, LastDay,  \* bound: the days of a behaviour
  DayTicks,
  MaxResets           \* bound: resets of the processor

ASSUME DayAssumption ==
  /\ FirstDay \in Nat /\ LastDay \in Nat /\ FirstDay <= LastDay /\ LastDay < 13898
  /\ DayTicks \in Nat /\ DayTicks > 1 /\ MaxResets \in Nat

VARIABLES
  day, tick,   \* UTC
  rtc,         \* the calendar: year, month, day and tick of the day
  network,     \* has the network come up, and NetworkReadyTask notified?
  sntp,        \* where sntp_thread is
  t,           \* the time_t that settime was called with
  set,         \* has an answer been processed since the last reset?
  turned,      \* has the calendar gone to another month since it was set?
  raced,       \* did midnight fall between the two halves of WriteUtcTime?
  resets
utc == <<day, tick>>
vars == <<utc, rtc, network, sntp, t, set, turned, raced, resets>>

-----------------------------------------------------------------------------
(* The calendar of the years 2000 to 2099, months counted from 0.          *)
Leap(y) == y % 4 = 0
YearStart(y) == 365 * y + (y + 3) \div 4
Starts == <<0, 31, 59, 90, 120, 151, 181, 212, 243, 273, 304, 334, 365>>
MonthStart(y, m) == Starts[m + 1] + (IF Leap(y) /\ m > 1 THEN 1 ELSE 0)

(* gmtime_r: year since 2000, tm_mon, tm_mday                              *)
Gmtime(d) ==
  LET y == (4 * d) \div 1461
      yday == d - YearStart(y)
      m == Max({n \in 0 .. 11 : MonthStart(y, n) <= yday})
  IN  [year |-> y, mon |-> m, mday |-> yday - MonthStart(y, m) + 1]

(* mktime: a month or a day out of its range counts on.                    *)
Mktime(y, mon, mday) ==
  LET yy == y + mon \div 12 IN YearStart(yy) + MonthStart(yy, mon % 12) + mday - 1

(* The month that the calendar goes through holds Length days.  When it    *)
(* turns from a date that it does not have, no manual says: not before its *)
(* 28th day, and at the latest after its 31st.                             *)
Length(y, month) == MonthStart(y, month) - MonthStart(y, month - 1)
Turns(c) ==
  {turns \in BOOLEAN :
    IF c.month \in 1 .. 12 /\ c.mday <= Length(c.year, c.month)
      THEN turns <=> c.mday = Length(c.year, c.month)
      ELSE (c.mday < 28 => ~turns) /\ (c.mday >= 31 => turns)}
Turned(c) ==
  [c EXCEPT !.mday = 1, !.month = IF c.month = 12 THEN 1 ELSE c.month + 1,
            !.year = IF c.month = 12 THEN (c.year + 1) % 100 ELSE c.year]

-----------------------------------------------------------------------------
(* WriteUtcTime, GetUtcTime and gettime                                    *)
RtcMonthFromOne(d) == Gmtime(d).mon + 1
RtcMonth(d) == Gmtime(d).mon
RtcYearFrom1900(d) == Gmtime(d).year + 100
RtcYear(d) == Gmtime(d).year
WriteDate(c, d) ==
  [c EXCEPT !.year = RtcYear(d), !.month = RtcMonth(d), !.mday = Gmtime(d).mday]
GetDay(c) == Mktime(c.year, c.month, c.mday)
gettime == <<GetDay(rtc), rtc.tick>>

(* MX_RTC_Init: the first of all starts leaves Day at 0; after a reset the *)
(* calendar is left alone.                                                 *)
Init ==
  /\ day = FirstDay /\ tick = 0
  /\ rtc = [year |-> 20, month |-> 1, mday |-> 0, tick |-> 0]
  /\ network = FALSE /\ sntp = "notify" /\ t = utc
  /\ set = FALSE /\ turned = FALSE /\ raced = FALSE /\ resets = 0

(* Time goes by, and the calendar with it.  A write of the calendar is     *)
(* over before a second tick.                                              *)
Tick ==
  /\ sntp = "date" => utc = t
  /\ day < LastDay \/ tick < DayTicks - 1
  /\ tick' = (tick + 1) % DayTicks
  /\ day' = IF tick = DayTicks - 1 THEN day + 1 ELSE day
  /\ IF rtc.tick < DayTicks - 1
       THEN rtc' = [rtc EXCEPT !.tick = @ + 1] /\ UNCHANGED <<turned, raced>>
       ELSE \E turns \in Turns(rtc) :
              /\ rtc' = [IF turns THEN Turned(rtc) ELSE [rtc EXCEPT !.mday = @ + 1]
                         EXCEPT !.tick = 0]
              /\ turned' = (turned \/ turns)
              /\ raced' = (raced \/ sntp = "date")
  /\ UNCHANGED <<network, sntp, t, set, resets>>

(* NetworkReadyTask: an address and a gateway are there; every task that   *)
(* waits for them is notified, once.                                       *)
NetworkReady ==
  /\ ~network /\ network' = TRUE
  /\ UNCHANGED <<utc, rtc, sntp, t, set, turned, raced, resets>>

-----------------------------------------------------------------------------
(* sntp_thread.                                                            *)
Go(from, to) ==
  /\ sntp = from /\ sntp' = to
  /\ UNCHANGED <<utc, network, resets>>
calendar == <<rtc, t, set, turned, raced>>

Notified == network /\ Go("notify", "request") /\ UNCHANGED calendar

(* sntp_request: the name is resolved, a socket opened and bound, the      *)
(* request sent, or one of these fails; the wait that follows is the long  *)
(* one, as after an answer, when there is no socket.                       *)
Send == Go("request", "recv") /\ UNCHANGED calendar
SendFails == Go("request", "delay") /\ UNCHANGED calendar
(* No answer in nine seconds, or not one of a server.                      *)
NoAnswer == Go("recv", "delay") /\ UNCHANGED calendar

(* sntp_process: the first half of WriteUtcTime sets the time of the day,  *)
LaterThan(a, b) == a[1] > b[1] \/ (a[1] = b[1] /\ a[2] > b[2])
Differ(a, b) == a # b
Answer ==
  /\ IF Differ(utc, gettime)
       THEN Go("recv", "date") /\ rtc' = [rtc EXCEPT !.tick = tick] /\ t' = utc /\ UNCHANGED set
       ELSE Go("recv", "delay") /\ set' = TRUE /\ UNCHANGED <<rtc, t>>
  /\ UNCHANGED <<turned, raced>>
(* the second sets the date.                                               *)
SetDate ==
  /\ Go("date", "delay")
  /\ rtc' = WriteDate(rtc, t[1])
  /\ set' = ~raced /\ turned' = FALSE /\ raced' = FALSE
  /\ t' = <<FirstDay, 0>>                    \* gone with the call

(* vTaskDelay, of half a minute or half an hour                            *)
DelayOver == Go("delay", "request") /\ UNCHANGED calendar

(* The processor is reset; the calendar is not.                            *)
Reset ==
  /\ resets < MaxResets /\ resets' = resets + 1
  /\ network' = FALSE /\ sntp' = "notify" /\ set' = FALSE
  /\ raced' = FALSE /\ t' = <<FirstDay, 0>>
  /\ UNCHANGED <<utc, rtc, turned>>

Sntp == Notified \/ Send \/ SendFails \/ NoAnswer \/ Answer \/ SetDate \/ DelayOver
Next == Tick \/ NetworkReady \/ Sntp \/ Reset

(* The thread runs, the network comes up, and what is tried again and      *)
(* again is at some time done: no server or name service fails for ever.   *)
Fairness ==
  /\ WF_vars(NetworkReady) /\ WF_vars(Sntp)
  /\ SF_vars(Send) /\ SF_vars(Answer)
Spec == Init /\ [][Next]_vars /\ Fairness

-----------------------------------------------------------------------------
TypeOK ==
  /\ day \in FirstDay .. LastDay /\ tick \in 0 .. DayTicks - 1
  /\ rtc \in [year : 0 .. 99, month : 0 .. 12, mday : 0 .. 31, tick : 0 .. DayTicks - 1]
  /\ sntp \in {"notify", "request", "recv", "date", "delay"}

(* Once an answer has been processed gettime tells UTC, on every date: what *)
(* WriteUtcTime stores under the wrong name of a month GetUtcTime reads    *)
(* back, also when the calendar has counted on to a 31st that the true     *)
(* month does not have.  It holds until the calendar turns its month, and  *)
(* unless midnight fell between the two writes (rtcc.c 58 and 63).         *)
ClockRight == (set /\ ~turned /\ sntp # "date") => gettime = utc

(* Whatever put the clock wrong, a reset between the two writes included,  *)
(* a later answer puts it right again.                                     *)
RightAgain == []<>(gettime = utc)

(* stm32f7xx_ll_rtc.h:143-145, "Specifies the RTC Date Month": the clock   *)
(* that an answer has put right goes on telling UTC.                       *)
KeepsTime == (set /\ sntp # "date") => gettime = utc
==============================================================================
