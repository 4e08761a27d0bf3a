-------------------------------- MODULE Timer --------------------------------
(***************************************************************************)
(* The timer's driver, am/src/ioe/timer.c, with the device's registers.    *)
(*                                                                         *)
(* A register holds numbers below Modulus, 2^32 in the hardware; the       *)
(* lengths of a minute, an hour and a day are parameters, so that small    *)
(* registers hold days.                                                    *)
(***************************************************************************)
EXTENDS Integers

CONSTANTS
  Modulus,            \* 2^32: registers and arithmetic are modulo it
  MINUTE, HOUR, DAY,  \* seconds, minutes and hours: 60, 60 and 24 in the code
  Years, Months,      \* what callers write into a date
  Intervals,          \* and into the interval of interrupts
  MaxElapsed          \* BOUND: how long the counter runs after the start

Parameters ==
  /\ {Modulus, MINUTE, HOUR, DAY} \subseteq Nat \ {0}
  /\ Years \subseteq Nat /\ Months \subseteq Nat /\ MaxElapsed \in Nat
  /\ 0 \in Intervals /\ Intervals \subseteq 0..(Modulus - 1)

Register == 0..(Modulus - 1)
\* As many days as the clock's register holds.
Dates    == [year : Years, month : Months, day : 0..(Modulus \div (MINUTE * HOUR * DAY)),
             hour : 0..(DAY - 1), minute : 0..(HOUR - 1), second : 0..(MINUTE - 1)]

VARIABLES
  uptime, rtc, intr,  \* the registers
  time_base,
  started,
  out,                \* the last reading: of which register, and what it gave
  elapsed,            \* history: for how long the counter has run since the start
  date                \* history: what a calendar set by the last write shows

registers == <<uptime, rtc, intr>>
vars      == <<registers, time_base, started, out, elapsed, date>>

\* __am_timer_rtc_r.  Mutant: the minutes are not cut at the hour.
MinuteUncut(sec) == sec \div MINUTE
Minute(sec)      == (sec \div MINUTE) % HOUR

Calendar(sec) ==
  [second |-> sec % MINUTE, minute |-> Minute(sec),
   hour |-> (sec \div (MINUTE * HOUR)) % DAY, day |-> sec \div (MINUTE * HOUR * DAY),
   month |-> 0, year |-> 1970]

\* __am_timer_rtc_w: year and month are not used.
RtcSecs(d) ==
  d.day * MINUTE * HOUR * DAY + d.hour * MINUTE * HOUR + d.minute * MINUTE + d.second

\* Any counters: the machine may have run for a while.
Init ==
  /\ uptime \in Register /\ rtc \in Register /\ intr = 0
  /\ time_base = 0 /\ started = FALSE /\ out = <<"none", 0>>
  /\ elapsed = 0 /\ date = Calendar(rtc)

\* It reads the clock to print it.
TimerInit ==
  /\ ~started
  /\ time_base' = uptime /\ started' = TRUE
  /\ UNCHANGED <<registers, out, elapsed, date>>

\* The counter of microseconds wraps around.
Count ==
  /\ elapsed < MaxElapsed
  /\ uptime' = (uptime + 1) % Modulus
  /\ elapsed' = IF started THEN elapsed + 1 ELSE 0
  /\ UNCHANGED <<rtc, intr, time_base, started, out, date>>

\* The next second by the rules of a calendar.
NextSecond(d) ==
  LET s == d.second + 1
      m == IF s = MINUTE THEN d.minute + 1 ELSE d.minute
      h == IF m = HOUR THEN d.hour + 1 ELSE d.hour
  IN [second |-> IF s = MINUTE THEN 0 ELSE s, minute |-> IF m = HOUR THEN 0 ELSE m,
      hour |-> IF h = DAY THEN 0 ELSE h, day |-> IF h = DAY THEN d.day + 1 ELSE d.day,
      month |-> d.month, year |-> d.year]

\* The clock of seconds, until its register is full (136 years).
Second ==
  /\ rtc < Modulus - 1
  /\ rtc' = rtc + 1 /\ date' = NextSecond(date)
  /\ UNCHANGED <<uptime, intr, time_base, started, out, elapsed>>

\* The difference of two readings of a counter that wraps.  Mutant: where the later one
\* is smaller there is nothing to tell.
SinceOrNothing(t) == IF t < time_base THEN 0 ELSE t - time_base
Since(t)          == (t - time_base) % Modulus

Uptime ==
  /\ started
  /\ out' = <<"uptime", Since(uptime)>>
  /\ UNCHANGED <<registers, time_base, started, elapsed, date>>

RtcR ==
  /\ started
  /\ out' = <<"rtc", Calendar(rtc)>>
  /\ UNCHANGED <<registers, time_base, started, elapsed, date>>

RtcW ==
  /\ started
  /\ \E d \in Dates :
       /\ RtcSecs(d) \in Register
       /\ rtc' = RtcSecs(d) /\ date' = d
  /\ UNCHANGED <<uptime, intr, time_base, started, out, elapsed>>

IntrR ==
  /\ started
  /\ out' = <<"intr", intr>>
  /\ UNCHANGED <<registers, time_base, started, elapsed, date>>

IntrW ==
  /\ started
  /\ intr' \in Intervals
  /\ UNCHANGED <<uptime, rtc, time_base, started, out, elapsed, date>>

Next == TimerInit \/ Count \/ Second \/ Uptime \/ RtcR \/ RtcW \/ IntrR \/ IntrW

Spec == Init /\ [][Next]_vars

-----------------------------------------------------------------------------
(* Properties.                                                               *)

\* uptime tells how long ago the timer was started, wherever the counter was then and
\* across its wrapping around, as far as a register can tell (timer.c:17-25).
UptimeRight == [][Uptime => out'[2] = elapsed % Modulus]_vars

SameTime(d, e) ==
  d.day = e.day /\ d.hour = e.hour /\ d.minute = e.minute /\ d.second = e.second

\* The clock read is the calendar set by the last write and moved on by one second at a
\* time: through the ends of minutes, hours and days (timer.c:35-49).
RtcKeepsTime == [][RtcR => SameTime(out'[2], date)]_vars
=============================================================================
