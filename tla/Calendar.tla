------------------------------ MODULE Calendar ------------------------------
(***************************************************************************)
(* Calendar time (staros-libc time.rs): gmtime and mktime, by arithmetic   *)
(* alone, for dates on both sides of 1970.  A program walks through the    *)
(* days from a date it knows, and the calendar the model keeps beside it   *)
(* turns the pages one day at a time, by the rules of the Gregorian year.  *)
(***************************************************************************)
EXTENDS Integers

CONSTANTS
    Starts,   \* [days, year, month, day]: dates that are known
    SPAN,     \* days walked from each
    Steps,    \* days mktime is asked to add at once
    DAY       \* seconds in a day

VARIABLES
    days,     \* since 1 January 1970
    page,     \* the calendar's page: [year, month, day, yday]
    from,     \* the day the walk began at
    tm        \* what the last call filled in

calVars == <<days, page, from, tm>>

\* Division as the machine does it, towards zero.
Quot(a, b) == IF a >= 0 THEN a \div b ELSE -((-a) \div b)

\* Mutant: the era of a year before 0 is not rounded down.
era_of_truncated(n, len) == Quot(n, len)
era_of(n, len) == Quot(IF n >= 0 THEN n ELSE n - (len - 1), len)

\* The year starts in March, so that the leap day is its last.
days_from_civil(year, month, day) ==
    LET y == IF month <= 2 THEN year - 1 ELSE year
        era == era_of(y, 400)
        yoe == y - era * 400
        doy == (153 * ((month + 9) % 12) + 2) \div 5 + day - 1
    IN era * 146097 + yoe * 365 + yoe \div 4 - yoe \div 100 + doy - 719468

Civil(era, doe) ==
    LET yoe == (doe - doe \div 1460 + doe \div 36524 - doe \div 146096) \div 365
        doy == doe - (365 * yoe + yoe \div 4 - yoe \div 100)
        mp == (5 * doy + 2) \div 153
        m == IF mp < 10 THEN mp + 3 ELSE mp - 9
    IN [year |-> yoe + era * 400 + (IF m <= 2 THEN 1 ELSE 0), month |-> m,
        day |-> doy - (153 * mp + 2) \div 5 + 1]
civil_from_days(d) ==
    LET z == d + 719468 IN Civil(era_of(z, 146097), z - era_of(z, 146097) * 146097)

\* The broken-down time counts years from 1900 and months from 0.
Broken(d, rem, c) ==
    [sec |-> rem, mday |-> c.day, mon |-> c.month - 1, year |-> c.year - 1900,
     wday |-> (d + 4) % 7, yday |-> d - days_from_civil(c.year, 1, 1)]
tm_from_epoch(seconds) ==
    Broken(seconds \div DAY, seconds % DAY, civil_from_days(seconds \div DAY))

\* Fields out of range carry: the month into the year, the rest by addition.
epoch_from_tm(t) ==
    days_from_civil(t.year + 1900 + t.mon \div 12, (t.mon % 12) + 1, t.mday) * DAY + t.sec

gmtime(seconds) == tm_from_epoch(seconds)
\* The fields come back normalised.
mktime(t) == [seconds |-> epoch_from_tm(t), tm |-> tm_from_epoch(epoch_from_tm(t))]
-----------------------------------------------------------------------------
Leap(y) == y % 4 = 0 /\ (y % 100 # 0 \/ y % 400 = 0)
Length(y, m) == IF m = 2 THEN IF Leap(y) THEN 29 ELSE 28
                ELSE IF m \in {4, 6, 9, 11} THEN 30 ELSE 31
\* Tomorrow's page.
Turned(p) ==
    CASE p.day < Length(p.year, p.month) -> [p EXCEPT !.day = @ + 1, !.yday = @ + 1]
      [] p.month < 12 -> [p EXCEPT !.day = 1, !.month = @ + 1, !.yday = @ + 1]
      [] OTHER -> [year |-> p.year + 1, month |-> 1, day |-> 1, yday |-> 0]

CalInit ==
    \E s \in Starts :
        /\ days = s.days /\ from = s.days
        /\ page = [year |-> s.year, month |-> s.month, day |-> s.day, yday |-> s.yday]
        /\ tm = [call |-> "none"]

Tomorrow ==
    /\ days < from + SPAN
    /\ days' = days + 1 /\ page' = Turned(page) /\ tm' = [call |-> "none"]
    /\ UNCHANGED from
\* The time of day is its first or its last second.
Ask ==
    /\ tm.call = "none"
    /\ \E rem \in {0, DAY - 1} : tm' = [call |-> "gmtime", tm |-> gmtime(days * DAY + rem), rem |-> rem]
    /\ UNCHANGED <<days, page, from>>
\* Date arithmetic as C does it: days or months added to a field, and mktime.
Add ==
    /\ tm.call = "gmtime"
    /\ \E n \in Steps :
          \/ tm' = [call |-> "day", n |-> n,
                    got |-> mktime([tm.tm EXCEPT !.mday = @ + n]), rem |-> tm.rem]
          \/ tm' = [call |-> "month", n |-> n,
                    got |-> mktime([tm.tm EXCEPT !.mon = @ + 12 * n]), rem |-> tm.rem]
    /\ UNCHANGED <<days, page, from>>

CalNext == Tomorrow \/ Ask \/ Add
CalSpec == CalInit /\ [][CalNext]_calVars
-----------------------------------------------------------------------------
\* The arithmetic keeps the calendar: on every day of the walk, across leap days,
\* centuries, the year 0 and the epoch, gmtime reads the date, the weekday and the
\* day of the year that turning the pages gives; mktime adds days exactly, and
\* twelve months are the same date of the next year unless it was a leap day.
KeepsTheCalendar ==
    /\ tm.call = "gmtime" =>
          /\ tm.tm.year + 1900 = page.year /\ tm.tm.mon + 1 = page.month
          /\ tm.tm.mday = page.day /\ tm.tm.yday = page.yday /\ tm.tm.sec = tm.rem
          /\ tm.tm.wday \in 0..6 /\ (days - tm.tm.wday) % 7 = 3
    /\ tm.call = "day" =>
          /\ tm.got.seconds = (days + tm.n) * DAY + tm.rem
          /\ tm.got.tm = gmtime(tm.got.seconds)
    /\ tm.call = "month" /\ ~(page.month = 2 /\ page.day = 29) =>
          /\ tm.got.tm.mday = page.day /\ tm.got.tm.mon + 1 = page.month
          /\ tm.got.tm.year + 1900 = page.year + tm.n
=============================================================================
