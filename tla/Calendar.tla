------------------------------ MODULE Calendar ------------------------------
(***************************************************************************)
(* src/timestamp.zig, dates: the ISO 8601 parser, its day count and the    *)
(* ISO output, checked against a calendar that only knows what day follows *)
(* a day.  The state is the calendar on the wall: its date, the number of  *)
(* days since it showed 1 January 1970, and a clock.                       *)
(*                                                                         *)
(* A date string is the record of its fields.  A number of seconds is kept *)
(* as the days and the seconds of the day it consists of: TLC's integers   *)
(* end in 2038.                                                            *)
(* (Faulty_X: X with a bug, to see that the properties notice it.)         *)
(***************************************************************************)
EXTENDS Integers, Sequences

CONSTANTS LastYear,   \* the calendar ends with this year
          Clocks,     \* times of day, to the nanosecond
          Fractions,  \* decimal places of a second, as a peer may write them
          MaxU32      \* the greatest u32

EpochYear == 1970

\* What a digit in each place after the point is worth, in nanoseconds.
PlaceValue == <<100000000, 10000000, 1000000, 100000, 10000, 1000, 100, 10, 1>>

ASSUME CalendarAssumption ==
    /\ LastYear \in Nat /\ LastYear > EpochYear
    /\ MaxU32 \in Nat /\ MaxU32 > 999999999
    /\ Clocks \subseteq [hour: 0..23, minute: 0..59, second: 0..59,
                         nanoseconds: {n \in Nat : n < 1000000000}]
    /\ \A f \in Fractions : /\ f.digits \in 1..9 /\ f.value \in Nat
                            /\ f.value * PlaceValue[f.digits] < 1000000000

VARIABLES date,  \* year, month and day
          days,  \* since 1 January 1970
          clock  \* the time of day

calendarVars == <<date, days, clock>>

-----------------------------------------------------------------------------
(* The calendar on the wall.                                               *)

MonthLength(year, month) ==
    IF month = 2
    THEN IF year % (IF year % 100 = 0 THEN 400 ELSE 4) = 0 THEN 29 ELSE 28
    ELSE IF month \in {4, 6, 9, 11} THEN 30 ELSE 31

NextDate == IF date.day < MonthLength(date.year, date.month)
            THEN [date EXCEPT !.day = @ + 1]
            ELSE IF date.month < 12
                 THEN [date EXCEPT !.month = @ + 1, !.day = 1]
                 ELSE [year |-> date.year + 1, month |-> 1, day |-> 1]

CalendarInit == /\ date = [year |-> EpochYear, month |-> 1, day |-> 1]
                /\ days = 0
                /\ clock \in Clocks

Tomorrow == /\ NextDate.year <= LastYear
            /\ date' = NextDate /\ days' = days + 1
            /\ UNCHANGED clock

SetClock == clock' \in Clocks /\ UNCHANGED <<date, days>>

CalendarNext == Tomorrow \/ SetClock

CalendarSpec == CalendarInit /\ [][CalendarNext]_calendarVars

-----------------------------------------------------------------------------
(* What the code computes.                                                 *)

isLeapYear(year) == \/ year % 4 = 0 /\ year % 100 # 0
                    \/ year % 400 = 0

DaysInYear(year) == IF isLeapYear(year) THEN 366 ELSE 365

DaysBeforeYear[year \in EpochYear..LastYear + 1] ==
    IF year = EpochYear THEN 0 ELSE DaysBeforeYear[year - 1] + DaysInYear(year - 1)

days_in_month == <<31, 28, 31, 30, 31, 30, 31, 31, 30, 31, 30, 31>>

\* The table as the loop adds it up, and its extra day after February.
TableBefore[month \in 1..Len(days_in_month) + 1] ==
    IF month = 1 THEN 0 ELSE TableBefore[month - 1] + days_in_month[month - 1]

DaysBeforeMonth(year, month) ==
    TableBefore[month] + (IF month > 2 /\ isLeapYear(year) THEN 1 ELSE 0)

Faulty_OutOfRange(month, day) == month = 0 \/ month - 1 > Len(days_in_month)   \* day -% 1

\* No day of a month 0 or of a day 0, and the table ends with month 12: the
\* loop, the subtraction or the index fails a safety check, or is undefined.
OutOfRange(month, day) ==
    month = 0 \/ day = 0 \/ month - 1 > Len(days_in_month)

DateError(year, month, day) ==
    CASE year < EpochYear                            -> "InvalidDays"
      [] year >= EpochYear /\ OutOfRange(month, day) -> "illegal"
      [] OTHER                                       -> "none"

calculateDaysSinceEpoch(year, month, day) ==
    DaysBeforeYear[year] + DaysBeforeMonth(year, month) + day - 1

\* A fraction: how many digits were written, and their value.
None == [digits |-> 0, value |-> 0]

FractionFits(fraction) == fraction.value <= MaxU32

Faulty_FractionNanos(fraction) ==  \* microseconds lack a zero
    IF fraction.digits = 6 THEN fraction.value * 100
    ELSE IF fraction.digits \in 1..9 THEN fraction.value * PlaceValue[fraction.digits]
    ELSE fraction.value

\* From the tenth digit on nothing is cut off.
FractionNanos(fraction) ==
    IF fraction.digits \in 1..9 THEN fraction.value * PlaceValue[fraction.digits]
                                ELSE fraction.value

parseIso8601(s) ==
    LET error   == DateError(s.year, s.month, s.day)
        count   == calculateDaysSinceEpoch(s.year, s.month, s.day)
        seconds == s.hour * 3600 + s.minute * 60 + s.second
    IN  IF error # "none" THEN [error |-> error]
        ELSE IF ~FractionFits(s.fraction) THEN [error |-> "Overflow"]
        ELSE [days |-> count + seconds \div 86400,
              seconds |-> seconds % 86400,
              nanoseconds |-> FractionNanos(s.fraction)]

-----------------------------------------------------------------------------
(* The instant that the wall shows, and how format writes it.  The library *)
(* finds the date of a day count; here the wall knows it.                  *)

Now == [days |-> days,
        seconds |-> clock.hour * 3600 + clock.minute * 60 + clock.second,
        nanoseconds |-> clock.nanoseconds]

FormatTime(seconds) == [hour |-> seconds \div 3600,
                        minute |-> (seconds % 3600) \div 60,
                        second |-> seconds % 60]

FormatFraction(nanoseconds) ==
    IF nanoseconds > 0 THEN [digits |-> 9, value |-> nanoseconds] ELSE None

FormatIso(t) == LET time == FormatTime(t.seconds)
                IN  [year |-> date.year, month |-> date.month, day |-> date.day,
                     hour |-> time.hour, minute |-> time.minute,
                     second |-> time.second,
                     fraction |-> FormatFraction(t.nanoseconds)]

-----------------------------------------------------------------------------
(* Properties.                                                             *)

\* The time on the wall, of a date that may not exist.
OnDate(year, month, day) ==
    parseIso8601([FormatIso(Now) EXCEPT !.year = year, !.month = month, !.day = day])

\* Nothing checks that a date exists.  What two digits can say is one of two
\* things: a day too many of a month, a month 13 or an hour beyond 23 are the
\* day, month or day they run into, to the nanosecond; a day 0, a month 0 or a
\* month beyond 13 stop the parser, whatever the rest, and are never a date.
OverlongCarries ==
    /\ date.day = 1 /\ date.month > 1 =>
           LET last == MonthLength(date.year, date.month - 1) IN
           \A day \in 1..(99 - last) :
               OnDate(date.year, date.month - 1, last + day)
                   = OnDate(date.year, date.month, day)
    /\ date.month = 1 /\ date.year > EpochYear =>
           OnDate(date.year - 1, 13, date.day) = Now
    /\ parseIso8601([FormatIso(Now) EXCEPT !.hour = @ + 24])
           = [Now EXCEPT !.days = @ + 1]
    /\ date.day = 1 /\ date.month = 1 => \A month \in 0..99 :
           /\ OnDate(date.year, month, 0) = [error |-> "illegal"]
           /\ OnDate(date.year, month, date.day) = [error |-> "illegal"]
                  <=> month \notin 1..13

WithFraction(digits, value) ==
    parseIso8601([FormatIso(Now) EXCEPT !.fraction = [digits |-> digits,
                                                      value |-> value]])

\* What format writes ("iso"), parseIso8601 reads as the same instant, to the
\* nanosecond; the day count agrees with the pages turned, across the ends of
\* all months, leap days, 2000 and 2100.  A zero at the end of a fraction changes
\* nothing: each row of the switch over the number of digits fits the next.
IsoReadsBack ==
    /\ parseIso8601(FormatIso(Now)) = Now
    /\ date.day = 1 => \A f \in Fractions :
           f.digits \in 1..8 => WithFraction(f.digits + 1, 10 * f.value)
                                = WithFraction(f.digits, f.value)

=============================================================================
