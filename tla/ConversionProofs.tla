-------------------------- MODULE ConversionProofs --------------------------
(***************************************************************************)
(* The conversions of the bot, for all timestamps, calendars, characters   *)
(* and messages.  Each part has its own inductive invariant: a timestamp   *)
(* knows what it was and what is underway to be read; a date exists and is *)
(* the day that the code counts; the bytes of a text are its characters,   *)
(* one after the other; what was not lent to a chain opened earlier points *)
(* into the arena of its chain or of one that is closed later; a copied    *)
(* text has the digits of its UUID, in their order.                        *)
(***************************************************************************)
EXTENDS Timestamp, Calendar, Commands, MessageChain, Uuid, Induction, SequenceTheorems

-----------------------------------------------------------------------------
(* Timestamps.                                                             *)

Units == {1, 1000, 1000000, 1000000000}

\* The seconds have exactly ten digits.
TenDigitSeconds(t) == /\ TenDigits \div 10 <= t.unix_seconds
                      /\ t.unix_seconds < TenDigits

TimestampIInv ==
        /\ origin \in Timestamps /\ TenDigitSeconds(origin)
        /\ coarse \in Units
        /\ wire = Nothing => ts = Truncated(origin, coarse)
        /\ wire # Nothing => ReadAs(wire) = Truncated(origin, coarse)

-----------------------------------------------------------------------------

\* Cutting to a unit leaves the seconds and makes a timestamp.
LEMMA TruncatedType ==
    ASSUME NEW t \in Timestamps, NEW unit \in Units
    PROVE  /\ Truncated(t, unit) \in Timestamps
           /\ Truncated(t, unit).unix_seconds = t.unix_seconds
           /\ Truncated(t, unit).nanoseconds
                  = t.nanoseconds - (t.nanoseconds % unit)
<1>1. t.nanoseconds \in Nat /\ t.nanoseconds < 1000000000 /\ t.unix_seconds \in Nat
  BY SMT DEF Timestamps
<1>2. t.nanoseconds - (t.nanoseconds % unit) \in {n \in Nat : n < 1000000000}
  <2>1. CASE unit = 1 BY SMT, <1>1, <2>1
  <2>2. CASE unit = 1000 BY SMT, <1>1, <2>2
  <2>3. CASE unit = 1000000 BY SMT, <1>1, <2>3
  <2>4. CASE unit = 1000000000 BY SMT, <1>1, <2>4
  <2>5. QED BY SMT, <2>1, <2>2, <2>3, <2>4 DEF Units
<1>3. QED BY SMT, <1>2 DEF Truncated, Timestamps

\* The coarser of two units decides.
LEMMA TruncatedTwice ==
    ASSUME NEW t \in Timestamps, NEW a \in Units, NEW b \in Units
    PROVE  Truncated(Truncated(t, a), b)
               = Truncated(t, IF b > a THEN b ELSE a)
<1> DEFINE n == t.nanoseconds
           m == IF b > a THEN b ELSE a
<1>1. n \in Nat /\ n < 1000000000
  BY SMT DEF Timestamps
<1>2. (n - (n % a)) - ((n - (n % a)) % b) = n - (n % m)
  <2> USE <1>1
  <2>1. CASE a = 1
    <3>1. CASE b = 1 BY SMT, <2>1, <3>1
    <3>2. CASE b = 1000 BY SMT, <2>1, <3>2
    <3>3. CASE b = 1000000 BY SMT, <2>1, <3>3
    <3>4. CASE b = 1000000000 BY SMT, <2>1, <3>4
    <3>5. QED BY SMT, <3>1, <3>2, <3>3, <3>4 DEF Units
  <2>2. CASE a = 1000
    <3>1. CASE b = 1 \/ b = 1000 BY SMT, <2>2, <3>1
    <3>2. CASE b = 1000000 BY SMT, <2>2, <3>2
    <3>3. CASE b = 1000000000 BY SMT, <2>2, <3>3
    <3>4. QED BY SMT, <3>1, <3>2, <3>3 DEF Units
  <2>3. CASE a = 1000000
    <3>1. CASE b = 1 BY SMT, <2>3, <3>1
    <3>2. CASE b = 1000 BY SMT, <2>3, <3>2
    <3>3. CASE b = 1000000 BY SMT, <2>3, <3>3
    <3>4. CASE b = 1000000000 BY SMT, <2>3, <3>4
    <3>5. QED BY SMT, <3>1, <3>2, <3>3, <3>4 DEF Units
  <2>4. CASE a = 1000000000 BY SMT, <2>4 DEF Units
  <2>5. QED BY SMT, <2>1, <2>2, <2>3, <2>4 DEF Units
<1>3. QED BY SMT, <1>2, TruncatedType DEF Truncated, Timestamps

\* Seconds, milliseconds and microseconds, as an integer, a string of digits or
\* a date, are read as what was written.
LEMMA SecondsBack ==
    ASSUME NEW t \in Timestamps, TenDigitSeconds(t)
    PROVE  /\ fromUnixSeconds(t.unix_seconds) = Truncated(t, 1000000000)
           /\ parseFromString(t.unix_seconds) = Truncated(t, 1000000000)
<1>1. t.nanoseconds \in Nat /\ t.nanoseconds < 1000000000
  BY SMT DEF Timestamps
<1>2. t.nanoseconds - (t.nanoseconds % 1000000000) = 0
  BY SMT, <1>1
<1>3. QED BY SMT, <1>2 DEF fromUnixSeconds, parseFromString, Truncated,
                           TenDigitSeconds

LEMMA MillisBack ==
    ASSUME NEW t \in Timestamps
    PROVE  fromUnixMillis(toMillis(t)) = Truncated(t, 1000000)
<1> DEFINE s == t.unix_seconds
           n == t.nanoseconds
<1>1. s \in Nat /\ n \in Nat /\ n < 1000000000
  BY SMT DEF Timestamps
<1> HIDE DEF s, n
<1>2. (s * 1000 + n \div 1000000) \div 1000 = s
  BY SMT, <1>1
<1>3. ((s * 1000 + n \div 1000000) % 1000) * 1000000 = n - (n % 1000000)
  BY SMT, <1>1
<1>4. QED BY SMT, <1>2, <1>3 DEF fromUnixMillis, toMillis, Truncated, s, n

LEMMA MicrosBack ==
    ASSUME NEW t \in Timestamps
    PROVE  fromUnixMicros(toMicros(t)) = Truncated(t, 1000)
<1> DEFINE s == t.unix_seconds
           n == t.nanoseconds
<1>1. s \in Nat /\ n \in Nat /\ n < 1000000000
  BY SMT DEF Timestamps
<1> HIDE DEF s, n
<1>2. (s * 1000000 + n \div 1000) \div 1000000 = s
  BY SMT, <1>1
<1>3. ((s * 1000000 + n \div 1000) % 1000000) * 1000 = n - (n % 1000)
  BY SMT, <1>1
<1>4. QED BY SMT, <1>2, <1>3 DEF fromUnixMicros, toMicros, Truncated, s, n

\* The length of the string tells which of the two it is.
LEMMA LengthTells ==
    ASSUME NEW t \in Timestamps, TenDigitSeconds(t)
    PROVE  /\ parseFromString(toMillis(t)) = fromUnixMillis(toMillis(t))
           /\ parseFromString(toMicros(t)) = fromUnixMicros(toMicros(t))
<1> DEFINE s == t.unix_seconds
           n == t.nanoseconds
<1>1. s \in Nat /\ n \in Nat /\ n < 1000000000
  BY SMT DEF Timestamps
<1>2. TenDigits \in Nat /\ TenDigits % 10 = 0
  BY TimestampAssumption DEF TimestampAssumption
<1>3. TenDigits \div 10 <= s /\ s < TenDigits
  BY DEF TenDigitSeconds
<1> HIDE DEF s, n
<1>4. 100 * TenDigits <= s * 1000 /\ s * 1000 + 1000 <= 1000 * TenDigits
  BY SMT, <1>1, <1>2, <1>3
<1>5. n \div 1000000 \in Nat /\ n \div 1000000 < 1000
  BY SMT, <1>1
<1>6. n \div 1000 \in Nat /\ n \div 1000 < 1000000
  BY SMT, <1>1
<1>7. /\ 100 * TenDigits <= toMillis(t) /\ toMillis(t) < 1000 * TenDigits
      /\ toMillis(t) \in Nat
  BY SMT, <1>1, <1>2, <1>4, <1>5 DEF toMillis, s, n
<1>8. /\ 100000 * TenDigits <= toMicros(t)
      /\ toMicros(t) < 1000000 * TenDigits
      /\ toMicros(t) \in Nat
  BY SMT, <1>1, <1>2, <1>4, <1>6 DEF toMicros, s, n
<1> HIDE DEF toMillis, toMicros
<1>9. TenDigits > 0
  BY SMT, <1>1, <1>2, <1>3
<1>10. parseFromString(toMillis(t)) = fromUnixMillis(toMillis(t))
  BY SMT, <1>2, <1>7, <1>9 DEF parseFromString
<1>11. parseFromString(toMicros(t)) = fromUnixMicros(toMicros(t))
  BY SMT, <1>2, <1>8, <1>9 DEF parseFromString
<1>12. QED BY <1>10, <1>11

-----------------------------------------------------------------------------

\* Whatever is written of the timestamp last read, reading it cuts that
\* timestamp to the unit used, so the original to the coarser one.
LEMMA StillToRead ==
    ASSUME TimestampIInv, wire = Nothing,
           NEW form, NEW value, NEW unit \in Units,
           Write(form, value, unit), form # "none",
           ReadAs([form |-> form, value |-> value]) = Truncated(ts, unit)
    PROVE  TimestampIInv'
<1>1. /\ wire' = [form |-> form, value |-> value]
      /\ coarse' = IF unit > coarse THEN unit ELSE coarse
      /\ origin' = origin /\ ts' = ts
  BY DEF Write
<1>2. wire'.form = form
  BY <1>1
<1>3. wire' # Nothing
  BY <1>2 DEF Nothing
<1>4. origin \in Timestamps /\ coarse \in Units
  BY DEF TimestampIInv
<1>5. coarse' \in Units
  BY <1>1, <1>4
<1>6. ts = Truncated(origin, coarse)
  BY DEF TimestampIInv
<1>7. Truncated(ts, unit) = Truncated(origin, coarse')
  BY <1>1, <1>4, <1>6, TruncatedTwice
<1>8. ReadAs(wire)' = Truncated(origin, coarse)'
  BY <1>1, <1>7 DEF ReadAs, Truncated, fromUnixSeconds, fromUnixMillis,
                    fromUnixMicros, parseFromString
<1>9. QED
  BY <1>1, <1>3, <1>4, <1>5, <1>8 DEF TimestampIInv, TenDigitSeconds

THEOREM TimestampInvariance == TimestampSpec => []TimestampIInv
<1>1. TimestampInit => TimestampIInv
  <2> SUFFICES ASSUME TimestampInit PROVE TimestampIInv
    OBVIOUS
  <2>1. origin \in Timestamps /\ TenDigitSeconds(origin)
    BY TimestampAssumption DEF TimestampInit, TimestampAssumption, TenDigitSeconds
  <2>2. Truncated(origin, 1) = origin
    <3>1. origin.nanoseconds \in Nat
      BY SMT, <2>1 DEF Timestamps
    <3>2. origin.nanoseconds - (origin.nanoseconds % 1) = origin.nanoseconds
      BY SMT, <3>1
    <3>3. QED BY SMT, <2>1, <3>2 DEF Truncated, Timestamps
  <2>3. QED BY SMT, <2>1, <2>2 DEF TimestampInit, TimestampIInv, Units
<1>2. TimestampIInv /\ [TimestampNext]_timestampVars => TimestampIInv'
  <2> SUFFICES ASSUME TimestampIInv, [TimestampNext]_timestampVars PROVE TimestampIInv'
    OBVIOUS
  <2>1. /\ origin \in Timestamps /\ TenDigitSeconds(origin)
        /\ coarse \in Units
    BY DEF TimestampIInv
  <2>2. ASSUME wire = Nothing
        PROVE  ts \in Timestamps /\ TenDigitSeconds(ts)
    BY <2>1, <2>2, TruncatedType DEF TimestampIInv, TenDigitSeconds
  <2>3. 1000 \in Units /\ 1000000 \in Units /\ 1000000000 \in Units
    BY SMT DEF Units
  <2>4. ASSUME NEW form \in {"integer", "string"},
               Write(form, ts.unix_seconds, 1000000000)
        PROVE  TimestampIInv'
    <3>1. wire = Nothing BY <2>4 DEF Write
    <3>2. ReadAs([form |-> form, value |-> ts.unix_seconds])
              = Truncated(ts, 1000000000)
      BY <2>2, <3>1, SecondsBack DEF ReadAs
    <3>3. QED BY <2>3, <2>4, <3>1, <3>2, StillToRead
  <2>5. CASE PrintMillis
    <3>1. wire = Nothing BY <2>5 DEF PrintMillis, Write
    <3>2. ReadAs([form |-> "string", value |-> toMillis(ts)])
              = Truncated(ts, 1000000)
      BY <2>2, <3>1, MillisBack, LengthTells DEF ReadAs
    <3>3. QED BY <2>3, <2>5, <3>1, <3>2, StillToRead DEF PrintMillis
  <2>6. CASE PrintMicros
    <3>1. wire = Nothing BY <2>6 DEF PrintMicros, Write
    <3>2. ReadAs([form |-> "string", value |-> toMicros(ts)])
              = Truncated(ts, 1000)
      BY <2>2, <3>1, MicrosBack, LengthTells DEF ReadAs
    <3>3. QED BY <2>3, <2>6, <3>1, <3>2, StillToRead DEF PrintMicros
  <2>7. CASE StoreDate
    <3>1. wire = Nothing BY <2>7 DEF StoreDate, Write
    <3>2. ReadAs([form |-> "date", value |-> toMillis(ts)])
              = Truncated(ts, 1000000)
      BY <2>2, <3>1, MillisBack DEF ReadAs
    <3>3. QED BY <2>3, <2>7, <3>1, <3>2, StillToRead DEF StoreDate
  <2>8. CASE Read
    BY <2>8 DEF Read, TimestampIInv, Truncated, TenDigitSeconds, Nothing
  <2>9. CASE UNCHANGED timestampVars
    BY <2>9 DEF timestampVars, TimestampIInv, Truncated, TenDigitSeconds, ReadAs,
                fromUnixSeconds, fromUnixMillis, fromUnixMicros,
                parseFromString
  <2>10. QED
    BY <2>4, <2>5, <2>6, <2>7, <2>8, <2>9 DEF TimestampNext, PrintUnix
<1>3. QED BY <1>1, <1>2, PTL DEF TimestampSpec

\* No conversion, in any order and any number, moves a timestamp: it is cut to
\* the coarsest unit it was written in, and nothing else happens to it.
THEOREM NeverDrifts == TimestampSpec => []NoDrift
<1>1. TimestampIInv => NoDrift
  BY DEF TimestampIInv, NoDrift
<1>2. QED BY <1>1, TimestampInvariance, PTL

-----------------------------------------------------------------------------
(* Dates.                                                                  *)

(* The date exists, and the days counted are those the code computes.      *)
CalendarIInv ==
    /\ date \in [year: EpochYear..LastYear, month: 1..12, day: 1..31]
    /\ date.day <= MonthLength(date.year, date.month)
    /\ days = calculateDaysSinceEpoch(date.year, date.month, date.day)
    /\ clock \in Clocks

\* The two leap years: the calendar's and the code's.
LEMMA LeapYears ==
    ASSUME NEW year \in Nat
    PROVE  MonthLength(year, 2) = IF isLeapYear(year) THEN 29 ELSE 28
<1>1. year % 400 = 0 => year % 100 = 0
  OBVIOUS
<1>2. year % 100 = 0 => year % 4 = 0
  OBVIOUS
<1> QED BY <1>1, <1>2 DEF MonthLength, isLeapYear

\* The table agrees with the calendar.
LEMMA Months ==
    ASSUME NEW year \in Nat, NEW month \in 1..12
    PROVE  MonthLength(year, month) = days_in_month[month]
                + (IF month = 2 /\ isLeapYear(year) THEN 1 ELSE 0)
<1>1. CASE month = 2
  BY <1>1, LeapYears DEF days_in_month
<1>2. CASE month # 2
  BY <1>2 DEF MonthLength, days_in_month
<1> QED BY <1>1, <1>2

\* What the loop over the years adds up to.
LEMMA YearsBefore ==
    /\ \A year \in EpochYear..LastYear + 1 : DaysBeforeYear[year] \in Int
    /\ DaysBeforeYear[EpochYear] = 0
    /\ \A year \in EpochYear..LastYear :
           DaysBeforeYear[year + 1] = DaysBeforeYear[year] + DaysInYear(year)
<1> DEFINE last == LastYear + 1
           lengths == [year \in EpochYear..last - 1 |-> DaysInYear(year)]
           IsRun(f) == f = [year \in EpochYear..last |->
                               IF year = EpochYear THEN 0 ELSE f[year - 1] + DaysInYear(year - 1)]
<1>1. EpochYear \in Nat /\ last \in Nat /\ EpochYear <= last /\ last - 1 = LastYear
  BY CalendarAssumption DEF EpochYear
<1>2. lengths \in [EpochYear..last - 1 -> Int]
  BY DEF DaysInYear
<1>3. \A year \in EpochYear..last - 1 : lengths[year] = DaysInYear(year)
  OBVIOUS
<1> HIDE DEF last, lengths
<1>4. PICK f \in [EpochYear..last -> Int] :
          /\ f[EpochYear] = 0
          /\ \A year \in EpochYear..last - 1 : f[year + 1] = f[year] + lengths[year]
  BY <1>1, <1>2, SumRuns
<1>5. IsRun(f)
  <2> SUFFICES ASSUME NEW year \in EpochYear..last, year # EpochYear
               PROVE  f[year] = f[year - 1] + DaysInYear(year - 1)
    BY <1>4
  <2>1. year - 1 \in EpochYear..last - 1 /\ (year - 1) + 1 = year
    BY <1>1
  <2> QED BY <1>3, <1>4, <2>1
<1>6. IsRun(DaysBeforeYear)
  <2>1. DaysBeforeYear = CHOOSE g : IsRun(g)
    BY DEF DaysBeforeYear, last
  <2> HIDE DEF IsRun
  <2> QED BY <1>5, <2>1
<1>7. DaysBeforeYear[EpochYear] = 0
  BY <1>1, <1>6
<1>8. ASSUME NEW year \in EpochYear..last - 1
      PROVE  DaysBeforeYear[year + 1] = DaysBeforeYear[year] + lengths[year]
  <2>1. year + 1 \in EpochYear..last /\ year + 1 # EpochYear /\ (year + 1) - 1 = year
    BY <1>1
  <2>2. DaysBeforeYear[year + 1] = DaysBeforeYear[(year + 1) - 1] + DaysInYear((year + 1) - 1)
    BY <1>6, <2>1
  <2> QED BY <1>3, <2>1, <2>2
<1>9. \A year \in EpochYear..last : DaysBeforeYear[year] \in Int
  BY <1>1, <1>2, <1>7, <1>8, SumIs
<1> QED BY <1>1, <1>3, <1>7, <1>8, <1>9 DEF last

\* What the loop over the months adds up to.
LEMMA MonthsBefore ==
    /\ \A month \in 1..13 : TableBefore[month] \in Int
    /\ TableBefore[1] = 0
    /\ \A month \in 1..12 : TableBefore[month + 1] = TableBefore[month] + days_in_month[month]
<1> DEFINE last == Len(days_in_month) + 1
           IsRun(f) == f = [month \in 1..last |->
                               IF month = 1 THEN 0 ELSE f[month - 1] + days_in_month[month - 1]]
<1>1. last = 13 /\ days_in_month \in [1..12 -> Int]
  BY DEF days_in_month
<1> HIDE DEF last
<1>2. last \in Nat /\ 1 \in Nat /\ 1 <= last /\ last - 1 = 12
  BY <1>1
<1>3. days_in_month \in [1..last - 1 -> Int]
  BY <1>1, <1>2
<1>4. PICK f \in [1..last -> Int] :
          f[1] = 0 /\ \A month \in 1..last - 1 : f[month + 1] = f[month] + days_in_month[month]
  BY <1>2, <1>3, SumRuns
<1>5. IsRun(f)
  <2> SUFFICES ASSUME NEW month \in 1..last, month # 1
               PROVE  f[month] = f[month - 1] + days_in_month[month - 1]
    BY <1>4
  <2>1. month - 1 \in 1..last - 1 /\ (month - 1) + 1 = month
    BY <1>2
  <2> QED BY <1>4, <2>1
<1>6. IsRun(TableBefore)
  <2>1. TableBefore = CHOOSE g : IsRun(g)
    BY DEF TableBefore, last
  <2> HIDE DEF IsRun
  <2> QED BY <1>5, <2>1
<1>7. TableBefore[1] = 0
  BY <1>2, <1>6
<1>8. ASSUME NEW month \in 1..last - 1
      PROVE  TableBefore[month + 1] = TableBefore[month] + days_in_month[month]
  <2>1. month + 1 \in 1..last /\ month + 1 # 1 /\ (month + 1) - 1 = month
    BY <1>2
  <2>2. TableBefore[month + 1] = TableBefore[(month + 1) - 1] + days_in_month[(month + 1) - 1]
    BY <1>6, <2>1
  <2> QED BY <2>1, <2>2
<1>9. \A month \in 1..last : TableBefore[month] \in Int
  BY <1>2, <1>3, <1>7, <1>8, SumIs
<1> QED BY <1>1, <1>2, <1>7, <1>8, <1>9

LEMMA NextMonth ==
    ASSUME NEW year \in Nat, NEW month \in 1..12
    PROVE  DaysBeforeMonth(year, month + 1) = DaysBeforeMonth(year, month) + MonthLength(year, month)
<1>1. TableBefore[month] \in Int /\ days_in_month[month] \in Int
  BY MonthsBefore DEF days_in_month
<1>2. TableBefore[month + 1] = TableBefore[month] + days_in_month[month]
  BY MonthsBefore
<1>3. MonthLength(year, month) = days_in_month[month]
            + (IF month = 2 /\ isLeapYear(year) THEN 1 ELSE 0)
  BY Months
<1>4. (IF month + 1 > 2 /\ isLeapYear(year) THEN 1 ELSE 0)
          = (IF month > 2 /\ isLeapYear(year) THEN 1 ELSE 0)
                + (IF month = 2 /\ isLeapYear(year) THEN 1 ELSE 0)
  OBVIOUS
<1> QED BY <1>1, <1>2, <1>3, <1>4 DEF DaysBeforeMonth

\* A month 13 of a year begins with the next year.
LEMMA WholeYear ==
    ASSUME NEW year \in Nat
    PROVE  DaysBeforeMonth(year, 1) = 0 /\ DaysBeforeMonth(year, 13) = DaysInYear(year)
<1>1. \A month \in 1..12 : TableBefore[month + 1] = TableBefore[month] + days_in_month[month]
  BY MonthsBefore
<1>2. TableBefore[1] = 0
  BY MonthsBefore
<1>3. TableBefore[2] = 31 /\ TableBefore[3] = 59 /\ TableBefore[4] = 90
  BY <1>1, <1>2 DEF days_in_month
<1>4. TableBefore[5] = 120 /\ TableBefore[6] = 151 /\ TableBefore[7] = 181
  BY <1>1, <1>3 DEF days_in_month
<1>5. TableBefore[8] = 212 /\ TableBefore[9] = 243 /\ TableBefore[10] = 273
  BY <1>1, <1>4 DEF days_in_month
<1>6. TableBefore[11] = 304 /\ TableBefore[12] = 334 /\ TableBefore[13] = 365
  BY <1>1, <1>5 DEF days_in_month
<1> QED BY <1>2, <1>6 DEF DaysBeforeMonth, DaysInYear

\* The calendar's dates: how long a month is, and where the code's count is defined.
LEMMA MonthBounds ==
    ASSUME NEW year \in Nat, NEW month \in 1..12
    PROVE  MonthLength(year, month) \in 28..31 /\ MonthLength(year, 12) = 31
  BY DEF MonthLength

LEMMA CountIsInt ==
    ASSUME NEW year \in EpochYear..LastYear + 1, NEW month \in 1..13
    PROVE  DaysBeforeYear[year] \in Int /\ DaysBeforeMonth(year, month) \in Int
  BY YearsBefore, MonthsBefore DEF DaysBeforeMonth

LEMMA CalendarStarts == CalendarInit => CalendarIInv
<1> SUFFICES ASSUME CalendarInit PROVE CalendarIInv
  OBVIOUS
<1>1. EpochYear \in EpochYear..LastYear /\ EpochYear \in Nat /\ LastYear \in Nat
  BY CalendarAssumption DEF EpochYear
<1>2. date = [year |-> EpochYear, month |-> 1, day |-> 1] /\ days = 0 /\ clock \in Clocks
  BY DEF CalendarInit
<1>3. calculateDaysSinceEpoch(EpochYear, 1, 1) = 0
  BY <1>1, YearsBefore, WholeYear DEF calculateDaysSinceEpoch
<1>4. 1 <= MonthLength(EpochYear, 1)
  BY <1>1, MonthBounds
<1>5. date \in [year: EpochYear..LastYear, month: 1..12, day: 1..31]
  BY <1>1, <1>2
<1> QED BY <1>2, <1>3, <1>4, <1>5 DEF CalendarIInv

LEMMA TomorrowCounts ==
    ASSUME CalendarIInv, Tomorrow
    PROVE  CalendarIInv'
<1> DEFINE year == date.year
           month == date.month
           day == date.day
<1>1. /\ year \in EpochYear..LastYear /\ month \in 1..12 /\ day \in 1..31
      /\ day <= MonthLength(year, month) /\ clock' \in Clocks
      /\ date = [year |-> year, month |-> month, day |-> day]
      /\ days = DaysBeforeYear[year] + DaysBeforeMonth(year, month) + day - 1
      /\ date' = NextDate /\ days' = days + 1 /\ NextDate.year <= LastYear
  BY DEF CalendarIInv, Tomorrow, calculateDaysSinceEpoch
<1>2. LastYear \in Nat /\ EpochYear = 1970 /\ year \in Nat /\ year \in EpochYear..LastYear + 1
  <2>1. LastYear \in Nat
    BY CalendarAssumption
  <2> QED BY <1>1, <2>1 DEF EpochYear
<1>3. DaysBeforeYear[year] \in Int /\ DaysBeforeMonth(year, month) \in Int
  BY <1>1, <1>2, CountIsInt
<1>4. MonthLength(year, month) \in 28..31
  BY <1>1, <1>2, MonthBounds
<1> HIDE DEF year, month, day
<1>5. CASE day < MonthLength(year, month)
  <2>1. date' = [year |-> year, month |-> month, day |-> day + 1]
    BY SMT, <1>1, <1>5 DEF NextDate, year, month, day
  <2> QED BY <1>1, <1>2, <1>3, <1>4, <1>5, <2>1 DEF CalendarIInv, calculateDaysSinceEpoch
<1>6. CASE day = MonthLength(year, month) /\ month < 12
  <2>1. date' = [year |-> year, month |-> month + 1, day |-> 1]
    <3>1. date' = [date EXCEPT !.month = @ + 1, !.day = 1]
      BY <1>1, <1>4, <1>6 DEF NextDate, year, month, day
    <3>2. [date EXCEPT !.month = @ + 1] = [year |-> year, month |-> month + 1, day |-> day]
      BY <1>1
    <3>3. [date EXCEPT !.month = @ + 1, !.day = 1] = [[date EXCEPT !.month = @ + 1] EXCEPT !.day = 1]
      BY <1>1
    <3> QED BY <3>1, <3>2, <3>3
  <2>2. DaysBeforeMonth(year, month + 1) = DaysBeforeMonth(year, month) + day
    BY <1>1, <1>2, <1>6, NextMonth
  <2>3. 1 <= MonthLength(year, month + 1)
    BY <1>1, <1>2, <1>6, MonthBounds
  <2> QED BY <1>1, <1>2, <1>3, <1>6, <2>1, <2>2, <2>3 DEF CalendarIInv, calculateDaysSinceEpoch
<1>7. CASE day = MonthLength(year, month) /\ month = 12
  <2>1. date' = [year |-> year + 1, month |-> 1, day |-> 1] /\ year + 1 <= LastYear
    BY SMT, <1>1, <1>7 DEF NextDate, year, month, day
  <2>2. DaysBeforeMonth(year, 12) + day = DaysInYear(year)
    BY <1>2, <1>7, NextMonth, WholeYear
  <2>3. DaysBeforeYear[year + 1] = DaysBeforeYear[year] + DaysInYear(year)
    BY <1>1, YearsBefore
  <2>4. DaysBeforeMonth(year + 1, 1) = 0 /\ 1 <= MonthLength(year + 1, 1)
    BY <1>2, WholeYear, MonthBounds
  <2> QED BY <1>1, <1>2, <1>3, <1>7, <2>1, <2>2, <2>3, <2>4 DEF CalendarIInv, calculateDaysSinceEpoch
<1> QED BY <1>1, <1>4, <1>5, <1>6, <1>7

(* Every page of the calendar on the wall shows an existing date, and the  *)
(* number of pages turned is what calculateDaysSinceEpoch says.            *)
THEOREM CalendarInvariance == CalendarSpec => []CalendarIInv
<1>1. CalendarIInv /\ [CalendarNext]_calendarVars => CalendarIInv'
  <2> SUFFICES ASSUME CalendarIInv, [CalendarNext]_calendarVars PROVE CalendarIInv'
    OBVIOUS
  <2>1. CASE Tomorrow
    BY <2>1, TomorrowCounts
  <2>2. CASE SetClock
    BY <2>2 DEF SetClock, CalendarIInv
  <2>3. CASE UNCHANGED calendarVars
    BY <2>3 DEF calendarVars, CalendarIInv
  <2> QED BY <2>1, <2>2, <2>3 DEF CalendarNext
<1> QED BY <1>1, CalendarStarts, PTL DEF CalendarSpec

\* A time of day is read from its seconds, the hour one day later, too.
SecondsOf(hour, minute, second) == hour * 3600 + minute * 60 + second

ReadsTime(hour, minute, second, seconds) ==
    /\ FormatTime(seconds) = [hour |-> hour, minute |-> minute, second |-> second]
    /\ seconds \in Int /\ seconds \div 86400 = 0 /\ seconds % 86400 = seconds
    /\ (seconds + 86400) \div 86400 = 1 /\ (seconds + 86400) % 86400 = seconds
    /\ SecondsOf(hour + 24, minute, second) = seconds + 86400

LEMMA TimeOfDay ==
    ASSUME NEW hour \in 0..23, NEW minute \in 0..59, NEW second \in 0..59
    PROVE  ReadsTime(hour, minute, second, SecondsOf(hour, minute, second))
<1> DEFINE seconds == SecondsOf(hour, minute, second)
           rest == minute * 60 + second
<1>1. /\ hour \in Int /\ 0 <= hour /\ hour <= 23
      /\ minute \in Int /\ 0 <= minute /\ minute <= 59
      /\ second \in Int /\ 0 <= second /\ second <= 59
  OBVIOUS
<1>2. rest \in Int /\ 0 <= rest /\ rest < 3600 /\ rest = minute * 60 + second
  BY <1>1
<1>3. rest \div 60 = minute /\ rest % 60 = second
  BY <1>1, <1>2
<1>4. seconds = hour * 3600 + rest
  BY <1>1 DEF SecondsOf
<1>5. seconds % 60 = second
  BY <1>1 DEF SecondsOf
<1> HIDE DEF rest
<1>6. seconds \in Int /\ 0 <= seconds /\ seconds < 86400
  BY <1>1, <1>2, <1>4
<1>7. seconds \div 3600 = hour /\ seconds % 3600 = rest
  BY <1>1, <1>2, <1>4
<1>8. SecondsOf(hour + 24, minute, second) = seconds + 86400
  BY <1>1 DEF SecondsOf
<1> HIDE DEF seconds
<1>9. /\ seconds \div 86400 = 0 /\ seconds % 86400 = seconds
      /\ (seconds + 86400) \div 86400 = 1 /\ (seconds + 86400) % 86400 = seconds
  BY <1>6
<1>10. FormatTime(seconds) = [hour |-> hour, minute |-> minute, second |-> second]
  BY <1>3, <1>5, <1>7 DEF FormatTime
<1> QED BY <1>6, <1>8, <1>9, <1>10 DEF seconds, ReadsTime

\* Nine digits are nanoseconds.
LEMMA FractionOfFormat ==
    ASSUME NEW n \in Nat, n < 1000000000
    PROVE  FractionFits(FormatFraction(n)) /\ FractionNanos(FormatFraction(n)) = n
<1>1. MaxU32 \in Nat /\ MaxU32 > 999999999
  BY CalendarAssumption
<1>2. CASE n = 0
  BY <1>1, <1>2 DEF FormatFraction, None, FractionFits, FractionNanos
<1>3. CASE n > 0
  <2>1. FormatFraction(n) = [digits |-> 9, value |-> n]
    BY <1>3 DEF FormatFraction
  <2>2. PlaceValue[9] = 1
    BY DEF PlaceValue
  <2> QED BY <1>1, <2>1, <2>2 DEF FractionFits, FractionNanos
<1> QED BY <1>2, <1>3

\* Every place is worth ten of the next.
LEMMA NextPlace ==
    ASSUME NEW row \in 1..8
    PROVE  /\ PlaceValue[row] \in Nat /\ PlaceValue[row + 1] \in Nat
           /\ PlaceValue[row + 1] >= 1
           /\ PlaceValue[row] = 10 * PlaceValue[row + 1]
  BY DEF PlaceValue

LEMMA LongerFraction ==
    ASSUME NEW f \in Fractions, f.digits \in 1..8
    PROVE  LET long  == [digits |-> f.digits + 1, value |-> 10 * f.value]
               short == [digits |-> f.digits, value |-> f.value]
           IN  /\ FractionFits(long) /\ FractionFits(short)
               /\ FractionNanos(long) = FractionNanos(short)
<1> DEFINE value == f.value
           place == PlaceValue[f.digits + 1]
<1>1. MaxU32 \in Nat /\ MaxU32 > 999999999
  BY CalendarAssumption
<1>2. value \in Nat /\ value * PlaceValue[f.digits] < 1000000000
  BY CalendarAssumption
<1>3. place \in Nat /\ place >= 1 /\ PlaceValue[f.digits] = 10 * place
  BY NextPlace
<1>4. f.digits + 1 \in 1..9 /\ f.digits \in 1..9
  OBVIOUS
<1> HIDE DEF value, place
<1>5. value * (10 * place) = (10 * value) * place
  BY <1>2, <1>3
<1>6. (10 * value) * place >= 10 * value
  BY <1>2, <1>3
<1>7. 10 * value < 1000000000
  BY <1>2, <1>3, <1>5, <1>6
<1>8. value <= MaxU32 /\ 10 * value <= MaxU32
  BY <1>1, <1>2, <1>7
<1> QED BY <1>3, <1>4, <1>5, <1>8 DEF FractionFits, FractionNanos, value, place

\* Two strings that differ in how the fraction is written.
LEMMA SameInstant ==
    ASSUME NEW s, NEW t,
           s.year = t.year, s.month = t.month, s.day = t.day,
           s.hour = t.hour, s.minute = t.minute, s.second = t.second,
           FractionFits(s.fraction), FractionFits(t.fraction),
           FractionNanos(s.fraction) = FractionNanos(t.fraction)
    PROVE  parseIso8601(s) = parseIso8601(t)
  BY DEF parseIso8601

\* The clock's time of day, and its seconds.
LEMMA ClockReads ==
    ASSUME CalendarIInv
    PROVE  /\ clock.nanoseconds \in Nat /\ clock.nanoseconds < 1000000000
           /\ Now.seconds = SecondsOf(clock.hour, clock.minute, clock.second)
           /\ ReadsTime(clock.hour, clock.minute, clock.second, Now.seconds)
<1> DEFINE nanos == {n \in Nat : n < 1000000000}
           hour == clock.hour
           minute == clock.minute
           second == clock.second
<1>1. clock \in [hour: 0..23, minute: 0..59, second: 0..59, nanoseconds: nanos]
  BY CalendarAssumption DEF CalendarIInv
<1>2. \A n \in nanos : n \in Nat /\ n < 1000000000
  OBVIOUS
<1> HIDE DEF nanos
<1>3. hour \in 0..23 /\ minute \in 0..59 /\ second \in 0..59 /\ clock.nanoseconds \in nanos
  BY <1>1
<1>4. Now.seconds = SecondsOf(hour, minute, second)
  BY DEF Now, SecondsOf
<1> HIDE DEF hour, minute, second
<1>5. ReadsTime(hour, minute, second, SecondsOf(hour, minute, second))
  BY <1>3, TimeOfDay
<1>6. clock.nanoseconds \in Nat /\ clock.nanoseconds < 1000000000
  BY <1>2, <1>3
<1> QED BY <1>4, <1>5, <1>6 DEF hour, minute, second

\* What format writes.
LEMMA IsoWritten ==
    ASSUME CalendarIInv
    PROVE  FormatIso(Now) = [year |-> date.year, month |-> date.month, day |-> date.day,
                             hour |-> clock.hour, minute |-> clock.minute,
                             second |-> clock.second,
                             fraction |-> FormatFraction(clock.nanoseconds)]
<1>1. Now.nanoseconds = clock.nanoseconds
  BY DEF Now
<1>2. FormatTime(Now.seconds) = [hour |-> clock.hour, minute |-> clock.minute,
                                 second |-> clock.second]
  BY ClockReads DEF ReadsTime
<1> QED BY <1>1, <1>2 DEF FormatIso

\* On an existing date nothing fails, and the count is that of the days.
LEMMA Counted ==
    ASSUME CalendarIInv
    PROVE  /\ DateError(date.year, date.month, date.day) = "none"
           /\ calculateDaysSinceEpoch(date.year, date.month, date.day) = days
           /\ days \in Int
<1>1. /\ date.year \in EpochYear..LastYear /\ date.month \in 1..12 /\ date.day \in 1..31
      /\ days = DaysBeforeYear[date.year] + DaysBeforeMonth(date.year, date.month) + date.day - 1
  BY DEF CalendarIInv, calculateDaysSinceEpoch
<1>2. LastYear \in Nat
  BY CalendarAssumption
<1>3. DaysBeforeYear[date.year] \in Int /\ DaysBeforeMonth(date.year, date.month) \in Int
  BY <1>1, <1>2, CountIsInt DEF EpochYear
<1>4. Len(days_in_month) = 12
  BY DEF days_in_month
<1>5. ~(date.year < EpochYear) /\ ~OutOfRange(date.month, date.day)
  BY <1>1, <1>2, <1>4 DEF EpochYear, OutOfRange
<1> QED BY <1>1, <1>3, <1>5 DEF DateError, CalendarIInv

LEMMA ReadsBack == CalendarIInv => IsoReadsBack
<1> SUFFICES ASSUME CalendarIInv PROVE IsoReadsBack
  OBVIOUS
<1> DEFINE iso == FormatIso(Now)
           seconds == Now.seconds
<1>1. parseIso8601(iso) = Now
  <2>1. /\ iso.year = date.year /\ iso.month = date.month /\ iso.day = date.day
        /\ iso.hour = clock.hour /\ iso.minute = clock.minute /\ iso.second = clock.second
        /\ iso.fraction = FormatFraction(clock.nanoseconds)
    BY IsoWritten
  <2>2. /\ SecondsOf(iso.hour, iso.minute, iso.second) = seconds
        /\ seconds \div 86400 = 0 /\ seconds % 86400 = seconds
    <3> HIDE DEF iso
    <3> QED BY <2>1, ClockReads DEF ReadsTime
  <2>3. FractionFits(iso.fraction) /\ FractionNanos(iso.fraction) = clock.nanoseconds
    <3> HIDE DEF iso
    <3> QED BY <2>1, ClockReads, FractionOfFormat
  <2> HIDE DEF iso, seconds
  <2>4. parseIso8601(iso) = [days |-> days + 0, seconds |-> seconds,
                              nanoseconds |-> clock.nanoseconds]
    BY <2>1, <2>2, <2>3, Counted DEF parseIso8601, SecondsOf
  <2>5. days + 0 = days
    BY Counted
  <2> QED BY <2>4, <2>5 DEF Now, seconds
<1>2. ASSUME NEW f \in Fractions, f.digits \in 1..8
      PROVE  WithFraction(f.digits + 1, 10 * f.value) = WithFraction(f.digits, f.value)
  <2> DEFINE long  == [digits |-> f.digits + 1, value |-> 10 * f.value]
             short == [digits |-> f.digits, value |-> f.value]
             longIso  == [iso EXCEPT !.fraction = long]
             shortIso == [iso EXCEPT !.fraction = short]
  <2>1. FractionFits(long) /\ FractionFits(short) /\ FractionNanos(long) = FractionNanos(short)
    BY <1>2, LongerFraction
  <2> HIDE DEF long, short
  <2>2. /\ longIso.fraction = long /\ shortIso.fraction = short
        /\ longIso.year = shortIso.year /\ longIso.month = shortIso.month
        /\ longIso.day = shortIso.day /\ longIso.hour = shortIso.hour
        /\ longIso.minute = shortIso.minute /\ longIso.second = shortIso.second
    BY IsoWritten
  <2> HIDE DEF longIso, shortIso
  <2>3. parseIso8601(longIso) = parseIso8601(shortIso)
    BY <2>1, <2>2, SameInstant
  <2> QED BY <2>3 DEF WithFraction, longIso, shortIso, long, short
<1> QED BY <1>1, <1>2 DEF IsoReadsBack

(* Every date until LastYear, with every time of day, that format writes   *)
(* is read as the instant it was written of, and a fraction of a second    *)
(* means the same with a zero more.                                        *)
THEOREM DatesReadBack == CalendarSpec => []IsoReadsBack
  BY CalendarInvariance, ReadsBack, PTL

\* What the parser makes of another date, at the time of the clock.
LEMMA OtherDate ==
    ASSUME CalendarIInv, NEW year \in Nat, NEW month \in Nat, NEW day \in Nat, year >= EpochYear
    PROVE  /\ OutOfRange(month, day) => OnDate(year, month, day) = [error |-> "illegal"]
           /\ ~OutOfRange(month, day) =>
                 OnDate(year, month, day) =
                     [days |-> calculateDaysSinceEpoch(year, month, day) + 0,
                      seconds |-> Now.seconds, nanoseconds |-> clock.nanoseconds]
<1> DEFINE iso == [FormatIso(Now) EXCEPT !.year = year, !.month = month, !.day = day]
           seconds == Now.seconds
<1>1. /\ iso.year = year /\ iso.month = month /\ iso.day = day
      /\ iso.hour = clock.hour /\ iso.minute = clock.minute /\ iso.second = clock.second
      /\ iso.fraction = FormatFraction(clock.nanoseconds)
  BY IsoWritten
<1>2. OnDate(year, month, day) = parseIso8601(iso)
  BY DEF OnDate
<1> HIDE DEF iso
<1>3. /\ SecondsOf(iso.hour, iso.minute, iso.second) = seconds
      /\ seconds \div 86400 = 0 /\ seconds % 86400 = seconds
  BY <1>1, ClockReads DEF ReadsTime
<1>4. FractionFits(iso.fraction) /\ FractionNanos(iso.fraction) = clock.nanoseconds
  BY <1>1, ClockReads, FractionOfFormat
<1>5. ~(year < EpochYear)
  BY DEF EpochYear
<1> HIDE DEF seconds
<1>6. CASE OutOfRange(month, day)
  <2>1. DateError(year, month, day) = "illegal"
    BY <1>5, <1>6 DEF DateError
  <2>2. parseIso8601(iso) = [error |-> "illegal"]
    BY <1>1, <2>1 DEF parseIso8601
  <2> QED BY <1>2, <1>6, <2>2
<1>7. CASE ~OutOfRange(month, day)
  <2>1. DateError(year, month, day) = "none"
    BY <1>5, <1>7 DEF DateError
  <2>2. parseIso8601(iso) = [days |-> calculateDaysSinceEpoch(year, month, day) + 0,
                              seconds |-> seconds, nanoseconds |-> clock.nanoseconds]
    BY <1>1, <1>3, <1>4, <2>1 DEF parseIso8601, SecondsOf
  <2> QED BY <1>2, <1>7, <2>2 DEF seconds
<1> QED BY <1>6, <1>7

\* Two dates with the same count.
LEMMA SameCount ==
    ASSUME CalendarIInv,
           NEW y \in Nat, NEW m \in 1..13, NEW d \in Nat \ {0}, y >= EpochYear,
           NEW year \in Nat, NEW month \in 1..13, NEW day \in Nat \ {0}, year >= EpochYear,
           calculateDaysSinceEpoch(y, m, d) = calculateDaysSinceEpoch(year, month, day)
    PROVE  OnDate(y, m, d) = OnDate(year, month, day)
<1>1. Len(days_in_month) = 12
  BY DEF days_in_month
<1>2. ~OutOfRange(m, d) /\ ~OutOfRange(month, day)
  BY <1>1 DEF OutOfRange
<1> QED BY <1>2, OtherDate

LEMMA HourCarries ==
    ASSUME CalendarIInv
    PROVE  parseIso8601([FormatIso(Now) EXCEPT !.hour = @ + 24]) = [Now EXCEPT !.days = @ + 1]
<1> DEFINE iso == [FormatIso(Now) EXCEPT !.hour = @ + 24]
           seconds == Now.seconds
           late == SecondsOf(iso.hour, iso.minute, iso.second)
<1>1. /\ iso.year = date.year /\ iso.month = date.month /\ iso.day = date.day
      /\ iso.hour = clock.hour + 24 /\ iso.minute = clock.minute
      /\ iso.second = clock.second
      /\ iso.fraction = FormatFraction(clock.nanoseconds)
  BY IsoWritten
<1> HIDE DEF iso
<1>2. late = seconds + 86400
  BY <1>1, ClockReads DEF ReadsTime
<1>3. late \div 86400 = 1 /\ late % 86400 = seconds
  BY <1>2, ClockReads DEF ReadsTime
<1>4. FractionFits(iso.fraction) /\ FractionNanos(iso.fraction) = clock.nanoseconds
  BY <1>1, ClockReads, FractionOfFormat
<1> HIDE DEF seconds
<1>5. parseIso8601(iso) = [days |-> days + 1, seconds |-> seconds,
                            nanoseconds |-> clock.nanoseconds]
  BY <1>1, <1>3, <1>4, Counted DEF parseIso8601, SecondsOf
<1>6. [Now EXCEPT !.days = @ + 1] = [days |-> days + 1, seconds |-> seconds,
                                     nanoseconds |-> clock.nanoseconds]
  BY DEF Now, seconds
<1> QED BY <1>5, <1>6 DEF iso

LEMMA Carries == CalendarIInv => OverlongCarries
<1> SUFFICES ASSUME CalendarIInv PROVE OverlongCarries
  OBVIOUS
<1> DEFINE year == date.year
           month == date.month
           today == date.day
<1>1. year \in EpochYear..LastYear /\ month \in 1..12 /\ today \in 1..31
  BY DEF CalendarIInv
<1>2. LastYear \in Nat /\ EpochYear = 1970 /\ year \in Nat /\ year \in EpochYear..LastYear + 1
  <2>1. LastYear \in Nat
    BY CalendarAssumption
  <2> QED BY <1>1, <2>1 DEF EpochYear
<1>3. DaysBeforeYear[year] \in Int /\ DaysBeforeMonth(year, month) \in Int
  BY <1>1, <1>2, CountIsInt
<1>4. days = DaysBeforeYear[year] + DaysBeforeMonth(year, month) + today - 1
  BY DEF CalendarIInv, calculateDaysSinceEpoch
<1>5. OnDate(year, month, today) = Now
  <2>1. Len(days_in_month) = 12
    BY DEF days_in_month
  <2>2. ~OutOfRange(month, today) /\ month \in Nat /\ today \in Nat /\ year >= EpochYear
    <3> HIDE DEF year, month, today
    <3> QED BY <1>1, <1>2, <2>1 DEF OutOfRange
  <2>3. OnDate(year, month, today) =
            [days |-> calculateDaysSinceEpoch(year, month, today) + 0,
             seconds |-> Now.seconds, nanoseconds |-> clock.nanoseconds]
    <3> HIDE DEF year, month, today
    <3> QED BY <1>2, <2>2, OtherDate
  <2>4. calculateDaysSinceEpoch(year, month, today) + 0 = days
    BY Counted
  <2> QED BY <2>3, <2>4 DEF Now
<1>6. ASSUME month > 1, NEW day \in 1..(99 - MonthLength(year, month - 1))
      PROVE  OnDate(year, month - 1, MonthLength(year, month - 1) + day)
                 = OnDate(year, month, day)
  <2> DEFINE m == month - 1
             last == MonthLength(year, m)
  <2>1. m \in 1..12 /\ m + 1 = month /\ m \in 1..13 /\ month \in 1..13
    BY <1>1, <1>6
  <2> HIDE DEF m
  <2>2. last \in 28..31
    BY <1>2, <2>1, MonthBounds
  <2>3. DaysBeforeMonth(year, month) = DaysBeforeMonth(year, m) + last
    BY <1>2, <2>1, NextMonth
  <2>4. DaysBeforeMonth(year, m) \in Int
    BY <1>2, <2>1, CountIsInt
  <2>5. day \in 1..(99 - last)
    BY <1>6 DEF m
  <2> HIDE DEF last, year, month
  <2>6. day \in Nat \ {0} /\ last + day \in Nat \ {0}
    BY <2>2, <2>5
  <2>7. calculateDaysSinceEpoch(year, m, last + day) = calculateDaysSinceEpoch(year, month, day)
    BY <1>3, <2>2, <2>3, <2>4, <2>6 DEF calculateDaysSinceEpoch
  <2>8. year \in Nat /\ year >= EpochYear /\ m \in 1..13 /\ month \in 1..13
    BY <1>1, <1>2, <2>1
  <2> DEFINE far == last + day
  <2>9. far \in Nat \ {0}
    BY <2>6
  <2>10. calculateDaysSinceEpoch(year, m, far) = calculateDaysSinceEpoch(year, month, day)
    BY <2>7
  <2> HIDE DEF far
  <2>11. OnDate(year, m, far) = OnDate(year, month, day)
    <3>1. Len(days_in_month) = 12
      BY DEF days_in_month
    <3>2. ~OutOfRange(m, far) /\ ~OutOfRange(month, day)
      BY <2>6, <2>8, <2>9, <3>1 DEF OutOfRange
    <3>3. m \in Nat /\ month \in Nat /\ far \in Nat /\ day \in Nat
      BY <2>6, <2>8, <2>9
    <3>4. OnDate(year, m, far) = [days |-> calculateDaysSinceEpoch(year, m, far) + 0,
                                  seconds |-> Now.seconds, nanoseconds |-> clock.nanoseconds]
      BY <2>8, <3>2, <3>3, OtherDate
    <3>5. OnDate(year, month, day) = [days |-> calculateDaysSinceEpoch(year, month, day) + 0,
                                      seconds |-> Now.seconds,
                                      nanoseconds |-> clock.nanoseconds]
      BY <2>8, <3>2, <3>3, OtherDate
    <3> QED BY <2>10, <3>4, <3>5
  <2> QED BY <2>11 DEF far, m, last
<1>7. ASSUME month = 1, year > EpochYear
      PROVE  OnDate(year - 1, 13, today) = Now
  <2> HIDE DEF year, month, today
  <2>1. year - 1 \in EpochYear..LastYear /\ year - 1 \in Nat /\ (year - 1) + 1 = year
    BY <1>1, <1>2, <1>7
  <2>2. DaysBeforeYear[year] = DaysBeforeYear[year - 1] + DaysInYear(year - 1)
    BY <2>1, YearsBefore
  <2>3. DaysBeforeMonth(year, 1) = 0 /\ DaysBeforeMonth(year - 1, 13) = DaysInYear(year - 1)
    BY <1>2, <2>1, WholeYear
  <2>4. DaysBeforeYear[year - 1] \in Int /\ DaysInYear(year - 1) \in Int
    BY <1>2, <2>1, CountIsInt DEF DaysInYear
  <2>5. calculateDaysSinceEpoch(year - 1, 13, today) = calculateDaysSinceEpoch(year, 1, today)
    BY <1>1, <2>2, <2>3, <2>4 DEF calculateDaysSinceEpoch
  <2>6. OnDate(year - 1, 13, today) = OnDate(year, 1, today)
    BY <1>1, <1>2, <2>1, <2>5, SameCount
  <2> QED BY <1>5, <1>7, <2>6
<1>8. ASSUME today = 1, month = 1, NEW other \in 0..99
      PROVE  /\ OnDate(year, other, 0) = [error |-> "illegal"]
             /\ OnDate(year, other, today) = [error |-> "illegal"] <=> other \notin 1..13
  <2>1. other \in Nat /\ year \in Nat /\ year >= EpochYear /\ today \in Nat /\ today # 0
    BY <1>1, <1>2
  <2> HIDE DEF year, today
  <2>2. Len(days_in_month) = 12
    BY DEF days_in_month
  <2>3. OutOfRange(other, 0) /\ (OutOfRange(other, today) <=> other \notin 1..13)
    BY <2>1, <2>2 DEF OutOfRange
  <2>4. OnDate(year, other, 0) = [error |-> "illegal"]
    BY <2>1, <2>3, OtherDate
  <2>5. other \notin 1..13 => OnDate(year, other, today) = [error |-> "illegal"]
    BY <2>1, <2>3, OtherDate
  <2>6. ASSUME other \in 1..13 PROVE OnDate(year, other, today) # [error |-> "illegal"]
    <3> DEFINE count == calculateDaysSinceEpoch(year, other, today) + 0
               instant == [days |-> count, seconds |-> Now.seconds,
                           nanoseconds |-> clock.nanoseconds]
    <3>1. OnDate(year, other, today) = instant
      BY <2>1, <2>3, <2>6, OtherDate
    <3> HIDE DEF count
    <3>2. "days" \in DOMAIN instant
      OBVIOUS
    <3>3. "days" \notin DOMAIN [error |-> "illegal"]
      OBVIOUS
    <3> QED BY <3>1, <3>2, <3>3
  <2> QED BY <2>4, <2>5, <2>6
<1>9. parseIso8601([FormatIso(Now) EXCEPT !.hour = @ + 24]) = [Now EXCEPT !.days = @ + 1]
  BY HourCarries
<1> QED BY <1>6, <1>7, <1>8, <1>9 DEF OverlongCarries

(* A day, a month or an hour too many carries into the next, at every date *)
(* until LastYear; a day or a month without meaning stops the parser.      *)
THEOREM OverlongDatesCarry == CalendarSpec => []OverlongCarries
  BY CalendarInvariance, Carries, PTL

-----------------------------------------------------------------------------
(* Chains: their segments are the bot's own or parsed from the message, in *)
(* the arena of their chain or of one opened earlier, or lent.             *)

Contents ==
    {[kind |-> "text", data |-> Object("text", "repeating")],
     [kind |-> "at", data |-> [qq |-> "10001", name |-> NoName]]}
    \cup {[kind |-> fromJson(message[k]).kind, data |-> fromJson(message[k]).data] :
              k \in DOMAIN message}

Segments == {[kind |-> s.kind, data |-> s.data, memory |-> m, lent |-> l] :
                 s \in Contents, m \in 0..Locals + 1, l \in BOOLEAN}

\* A string in chain c that is not lent is in an arena that outlives c.
Kept(s, c) == s.lent \/ s.memory \in 0..c

ChainIInv ==
    /\ open \in 0..Locals
    /\ \A k \in DOMAIN message : Parses(message[k])
    /\ chains \in [0..Locals -> Seq(Segments)]
    /\ \A c \in 0..Locals : \A i \in DOMAIN chains[c] : Kept(chains[c][i], c)
    /\ \A c \in 0..Locals : c > open => chains[c] = <<>>

LEMMA SegmentMemory ==
    ASSUME NEW s \in Segments
    PROVE  /\ s.memory \in 0..Locals + 1 /\ s.lent \in BOOLEAN
           /\ [kind |-> s.kind, data |-> s.data] \in Contents
           /\ s = [kind |-> s.kind, data |-> s.data, memory |-> s.memory, lent |-> s.lent]
<1>1. PICK t \in Contents, m \in 0..Locals + 1, l \in BOOLEAN :
          s = [kind |-> t.kind, data |-> t.data, memory |-> m, lent |-> l]
  BY DEF Segments
<1>2. t = [kind |-> t.kind, data |-> t.data]
  BY DEF Contents
<1> QED BY <1>1, <1>2

\* What is made of content, an arena and a history is a segment.
LEMMA SegmentMade ==
    ASSUME NEW kind, NEW data, [kind |-> kind, data |-> data] \in Contents,
           NEW m \in 0..Locals + 1, NEW l \in BOOLEAN
    PROVE  [kind |-> kind, data |-> data, memory |-> m, lent |-> l] \in Segments
<1> DEFINE t == [kind |-> kind, data |-> data]
<1>1. t \in Contents /\ t.kind = kind /\ t.data = data
  OBVIOUS
<1> HIDE DEF t
<1> QED BY <1>1 DEF Segments

\* A copy is lent or in an arena that outlives its chain.
LEMMA CopyKept ==
    ASSUME NEW s \in Segments, NEW c \in 0..Locals, NEW d \in 0..Locals,
           d # c, Kept(s, d)
    PROVE  Copied(s, d, c) \in Segments /\ Kept(Copied(s, d, c), c)
<1>1. /\ s.memory \in 0..Locals + 1 /\ s.lent \in BOOLEAN
      /\ [kind |-> s.kind, data |-> s.data] \in Contents
  BY SegmentMemory
<1>2. CASE s.lent \/ d > c
  <2>1. Copied(s, d, c)
            = [kind |-> s.kind, data |-> s.data, memory |-> s.memory, lent |-> TRUE]
    BY <1>2 DEF Copied
  <2>2. Copied(s, d, c) \in Segments
    BY <1>1, <2>1, SegmentMade
  <2> QED BY <2>1, <2>2 DEF Kept
<1>3. CASE ~(s.lent \/ d > c)
  <2>1. Copied(s, d, c)
            = [kind |-> s.kind, data |-> s.data, memory |-> s.memory, lent |-> FALSE]
    BY <1>3 DEF Copied
  <2>2. Copied(s, d, c) \in Segments
    BY <1>1, <2>1, SegmentMade
  <2>3. s.memory \in 0..c
    BY <1>3, ChainAssumption DEF Kept
  <2> QED BY <2>1, <2>2, <2>3 DEF Kept
<1> QED BY <1>2, <1>3

\* When a later chain is closed, what dangles was lent.
LEMMA FreedKept ==
    ASSUME NEW s \in Segments, NEW c \in 0..Locals, NEW m \in 0..Locals, c < m, Kept(s, c),
           NEW f, f = IF s.memory = m THEN [s EXCEPT !.memory = Gone] ELSE s
    PROVE  f \in Segments /\ Kept(f, c)
<1>1. CASE s.memory # m
  BY <1>1
<1>2. CASE s.memory = m
  <2>1. /\ s.lent \in BOOLEAN /\ [kind |-> s.kind, data |-> s.data] \in Contents
        /\ s = [kind |-> s.kind, data |-> s.data, memory |-> s.memory, lent |-> s.lent]
    BY SegmentMemory
  <2>2. s.lent
    BY <1>2, ChainAssumption DEF Kept
  <2>3. f = [kind |-> s.kind, data |-> s.data, memory |-> Gone, lent |-> s.lent]
    BY <1>2, <2>1
  <2>4. Gone \in 0..Locals + 1
    BY ChainAssumption DEF Gone
  <2>5. f \in Segments
    BY <2>1, <2>3, <2>4, SegmentMade
  <2> QED BY <2>2, <2>3, <2>5 DEF Kept
<1> QED BY <1>1, <1>2

LEMMA ChainStarts == ChainInit => ChainIInv
<1> SUFFICES ASSUME ChainInit PROVE ChainIInv
  OBVIOUS
<1> DEFINE parsed == [i \in DOMAIN message |-> fromJson(message[i])]
<1>1. /\ message \in Messages /\ open = 0
      /\ chains = [c \in 0..Locals |-> IF c = 0 THEN parsed ELSE <<>>]
      /\ \A k \in DOMAIN message : Parses(message[k])
  BY DEF ChainInit
<1>2. PICK n \in 0..MaxSegments : DOMAIN message = 1..n
  BY <1>1, ChainAssumption
<1>3. Locals \in Nat
  BY ChainAssumption
<1>4. ASSUME NEW i \in 1..n PROVE parsed[i] \in Segments /\ parsed[i].memory = 0
  <2>1. parsed[i] = fromJson(message[i])
    BY <1>2
  <2>2. [kind |-> parsed[i].kind, data |-> parsed[i].data] \in Contents
    BY <1>2, <2>1 DEF Contents
  <2>3. PICK data : fromJson(message[i]) = [memory |-> 0, lent |-> FALSE,
                                            kind |-> message[i].type, data |-> data]
    BY Zenon DEF fromJson
  <2>4. parsed[i] = [memory |-> 0, lent |-> FALSE, kind |-> message[i].type, data |-> data]
    BY <2>1, <2>3
  <2> HIDE DEF parsed
  <2>5. parsed[i] = [kind |-> parsed[i].kind, data |-> parsed[i].data,
                     memory |-> 0, lent |-> FALSE]
    BY <2>4
  <2>6. 0 \in 0..Locals + 1
    BY <1>3
  <2>7. parsed[i] \in Segments
    BY <2>2, <2>5, <2>6, SegmentMade
  <2> QED BY <2>4, <2>7
<1>5. parsed \in Seq(Segments)
  <2>1. DOMAIN parsed = 1..n
    BY <1>2
  <2>2. parsed = [i \in 1..n |-> parsed[i]]
    BY <1>2
  <2> HIDE DEF parsed
  <2> QED BY <1>4, <2>1, <2>2
<1>6. \A i \in DOMAIN parsed : parsed[i].memory = 0
  BY <1>2, <1>4
<1> HIDE DEF parsed
<1>7. chains[0] = parsed /\ \A c \in 0..Locals : c # 0 => chains[c] = <<>>
  BY <1>1, <1>3
<1>8. ASSUME NEW c \in 0..Locals PROVE chains[c] \in Seq(Segments)
  <2>1. CASE c = 0
    BY <1>5, <1>7, <2>1
  <2>2. CASE c # 0
    <3>1. <<>> \in Seq(Segments)
      OBVIOUS
    <3> QED BY <1>7, <2>2, <3>1
  <2> QED BY <2>1, <2>2
<1>9. chains \in [0..Locals -> Seq(Segments)]
  <2>1. chains = [c \in 0..Locals |-> chains[c]]
    BY <1>1
  <2> QED BY <1>8, <2>1
<1>10. \A c \in 0..Locals : \A i \in DOMAIN chains[c] : Kept(chains[c][i], c)
  BY <1>3, <1>6, <1>7 DEF Kept
<1> QED BY <1>1, <1>3, <1>7, <1>9, <1>10 DEF ChainIInv

\* A chain that changes to contain what it may contain.
LEMMA ChainBecomes ==
    ASSUME ChainIInv, NEW c \in 1..open, NEW new \in Seq(Segments),
           \A i \in DOMAIN new : Kept(new[i], c),
           chains' = [chains EXCEPT ![c] = new], UNCHANGED <<message, open>>
    PROVE  ChainIInv'
<1>1. Locals \in Nat /\ open \in 0..Locals /\ c \in 0..Locals
  BY ChainAssumption DEF ChainIInv
<1>2. chains \in [0..Locals -> Seq(Segments)]
  BY DEF ChainIInv
<1>3. chains' \in [0..Locals -> Seq(Segments)]
  BY <1>1, <1>2
<1>4. Segments' = Segments
  BY DEF Segments, Contents
<1>5. \A d \in 0..Locals : chains'[d] = IF d = c THEN new ELSE chains[d]
  BY <1>2
<1>6. \A d \in 0..Locals : \A i \in DOMAIN chains'[d] : Kept(chains'[d][i], d)
  BY <1>5 DEF ChainIInv
<1>7. \A d \in 0..Locals : d > open => chains'[d] = <<>>
  BY <1>1, <1>5 DEF ChainIInv
<1>8. \A d \in 0..Locals : \A i \in DOMAIN chains'[d] : Kept(chains[d][i], d)'
  BY <1>6 DEF Kept
<1> QED BY <1>3, <1>4, <1>7, <1>8 DEF ChainIInv

LEMMA Appended ==
    ASSUME ChainIInv, NEW c \in 1..open, NEW s \in Segments, Kept(s, c), Append1(c, s)
    PROVE  ChainIInv'
<1> DEFINE new == Append(chains[c], s)
<1>1. Locals \in Nat /\ open \in 0..Locals /\ c \in 0..Locals
  BY ChainAssumption DEF ChainIInv
<1>2. chains[c] \in Seq(Segments) /\ \A i \in DOMAIN chains[c] : Kept(chains[c][i], c)
  BY <1>1 DEF ChainIInv
<1>3. chains' = [chains EXCEPT ![c] = new] /\ UNCHANGED <<message, open>>
  BY DEF Append1
<1>4. new \in Seq(Segments) /\ \A i \in DOMAIN new : Kept(new[i], c)
  BY <1>2
<1> HIDE DEF new
<1> QED BY <1>3, <1>4, ChainBecomes

LEMMA ChainStep ==
    ASSUME ChainIInv, [ChainNext]_chainVars
    PROVE  ChainIInv'
<1>1. Locals \in Nat /\ open \in 0..Locals
  BY ChainAssumption DEF ChainIInv
<1>2. chains \in [0..Locals -> Seq(Segments)]
  BY DEF ChainIInv
<1>3. CASE init
  <2>1. open' = open + 1 /\ open' \in 0..Locals /\ UNCHANGED <<message, chains>>
    BY <1>1, <1>3 DEF init
  <2>2. Segments' = Segments
    BY <2>1 DEF Segments, Contents
  <2> QED BY <1>1, <2>1, <2>2 DEF ChainIInv
<1>4. CASE deinit
  <2> DEFINE emptied == [chains EXCEPT ![open] = <<>>]
  <2>1. open \in 1..Locals /\ open' = open - 1 /\ message' = message
        /\ chains' = Freed(emptied, open)
    BY <1>1, <1>4 DEF deinit
  <2>2. emptied \in [0..Locals -> Seq(Segments)]
    <3>1. <<>> \in Seq(Segments)
      OBVIOUS
    <3> QED BY <1>2, <3>1
  <2>3. \A c \in 0..Locals : emptied[c] = IF c >= open THEN <<>> ELSE chains[c]
    BY <1>1, <1>2, <2>1 DEF ChainIInv
  <2>4. ASSUME NEW c \in 0..Locals, NEW i \in DOMAIN emptied[c]
        PROVE  c < open /\ emptied[c][i] \in Segments /\ Kept(emptied[c][i], c)
    BY <1>1, <1>2, <2>1, <2>3 DEF ChainIInv
  <2> HIDE DEF emptied
  <2> DEFINE freed(c) == [i \in DOMAIN emptied[c] |->
                 IF emptied[c][i].memory = open THEN [emptied[c][i] EXCEPT !.memory = Gone]
                 ELSE emptied[c][i]]
  <2>5. chains' = [c \in 0..Locals |-> freed(c)]
    BY <2>1, <2>2 DEF Freed
  <2>6. ASSUME NEW c \in 0..Locals
        PROVE  /\ freed(c) \in Seq(Segments) /\ DOMAIN freed(c) = DOMAIN emptied[c]
               /\ \A i \in DOMAIN freed(c) : Kept(freed(c)[i], c)
    <3>1. ASSUME NEW i \in DOMAIN emptied[c]
          PROVE  freed(c)[i] \in Segments /\ Kept(freed(c)[i], c)
      <4> DEFINE f == freed(c)[i]
      <4>1. f = IF emptied[c][i].memory = open THEN [emptied[c][i] EXCEPT !.memory = Gone]
                ELSE emptied[c][i]
        OBVIOUS
      <4> HIDE DEF f
      <4>2. f \in Segments /\ Kept(f, c)
        BY <1>1, <2>4, <4>1, FreedKept
      <4> QED BY <4>2 DEF f
    <3>2. DOMAIN freed(c) = DOMAIN emptied[c]
      OBVIOUS
    <3>3. PICK n \in Nat : DOMAIN emptied[c] = 1..n
      BY <2>2
    <3>4. freed(c) = [i \in 1..n |-> freed(c)[i]]
      BY <3>3
    <3> HIDE DEF freed
    <3>5. freed(c) \in Seq(Segments)
      BY <3>1, <3>3, <3>4
    <3> QED BY <3>1, <3>2, <3>5
  <2> HIDE DEF freed
  <2>7. Segments' = Segments
    BY <2>1 DEF Segments, Contents
  <2>8. chains' \in [0..Locals -> Seq(Segments)]
    BY <2>5, <2>6
  <2>9. \A c \in 0..Locals : \A i \in DOMAIN chains'[c] : Kept(chains[c][i], c)'
    BY <2>5, <2>6 DEF Kept
  <2>10. ASSUME NEW c \in 0..Locals, c > open - 1 PROVE chains'[c] = <<>>
    <3>1. DOMAIN freed(c) = DOMAIN emptied[c] /\ emptied[c] = <<>>
      BY <1>1, <2>1, <2>3, <2>6, <2>10
    <3>2. freed(c) \in Seq(Segments) /\ chains'[c] = freed(c)
      BY <2>5, <2>6
    <3> QED BY <3>1, <3>2
  <2>11. open - 1 \in 0..Locals
    BY <1>1, <2>1
  <2> QED BY <2>1, <2>7, <2>8, <2>9, <2>10, <2>11 DEF ChainIInv
<1>5. ASSUME NEW c \in 1..open, text(c) PROVE ChainIInv'
  <2> DEFINE s == [kind |-> "text", data |-> Object("text", "repeating"),
                   memory |-> 0, lent |-> FALSE]
  <2>1. [kind |-> "text", data |-> Object("text", "repeating")] \in Contents
    BY DEF Contents
  <2>2. 0 \in 0..Locals + 1 /\ 0 \in 0..c
    BY <1>1
  <2>3. s \in Segments
    BY <2>1, <2>2, SegmentMade
  <2>4. Kept(s, c) /\ Append1(c, s)
    BY <1>5, <2>2 DEF text, Kept
  <2> HIDE DEF s
  <2> QED BY <2>3, <2>4, Appended
<1>6. ASSUME NEW c \in 1..open, at(c) PROVE ChainIInv'
  <2> DEFINE s == [kind |-> "at", data |-> [qq |-> "10001", name |-> NoName],
                   memory |-> c, lent |-> FALSE]
  <2>1. [kind |-> "at", data |-> [qq |-> "10001", name |-> NoName]] \in Contents
    BY DEF Contents
  <2>2. c \in 0..Locals + 1 /\ c \in 0..c
    BY <1>1
  <2>3. s \in Segments
    BY <2>1, <2>2, SegmentMade
  <2>4. Kept(s, c) /\ Append1(c, s)
    BY <1>6, <2>2 DEF at, Kept
  <2> HIDE DEF s
  <2> QED BY <2>3, <2>4, Appended
<1>7. ASSUME NEW c \in 1..open, append(c) PROVE ChainIInv'
  <2>1. PICK d \in Others(c) : \E i \in DOMAIN chains[d] :
                                   Append1(c, Copied(chains[d][i], d, c))
    BY <1>7 DEF append
  <2>2. PICK i \in DOMAIN chains[d] : Append1(c, Copied(chains[d][i], d, c))
    BY <2>1
  <2>3. c \in 0..Locals /\ d \in 0..Locals /\ d # c
    BY <1>1 DEF Others
  <2>4. chains[d][i] \in Segments /\ Kept(chains[d][i], d)
    BY <1>2, <2>3 DEF ChainIInv
  <2>5. /\ Copied(chains[d][i], d, c) \in Segments
        /\ Kept(Copied(chains[d][i], d, c), c)
    BY <2>3, <2>4, CopyKept
  <2> QED BY <2>2, <2>5, Appended
<1>8. ASSUME NEW c \in 1..open, chain(c) PROVE ChainIInv'
  <2>1. PICK d \in Others(c) :
            /\ chains' = [chains EXCEPT
                   ![c] = @ \o [i \in DOMAIN chains[d] |-> Copied(chains[d][i], d, c)]]
            /\ UNCHANGED <<message, open>>
    BY <1>8 DEF chain
  <2> DEFINE a == chains[c]
             b == [i \in DOMAIN chains[d] |-> Copied(chains[d][i], d, c)]
             new == a \o b
  <2>2. c \in 0..Locals /\ d \in 0..Locals /\ d # c
    BY <1>1 DEF Others
  <2>3. a \in Seq(Segments) /\ \A i \in DOMAIN a : Kept(a[i], c)
    BY <1>2, <2>2 DEF ChainIInv
  <2>4. b \in Seq(Segments) /\ \A i \in DOMAIN b : Kept(b[i], c)
    <3>1. PICK n \in Nat : DOMAIN chains[d] = 1..n
      BY <1>2, <2>2
    <3>2. ASSUME NEW i \in 1..n PROVE b[i] \in Segments /\ Kept(b[i], c)
      <4>1. chains[d][i] \in Segments /\ Kept(chains[d][i], d)
        BY <1>2, <2>2, <3>1 DEF ChainIInv
      <4>2. b[i] = Copied(chains[d][i], d, c)
        BY <3>1
      <4> QED BY <2>2, <4>1, <4>2, CopyKept
    <3>3. b = [i \in 1..n |-> b[i]] /\ DOMAIN b = 1..n
      BY <3>1
    <3> HIDE DEF b
    <3> QED BY <3>2, <3>3
  <2>5. chains' = [chains EXCEPT ![c] = new]
    BY <2>1
  <2> HIDE DEF a, b
  <2>6. new \in Seq(Segments) /\ \A i \in DOMAIN new : Kept(new[i], c)
    <3>1. new \in Seq(Segments) /\ Len(new) = Len(a) + Len(b)
      BY <2>3, <2>4
    <3>2. \A i \in 1..Len(a) + Len(b) : new[i] = IF i <= Len(a) THEN a[i] ELSE b[i - Len(a)]
      BY <2>3, <2>4
    <3>3. Len(a) \in Nat /\ Len(b) \in Nat /\ DOMAIN a = 1..Len(a) /\ DOMAIN b = 1..Len(b)
          /\ DOMAIN new = 1..Len(a) + Len(b)
      BY <2>3, <2>4, <3>1
    <3> HIDE DEF new
    <3>4. ASSUME NEW i \in DOMAIN new PROVE Kept(new[i], c)
      <4>1. CASE i <= Len(a)
        BY <2>3, <3>2, <3>3, <4>1
      <4>2. CASE i > Len(a)
        <5>1. i - Len(a) \in DOMAIN b /\ new[i] = b[i - Len(a)]
          BY <3>2, <3>3, <4>2
        <5> QED BY <2>4, <5>1
      <4> QED BY <3>3, <4>1, <4>2
    <3> QED BY <3>1, <3>4
  <2> HIDE DEF new
  <2> QED BY <2>1, <2>5, <2>6, ChainBecomes
<1>9. ASSUME NEW c \in 1..open, clear(c) PROVE ChainIInv'
  <2> DEFINE new == <<>>
  <2>1. new \in Seq(Segments) /\ \A i \in DOMAIN new : Kept(new[i], c)
    OBVIOUS
  <2>2. chains' = [chains EXCEPT ![c] = new] /\ UNCHANGED <<message, open>>
    BY <1>9 DEF clear
  <2> HIDE DEF new
  <2> QED BY <2>1, <2>2, ChainBecomes
<1>10. CASE UNCHANGED chainVars
  <2>1. UNCHANGED <<message, open, chains>>
    BY <1>10 DEF chainVars
  <2>2. Segments' = Segments
    BY <2>1 DEF Segments, Contents
  <2> QED BY <2>1, <2>2 DEF ChainIInv
<1> QED BY <1>3, <1>4, <1>5, <1>6, <1>7, <1>8, <1>9, <1>10 DEF ChainNext

(* Whatever chains are opened, built from each other, cleared and closed.  *)
THEOREM ChainInvariance == ChainSpec => []ChainIInv
  BY ChainStarts, ChainStep, PTL DEF ChainSpec

LEMMA MemoryIsOpen == ChainIInv => OnlyLentStringsDangle
<1> SUFFICES ASSUME ChainIInv, NEW c \in 0..Locals, NEW i \in DOMAIN chains[c]
             PROVE  chains[c][i].memory \in 0..open \/ chains[c][i].lent
  BY DEF OnlyLentStringsDangle
<1>1. Locals \in Nat /\ open \in 0..Locals /\ Kept(chains[c][i], c)
  BY ChainAssumption DEF ChainIInv
<1>2. c <= open
  BY <1>1 DEF ChainIInv
<1> QED BY <1>1, <1>2 DEF Kept

(* A string dangles only in a chain that it was lent to, or in a copy made *)
(* of that chain: not after clear, nor when a chain that copied it from an *)
(* earlier one is closed, however many chains there are.                   *)
THEOREM DanglingWasLent == ChainSpec => []OnlyLentStringsDangle
  BY ChainInvariance, MemoryIsOpen, PTL

\* A segment of the message is written with nothing added.
LEMMA WrittenIsSaid ==
    ASSUME NEW j, Parses(j), NEW s, s.kind = fromJson(j).kind, s.data = fromJson(j).data
    PROVE  Within(toJson(s), j)
<1>1. s.kind = j.type
  BY DEF fromJson
<1>2. CASE j.type = "text"
  <2>1. "text" \in DOMAIN j.data
    BY <1>2 DEF Parses, Needed
  <2>2. s.data = [x \in {"text"} |-> j.data[x]]
    BY <1>2 DEF fromJson, Restrict
  <2>3. toJson(s) = [type |-> j.type, data |-> [x \in {"text"} |-> j.data["text"]]]
    BY <1>1, <1>2, <2>2 DEF toJson, Object
  <2> QED BY <2>1, <2>3 DEF Within
<1>3. CASE j.type = "at"
  <2>1. "qq" \in DOMAIN j.data
    BY <1>3 DEF Parses, Needed
  <2>2. s.data.qq = j.data.qq
    BY <1>3 DEF fromJson
  <2>3. toJson(s) = [type |-> j.type, data |-> [x \in {"qq"} |-> j.data["qq"]]]
    BY <1>1, <1>3, <2>2 DEF toJson, Object
  <2> QED BY <2>1, <2>3 DEF Within
<1>4. CASE j.type = "image"
  <2>1. "file" \in DOMAIN j.data
    BY <1>4 DEF Parses, Needed, ImageKeys
  <2>2. s.data = [x \in ImageKeys |-> j.data[x]] /\ "file" \in ImageKeys
    BY <1>4 DEF fromJson, Restrict, ImageKeys
  <2>3. s.data.file = j.data["file"]
    BY <2>2
  <2>4. toJson(s) = [type |-> j.type, data |-> [x \in {"file"} |-> j.data["file"]]]
    BY <1>1, <1>4, <2>3 DEF toJson, Object
  <2> QED BY <2>1, <2>4 DEF Within
<1>5. CASE j.type \notin {"text", "at", "image"}
  <2>1. s.data = j.data
    BY <1>5 DEF fromJson
  <2>2. toJson(s) = [type |-> j.type, data |-> j.data]
    BY <1>1, <1>5, <2>1 DEF toJson
  <2> QED BY <2>2 DEF Within
<1> QED BY <1>2, <1>3, <1>4, <1>5

LEMMA SaidOrOwn == ChainIInv => RepeatsOnlyWhatWasSaid
<1> SUFFICES ASSUME ChainIInv, NEW c \in 0..Locals, NEW i \in DOMAIN JsonOf(c)
             PROVE  \/ JsonOf(c)[i] \in Own
                    \/ \E k \in DOMAIN message : Within(JsonOf(c)[i], message[k])
  BY DEF RepeatsOnlyWhatWasSaid
<1> DEFINE s == chains[c][i]
           t == [kind |-> s.kind, data |-> s.data]
<1>1. i \in DOMAIN chains[c] /\ JsonOf(c)[i] = toJson(s)
  BY DEF JsonOf
<1>2. s \in Segments
  BY <1>1 DEF ChainIInv
<1> HIDE DEF s
<1>3. t \in Contents
  BY <1>2, SegmentMemory
<1>4. toJson(s) = toJson(t)
  BY DEF toJson
<1>5. CASE t = [kind |-> "text", data |-> Object("text", "repeating")]
  <2>1. t.kind = "text" /\ t.data = [x \in {"text"} |-> "repeating"]
    BY <1>5 DEF Object
  <2>2. toJson(t) = [type |-> "text", data |-> Object("text", "repeating")]
    BY <2>1 DEF toJson, Object
  <2> QED BY <1>1, <1>4, <2>2 DEF Own
<1>6. CASE t = [kind |-> "at", data |-> [qq |-> "10001", name |-> NoName]]
  <2>1. t.kind = "at" /\ t.data.qq = "10001"
    BY <1>6
  <2>2. toJson(t) = [type |-> "at", data |-> Object("qq", "10001")]
    BY <2>1 DEF toJson
  <2> QED BY <1>1, <1>4, <2>2 DEF Own
<1>7. ASSUME NEW k \in DOMAIN message,
             t = [kind |-> fromJson(message[k]).kind, data |-> fromJson(message[k]).data]
      PROVE  Within(toJson(t), message[k])
  <2>1. t.kind = fromJson(message[k]).kind /\ t.data = fromJson(message[k]).data
    BY <1>7
  <2>2. Parses(message[k])
    BY DEF ChainIInv
  <2> HIDE DEF t
  <2> QED BY <2>1, <2>2, WrittenIsSaid
<1> QED BY <1>1, <1>3, <1>4, <1>5, <1>6, <1>7 DEF Contents

(* A chain never says what neither the message nor the bot itself said.    *)
THEOREM NothingInvented == ChainSpec => []RepeatsOnlyWhatWasSaid
  BY ChainInvariance, SaidOrOwn, PTL

-----------------------------------------------------------------------------
(* Commands.                                                               *)

\* A part of a sequence, and a part of a part.
LEMMA Part ==
    ASSUME NEW S, NEW s \in Seq(S), NEW m \in 1..Len(s) + 1, NEW n \in m - 1..Len(s)
    PROVE  /\ SubSeq(s, m, n) \in Seq(S) /\ Len(SubSeq(s, m, n)) = n - m + 1
           /\ \A i \in 1..n - m + 1 : SubSeq(s, m, n)[i] = s[m + i - 1]
<1>1. Len(s) \in Nat /\ m \in Int /\ n \in Int
  OBVIOUS
<1>2. \A i \in m..n : s[i] \in S
  BY <1>1
<1>3. n - m + 1 = IF m <= n THEN n - m + 1 ELSE 0
  BY <1>1
<1> QED BY <1>1, <1>2, <1>3, SubSeqProperties

LEMMA PartOfPart ==
    ASSUME NEW S, NEW s \in Seq(S), NEW m \in 1..Len(s) + 1, NEW n \in m - 1..Len(s),
           NEW a \in 1..n - m + 2, NEW b \in a - 1..n - m + 1
    PROVE  SubSeq(SubSeq(s, m, n), a, b) = SubSeq(s, m + a - 1, m + b - 1)
<1> DEFINE t == SubSeq(s, m, n)
           u == SubSeq(t, a, b)
           w == SubSeq(s, m + a - 1, m + b - 1)
<1>1. Len(s) \in Nat /\ m \in Int /\ n \in Int /\ a \in Int /\ b \in Int
  OBVIOUS
<1>2. t \in Seq(S) /\ Len(t) = n - m + 1 /\ \A i \in 1..n - m + 1 : t[i] = s[m + i - 1]
  BY Part
<1> HIDE DEF t
<1>3. u \in Seq(S) /\ Len(u) = b - a + 1 /\ \A i \in 1..b - a + 1 : u[i] = t[a + i - 1]
  <2>1. a \in 1..Len(t) + 1 /\ b \in a - 1..Len(t)
    BY <1>1, <1>2
  <2> QED BY <1>2, <2>1, Part
<1>4. /\ w \in Seq(S) /\ Len(w) = b - a + 1
      /\ \A i \in 1..b - a + 1 : w[i] = s[(m + a - 1) + i - 1]
  <2>1. /\ m + a - 1 \in 1..Len(s) + 1 /\ m + b - 1 \in (m + a - 1) - 1..Len(s)
        /\ (m + b - 1) - (m + a - 1) + 1 = b - a + 1
    BY <1>1
  <2> HIDE DEF w
  <2>2. \A x \in 1..Len(s) + 1 : \A y \in x - 1..Len(s) :
            /\ SubSeq(s, x, y) \in Seq(S) /\ Len(SubSeq(s, x, y)) = y - x + 1
            /\ \A i \in 1..y - x + 1 : SubSeq(s, x, y)[i] = s[x + i - 1]
    BY Part
  <2> DEFINE x == m + a - 1
             y == m + b - 1
  <2>3. /\ SubSeq(s, x, y) \in Seq(S) /\ Len(SubSeq(s, x, y)) = y - x + 1
        /\ \A i \in 1..y - x + 1 : SubSeq(s, x, y)[i] = s[x + i - 1]
    <3> HIDE DEF x, y
    <3> QED BY <2>1, <2>2 DEF x, y
  <2>4. w = SubSeq(s, x, y)
    BY DEF w
  <2> QED BY <2>1, <2>3, <2>4
<1> HIDE DEF u, w
<1>5. ASSUME NEW i \in 1..b - a + 1 PROVE u[i] = w[i]
  <2>1. a + i - 1 \in 1..n - m + 1 /\ m + (a + i - 1) - 1 = (m + a - 1) + i - 1
    BY <1>1
  <2> QED BY <1>2, <1>3, <1>4, <2>1
<1>6. u = w
  <2>1. \A i \in 1..Len(u) : u[i] = w[i]
    BY <1>3, <1>5
  <2> QED BY <1>3, <1>4, <2>1, SeqEqual
<1> QED BY <1>6 DEF u, w, t

\* std.mem.startsWith: byte for byte.
LEMMA StartsWithBytes ==
    ASSUME NEW line \in Seq(Nat), NEW prefix \in Seq(Nat)
    PROVE  StartsWith(line, prefix) <=>
               /\ Len(prefix) <= Len(line)
               /\ \A i \in 1..Len(prefix) : line[i] = prefix[i]
<1>1. Len(line) \in Nat /\ Len(prefix) \in Nat
  OBVIOUS
<1>2. SubSeq(prefix, 1, Len(prefix)) = prefix
  BY SubSeqFull
<1> SUFFICES ASSUME Len(prefix) <= Len(line)
             PROVE  prefix = SubSeq(line, 1, Len(prefix)) <=>
                        \A i \in 1..Len(prefix) : line[i] = prefix[i]
  BY <1>2 DEF StartsWith, IsPrefix
<1> DEFINE first == SubSeq(line, 1, Len(prefix))
<1>3. /\ first \in Seq(Nat) /\ Len(first) = Len(prefix)
      /\ \A i \in 1..Len(prefix) : first[i] = line[i]
  <2> DEFINE n == Len(prefix)
  <2>1. n \in 1 - 1..Len(line) /\ 1 \in 1..Len(line) + 1 /\ n - 1 + 1 = n
    BY <1>1
  <2> HIDE DEF n
  <2>2. /\ SubSeq(line, 1, n) \in Seq(Nat) /\ Len(SubSeq(line, 1, n)) = n - 1 + 1
        /\ \A i \in 1..n - 1 + 1 : SubSeq(line, 1, n)[i] = line[1 + i - 1]
    BY <2>1, Part
  <2>3. \A i \in 1..n : 1 + i - 1 = i
    OBVIOUS
  <2> QED BY <2>1, <2>2, <2>3 DEF n
<1> HIDE DEF first
<1>4. ASSUME \A i \in 1..Len(prefix) : line[i] = prefix[i] PROVE prefix = first
  <2>1. first \in Seq(Nat) /\ Len(prefix) = Len(first)
    BY <1>3
  <2>2. \A i \in 1..Len(prefix) : prefix[i] = first[i]
    BY <1>3, <1>4
  <2> QED BY Zenon, <2>1, <2>2, SeqEqual
<1> QED BY <1>3, <1>4 DEF first

\* A character below 128 is a byte; the first byte of a wide sign tells its length.
LEMMA CharacterFacts ==
    ASSUME NEW ch \in Characters
    PROVE  /\ ch \in Seq(Byte) /\ Len(ch) \in Nat /\ Len(ch) >= 1
           /\ \A j \in 1..Len(ch) : ch[j] \in Int /\ (ch[j] < 128 => Len(ch) = 1 /\ ch = <<ch[j]>>)
           /\ ch[1] = 239 => Len(ch) = 3
<1>1. /\ ch \in Seq(Byte) /\ Len(ch) > 0
      /\ Len(ch) > 1 => \A i \in 1..Len(ch) : ch[i] >= 128
      /\ ch[1] = 239 => Len(ch) = 3
  BY CommandsAssumption
<1>2. ASSUME NEW j \in 1..Len(ch)
      PROVE  ch[j] \in Int /\ (ch[j] < 128 => Len(ch) = 1 /\ ch = <<ch[j]>>)
  <2>1. ch[j] \in Byte
    BY <1>1
  <2>2. ch[j] \in Int
    BY <2>1 DEF Byte
  <2>3. ASSUME ch[j] < 128 PROVE Len(ch) = 1 /\ ch = <<ch[j]>>
    <3>1. Len(ch) = 1
      <4>1. Len(ch) \in Nat
        BY <1>1
      <4>2. ~(ch[j] >= 128)
        BY <2>2, <2>3
      <4>3. ~(Len(ch) > 1) /\ Len(ch) > 0
        BY <1>1, <4>2
      <4> DEFINE len == Len(ch)
      <4>4. len \in Nat /\ ~(len > 1) /\ len > 0
        BY <4>1, <4>3
      <4> HIDE DEF len
      <4>5. len = 1
        BY <4>4
      <4> QED BY <4>5 DEF len
    <3>2. DOMAIN ch = {1} /\ j = 1
      BY <1>1, <3>1
    <3>3. ch = <<ch[1]>>
      BY <1>1, <3>1, <3>2
    <3> QED BY <3>1, <3>2, <3>3
  <2> QED BY <2>2, <2>3
<1> QED BY <1>1, <1>2

-----------------------------------------------------------------------------

CommandTypes == /\ typed \in Seq(Characters) /\ raw_message \in Seq(Byte)
                /\ ends \in Seq(Nat) /\ Len(ends) = Len(typed)

(* Where the characters are, among the bytes: one after the other, with    *)
(* nothing between them.                                                   *)
EndsOrdered ==
    /\ \A i \in 0..Len(typed) : EndOf(i) \in 0..Len(raw_message)
    /\ \A i \in 0..Len(typed) : \A k \in 0..Len(typed) : i < k => EndOf(i) < EndOf(k)
    /\ EndOf(Len(typed)) = Len(raw_message)
    /\ \A i \in 1..Len(typed) : EndOf(i) = EndOf(i - 1) + Len(typed[i])

BytesInPlace ==
    /\ \A i \in 1..Len(typed) : \A j \in 1..Len(typed[i]) :
           raw_message[EndOf(i - 1) + j] = typed[i][j]
    /\ \A p \in 1..Len(raw_message) : \E i \in 1..Len(typed) : \E j \in 1..Len(typed[i]) :
           p = EndOf(i - 1) + j

CommandIInv == CommandTypes /\ EndsOrdered /\ BytesInPlace

\* What the invariant says of one character.
LEMMA CharacterAt ==
    ASSUME CommandIInv, NEW i \in 1..Len(typed)
    PROVE  /\ typed[i] \in Characters /\ typed[i] \in Seq(Byte)
           /\ Len(typed[i]) \in Nat /\ Len(typed[i]) >= 1
           /\ EndOf(i - 1) \in Nat /\ EndOf(i) \in Nat
           /\ EndOf(i) = EndOf(i - 1) + Len(typed[i]) /\ EndOf(i) <= Len(raw_message)
           /\ \A j \in 1..Len(typed[i]) : /\ raw_message[EndOf(i - 1) + j] = typed[i][j]
                                          /\ EndOf(i - 1) + j \in 1..Len(raw_message)
           /\ raw_message[EndOf(i - 1) + 1] = typed[i][1]
<1>1. typed \in Seq(Characters) /\ Len(typed) \in Nat /\ Len(raw_message) \in Nat
  BY DEF CommandIInv, CommandTypes
<1>2. typed[i] \in Characters /\ i \in 0..Len(typed) /\ i - 1 \in 0..Len(typed)
  BY <1>1
<1>3. typed[i] \in Seq(Byte) /\ Len(typed[i]) \in Nat /\ Len(typed[i]) >= 1
  BY <1>2, CharacterFacts
<1>4. /\ EndOf(i - 1) \in 0..Len(raw_message) /\ EndOf(i) \in 0..Len(raw_message)
      /\ EndOf(i) = EndOf(i - 1) + Len(typed[i])
  BY <1>2 DEF CommandIInv, EndsOrdered
<1>5. \A j \in 1..Len(typed[i]) : raw_message[EndOf(i - 1) + j] = typed[i][j]
  BY DEF CommandIInv, BytesInPlace
<1>6. ASSUME NEW j \in 1..Len(typed[i]) PROVE EndOf(i - 1) + j \in 1..Len(raw_message)
  <2> DEFINE l == Len(typed[i])
             e == EndOf(i - 1)
             f == EndOf(i)
  <2>1. l \in Nat /\ e \in Nat /\ f = e + l /\ f <= Len(raw_message) /\ j \in 1..l
    BY <1>1, <1>3, <1>4
  <2> HIDE DEF l, e, f
  <2>2. e + j \in 1..Len(raw_message)
    BY <1>1, <2>1
  <2> QED BY <2>2 DEF e
<1>7. 1 \in 1..Len(typed[i])
  BY <1>3
<1> QED BY <1>1, <1>2, <1>3, <1>4, <1>5, <1>6, <1>7

LEMMA CommandStarts == CommandInit => CommandIInv
<1> SUFFICES ASSUME CommandInit PROVE CommandIInv
  OBVIOUS
<1>1. typed = <<>> /\ raw_message = <<>> /\ ends = <<>>
  BY DEF CommandInit
<1>2. EndOf(0) = 0
  BY DEF EndOf
<1>3. CommandTypes
  BY <1>1 DEF CommandTypes
<1>4. EndsOrdered
  BY <1>1, <1>2 DEF EndsOrdered
<1>5. BytesInPlace
  BY <1>1 DEF BytesInPlace
<1> QED BY <1>3, <1>4, <1>5 DEF CommandIInv

LEMMA TypeStep ==
    ASSUME CommandIInv, Type
    PROVE  CommandIInv'
<1> DEFINE n == Len(typed)
           len == Len(raw_message)
           NewEnd(i) == IF i = 0 THEN 0 ELSE ends'[i]
<1>1. PICK ch \in Characters : /\ typed' = Append(typed, ch)
                               /\ raw_message' = raw_message \o ch
                               /\ ends' = Append(ends, len + Len(ch))
  BY DEF Type
<1>2. /\ ch \in Seq(Byte) /\ Len(ch) \in Nat /\ Len(ch) >= 1
  BY CharacterFacts
<1>3. /\ typed \in Seq(Characters) /\ raw_message \in Seq(Byte)
      /\ ends \in Seq(Nat) /\ Len(ends) = n /\ n \in Nat /\ len \in Nat
  BY DEF CommandIInv, CommandTypes
<1>4. /\ typed' \in Seq(Characters) /\ Len(typed') = n + 1
      /\ \A i \in 1..n + 1 : typed'[i] = IF i = n + 1 THEN ch ELSE typed[i]
  BY <1>1, <1>3
<1>5. /\ raw_message' \in Seq(Byte) /\ Len(raw_message') = len + Len(ch)
      /\ \A p \in 1..len : raw_message'[p] = raw_message[p]
      /\ \A j \in 1..Len(ch) : raw_message'[len + j] = ch[j]
  BY <1>1, <1>2, <1>3
<1>6. /\ ends' \in Seq(Nat) /\ Len(ends') = n + 1
      /\ \A i \in 1..n + 1 : ends'[i] = IF i = n + 1 THEN len + Len(ch) ELSE ends[i]
  <2>1. len + Len(ch) \in Nat
    BY <1>2, <1>3
  <2> QED BY <1>1, <1>3, <2>1
<1>7. \A i \in 0..n : NewEnd(i) = EndOf(i)
  BY <1>3, <1>6 DEF EndOf
<1>8. NewEnd(n + 1) = len + Len(ch)
  <2>1. n + 1 \in 1..n + 1 /\ n + 1 # 0
    BY <1>3
  <2> QED BY <1>6, <2>1
<1>9. /\ \A i \in 0..n : EndOf(i) \in 0..len
      /\ \A i \in 0..n : \A k \in 0..n : i < k => EndOf(i) < EndOf(k)
      /\ EndOf(n) = len
      /\ \A i \in 1..n : EndOf(i) = EndOf(i - 1) + Len(typed[i])
  BY DEF CommandIInv, EndsOrdered
<1>10. /\ \A i \in 1..n : \A j \in 1..Len(typed[i]) : raw_message[EndOf(i - 1) + j] = typed[i][j]
       /\ \A p \in 1..len : \E i \in 1..n : \E j \in 1..Len(typed[i]) : p = EndOf(i - 1) + j
  BY DEF CommandIInv, BytesInPlace
<1>11. CommandTypes'
  BY <1>4, <1>5, <1>6 DEF CommandTypes
<1> HIDE DEF n, len, NewEnd
<1>12. EndsOrdered'
  <2>1. ASSUME NEW i \in 0..n + 1 PROVE NewEnd(i) \in 0..len + Len(ch)
    <3>1. CASE i = n + 1
      BY <1>2, <1>3, <1>8, <3>1
    <3>2. CASE i # n + 1
      <4>1. i \in 0..n
        BY <1>3, <3>2
      <4>2. NewEnd(i) \in 0..len
        BY <1>7, <1>9, <4>1
      <4> QED BY <1>2, <1>3, <4>2
    <3> QED BY <3>1, <3>2
  <2>2. ASSUME NEW i \in 0..n + 1, NEW k \in 0..n + 1, i < k PROVE NewEnd(i) < NewEnd(k)
    <3>1. CASE k = n + 1
      <4>1. NewEnd(i) \in 0..len
        BY <1>3, <1>7, <1>9, <2>2, <3>1
      <4> QED BY <1>2, <1>3, <1>8, <3>1, <4>1
    <3>2. CASE k # n + 1
      <4>1. k \in 0..n /\ i \in 0..n
        BY <1>3, <2>2, <3>2
      <4> QED BY <1>7, <1>9, <2>2, <4>1
    <3> QED BY <3>1, <3>2
  <2>3. ASSUME NEW i \in 1..n + 1 PROVE NewEnd(i) = NewEnd(i - 1) + Len(typed'[i])
    <3>1. CASE i = n + 1
      <4>1. NewEnd(i) = len + Len(ch) /\ typed'[i] = ch
        BY <1>3, <1>4, <1>8, <3>1
      <4>2. i - 1 \in 0..n /\ i - 1 = n
        BY <1>3, <3>1
      <4>3. NewEnd(i - 1) = len
        BY <1>7, <1>9, <4>2
      <4> QED BY <4>1, <4>3
    <3>2. CASE i # n + 1
      <4>1. i \in 1..n /\ i - 1 \in 0..n /\ i \in 0..n
        BY <1>3, <3>2
      <4>2. typed'[i] = typed[i]
        BY <1>4, <3>2
      <4> QED BY <1>7, <1>9, <4>1, <4>2
    <3> QED BY <3>1, <3>2
  <2> QED BY <1>4, <1>5, <1>8, <2>1, <2>2, <2>3 DEF EndsOrdered, EndOf, NewEnd
<1>13. BytesInPlace'
  <2>1. ASSUME NEW i \in 1..n + 1, NEW j \in 1..Len(typed'[i])
        PROVE  raw_message'[NewEnd(i - 1) + j] = typed'[i][j]
    <3>1. CASE i = n + 1
      <4>1. i - 1 = n /\ n \in 0..n /\ typed'[i] = ch
        BY <1>3, <1>4, <3>1
      <4>2. NewEnd(i - 1) = len
        BY <1>7, <1>9, <4>1
      <4> QED BY <1>5, <4>1, <4>2
    <3>2. CASE i # n + 1
      <4>1. i \in 1..n /\ i - 1 \in 0..n /\ i \in 0..n /\ typed'[i] = typed[i]
        BY <1>3, <1>4, <3>2
      <4>2. NewEnd(i - 1) = EndOf(i - 1)
        BY <1>7, <4>1
      <4>3. EndOf(i - 1) + j \in 1..len
        BY <4>1, CharacterAt DEF n, len
      <4> QED BY <1>5, <1>10, <4>1, <4>2, <4>3
    <3> QED BY <3>1, <3>2
  <2>2. ASSUME NEW p \in 1..len + Len(ch)
        PROVE  \E i \in 1..n + 1 : \E j \in 1..Len(typed'[i]) : p = NewEnd(i - 1) + j
    <3>1. CASE p <= len
      <4>1. PICK i \in 1..n : \E j \in 1..Len(typed[i]) : p = EndOf(i - 1) + j
        BY <1>3, <1>10, <3>1
      <4>2. i \in 1..n + 1 /\ i - 1 \in 0..n /\ typed'[i] = typed[i]
        BY <1>3, <1>4
      <4>3. NewEnd(i - 1) = EndOf(i - 1)
        BY <1>7, <4>2
      <4> QED BY <4>1, <4>2, <4>3
    <3>2. CASE p > len
      <4> DEFINE i == n + 1
                 j == p - len
      <4>1. i \in 1..n + 1 /\ i - 1 = n /\ n \in 0..n /\ typed'[i] = ch /\ j \in 1..Len(ch)
        BY <1>2, <1>3, <1>4, <3>2
      <4>2. NewEnd(i - 1) = len
        BY <1>7, <1>9, <4>1
      <4>3. p = NewEnd(i - 1) + j
        BY <1>3, <4>2
      <4> HIDE DEF i, j
      <4> QED BY <4>1, <4>3
    <3> QED BY <1>3, <3>1, <3>2
  <2> QED BY <1>4, <1>5, <2>1, <2>2 DEF BytesInPlace, EndOf, NewEnd
<1> QED BY <1>11, <1>12, <1>13 DEF CommandIInv

(* The bytes of what is typed are its characters, in order.                *)
THEOREM CommandInvariance == CommandSpec => []CommandIInv
<1>1. CommandIInv /\ [Type]_commandVars => CommandIInv'
  <2> SUFFICES ASSUME CommandIInv, UNCHANGED commandVars PROVE CommandIInv'
    BY TypeStep
  <2>1. UNCHANGED <<typed, raw_message, ends>>
    BY DEF commandVars
  <2>2. CommandTypes'
    BY <2>1 DEF CommandIInv, CommandTypes
  <2>3. EndsOrdered'
    BY <2>1 DEF CommandIInv, EndsOrdered, EndOf
  <2>4. BytesInPlace'
    BY <2>1 DEF CommandIInv, BytesInPlace, EndOf
  <2> QED BY <2>2, <2>3, <2>4 DEF CommandIInv
<1> QED BY <1>1, CommandStarts, PTL DEF CommandSpec

-----------------------------------------------------------------------------

\* Where a character of one byte begins is that character.
LEMMA ByteIsCharacter ==
    ASSUME CommandIInv, NEW i \in 1..Len(typed), NEW b \in Nat, b < 128
    PROVE  raw_message[EndOf(i - 1) + 1] = b <=> typed[i] = <<b>>
<1>1. /\ typed[i] \in Characters /\ raw_message[EndOf(i - 1) + 1] = typed[i][1]
      /\ 1 \in 1..Len(typed[i])
  BY CharacterAt
<1>2. typed[i][1] < 128 => typed[i] = <<typed[i][1]>>
  BY <1>1, CharacterFacts
<1>3. ASSUME typed[i] = <<b>> PROVE typed[i][1] = b
  BY <1>3
<1>4. ASSUME typed[i][1] = b PROVE typed[i] = <<b>>
  <2>1. typed[i][1] < 128
    BY <1>4
  <2> QED BY <1>2, <1>4, <2>1
<1> QED BY <1>1, <1>3, <1>4

\* The code finds the mark that the user typed, with all its bytes.
LEMMA MarkFound ==
    ASSUME CommandIInv
    PROVE  /\ start_pos(raw_message) > 0 <=> Len(typed) > 0 /\ typed[1] \in Marks
           /\ Len(typed) > 0 /\ typed[1] \in Marks => start_pos(raw_message) = EndOf(1)
           /\ start_pos(raw_message) \in Nat
<1> DEFINE raw == raw_message
<1>1. raw \in Seq(Byte) /\ Len(raw) \in Nat /\ typed \in Seq(Characters) /\ Len(typed) \in Nat
  BY DEF CommandIInv, CommandTypes
<1>2. EndOf(0) = 0
  BY DEF EndOf
<1>0. Mark \in Seq(Nat) /\ Slash \in Seq(Nat) /\ WideMark \in Seq(Nat)
  BY DEF Mark, Slash, WideMark
<1>3. /\ Len(Mark) = 1 /\ Mark[1] = 33 /\ Len(Slash) = 1 /\ Slash[1] = 47
      /\ Len(WideMark) = 3 /\ WideMark[1] = 239 /\ WideMark[2] = 188 /\ WideMark[3] = 129
  BY DEF Mark, Slash, WideMark
<1>4. raw \in Seq(Nat)
  BY <1>1 DEF Byte
<1>5. /\ StartsWith(raw, Mark) <=> 1 <= Len(raw) /\ raw[1] = 33
      /\ StartsWith(raw, Slash) <=> 1 <= Len(raw) /\ raw[1] = 47
      /\ StartsWith(raw, WideMark) <=>
             3 <= Len(raw) /\ raw[1] = 239 /\ raw[2] = 188 /\ raw[3] = 129
  <2>1. StartsWith(raw, Mark) <=> /\ Len(Mark) <= Len(raw)
                                  /\ \A i \in 1..Len(Mark) : raw[i] = Mark[i]
    BY Zenon, <1>0, <1>4, StartsWithBytes
  <2>2. StartsWith(raw, Slash) <=> /\ Len(Slash) <= Len(raw)
                                   /\ \A i \in 1..Len(Slash) : raw[i] = Slash[i]
    BY Zenon, <1>0, <1>4, StartsWithBytes
  <2>3. StartsWith(raw, WideMark) <=> /\ Len(WideMark) <= Len(raw)
                                      /\ \A i \in 1..Len(WideMark) : raw[i] = WideMark[i]
    BY Zenon, <1>0, <1>4, StartsWithBytes
  <2>4. 1..1 = {1} /\ 1..3 = {1, 2, 3}
    OBVIOUS
  <2> QED BY <1>3, <2>1, <2>2, <2>3, <2>4
<1>6. CASE Len(typed) = 0
  <2>1. Len(raw) = 0
    BY <1>1, <1>2, <1>6 DEF CommandIInv, EndsOrdered
  <2> QED BY <1>5, <1>6, <2>1 DEF start_pos
<1>7. CASE Len(typed) > 0
  <2> DEFINE ch == typed[1]
             len == Len(ch)
  <2>0. 1 \in 1..Len(typed) /\ 1 - 1 = 0
    BY <1>1, <1>7
  <2>1. /\ ch \in Characters /\ ch \in Seq(Byte) /\ len \in Nat /\ len >= 1
        /\ EndOf(1) = len /\ len <= Len(raw)
        /\ \A j \in 1..len : raw[j] = ch[j]
    <3>1. \A i \in 1..Len(typed) :
              /\ typed[i] \in Characters /\ typed[i] \in Seq(Byte)
              /\ Len(typed[i]) \in Nat /\ Len(typed[i]) >= 1
              /\ EndOf(i) = EndOf(i - 1) + Len(typed[i]) /\ EndOf(i) <= Len(raw)
              /\ \A j \in 1..Len(typed[i]) : raw[EndOf(i - 1) + j] = typed[i][j]
      BY CharacterAt
    <3>2. /\ ch \in Characters /\ ch \in Seq(Byte) /\ len \in Nat /\ len >= 1
          /\ EndOf(1) = EndOf(0) + len /\ EndOf(1) <= Len(raw)
          /\ \A j \in 1..len : raw[EndOf(0) + j] = ch[j]
      BY <2>0, <3>1
    <3> HIDE DEF ch, len
    <3>3. \A j \in 1..len : 0 + j = j
      OBVIOUS
    <3> QED BY <1>2, <3>2, <3>3
  <2>2. raw[1] = ch[1]
    BY <2>1
  <2>3. ch = <<33>> <=> raw[1] = 33
    BY <1>2, <2>0, ByteIsCharacter
  <2>4. ch = <<47>> <=> raw[1] = 47
    BY <1>2, <2>0, ByteIsCharacter
  <2>5. ch[1] = 239 => len = 3
    BY <2>1, CharacterFacts
  <2>6. ch = WideMark <=> StartsWith(raw, WideMark)
    <3>1. ASSUME ch = WideMark PROVE StartsWith(raw, WideMark)
      <4>1. len = 3 /\ ch[1] = 239 /\ ch[2] = 188 /\ ch[3] = 129
        BY <1>3, <3>1
      <4> HIDE DEF ch, len
      <4> QED BY <1>1, <1>5, <2>1, <4>1
    <3>2. ASSUME StartsWith(raw, WideMark) PROVE ch = WideMark
      <4>1. raw[1] = 239 /\ raw[2] = 188 /\ raw[3] = 129
        BY <1>5, <3>2
      <4>2. len = 3
        BY <2>2, <2>5, <4>1
      <4>3. ch[1] = 239 /\ ch[2] = 188 /\ ch[3] = 129
        BY <2>1, <4>1, <4>2
      <4>4. ch \in Seq(Nat)
        BY <2>1 DEF Byte
      <4>5. \A i \in 1..Len(ch) : ch[i] = WideMark[i]
        <5> HIDE DEF ch, len
        <5>1. \A i \in 1..3 : i = 1 \/ i = 2 \/ i = 3
          OBVIOUS
        <5>2. Len(ch) = 3
          BY <4>2 DEF len
        <5> QED BY <1>3, <4>3, <5>1, <5>2
      <4>6. Len(ch) = Len(WideMark)
        BY <1>3, <4>2
      <4> HIDE DEF ch, len
      <4> QED BY Zenon, <1>0, <4>4, <4>5, <4>6, SeqEqual
    <3> QED BY <3>1, <3>2
  <2>7. start_pos(raw) = IF ch = Mark \/ ch = Slash THEN 1 ELSE IF ch = WideMark THEN 3 ELSE 0
    <3>1. StartsWith(raw, Mark) <=> ch = Mark
      BY <1>1, <1>5, <2>1, <2>3 DEF Mark
    <3>2. StartsWith(raw, Slash) <=> ch = Slash
      BY <1>1, <1>5, <2>1, <2>4 DEF Slash
    <3> QED BY <2>6, <3>1, <3>2 DEF start_pos
  <2>8. ch = Mark => len = 1
    BY <1>3
  <2>9. ch = Slash => len = 1
    BY <1>3
  <2>10. ch = WideMark => len = 3
    BY <1>3
  <2> HIDE DEF ch, len
  <2> QED BY <1>7, <2>1, <2>7, <2>8, <2>9, <2>10 DEF Marks, ch
<1> QED BY <1>1, <1>6, <1>7

\* As many characters as the command has, each its byte: at a known place.
LEMMA CommandPlaced ==
    ASSUME CommandIInv, Len(typed) > 0, NEW k \in 0..Len(command), Len(typed) > k,
           \A i \in 1..k : typed[i + 1] = <<command[i]>>
    PROVE  EndOf(k + 1) = EndOf(1) + k
<1> DEFINE S == {n \in Nat : n <= k => EndOf(n + 1) = EndOf(1) + n}
<1>1. Len(typed) \in Nat /\ k \in Nat
  BY DEF CommandIInv, CommandTypes
<1>2. 0 \in S
  <2>1. EndOf(1) \in Nat
    <3>1. 1 \in 1..Len(typed)
      BY <1>1
    <3> QED BY <3>1, CharacterAt
  <2> QED BY <2>1
<1>3. ASSUME NEW n \in Nat, n \in S PROVE n + 1 \in S
  <2> SUFFICES ASSUME n + 1 <= k PROVE EndOf((n + 1) + 1) = EndOf(1) + (n + 1)
    OBVIOUS
  <2>1. EndOf(n + 1) = EndOf(1) + n
    BY <1>1, <1>3
  <2>2. n + 1 \in 1..k /\ (n + 1) + 1 \in 1..Len(typed) /\ ((n + 1) + 1) - 1 = n + 1
    BY <1>1
  <2>3. typed[(n + 1) + 1] = <<command[n + 1]>>
    BY <2>2
  <2>4. Len(typed[(n + 1) + 1]) = 1
    BY <2>3
  <2>5. EndOf((n + 1) + 1) = EndOf(((n + 1) + 1) - 1) + Len(typed[(n + 1) + 1])
    BY <2>2, CharacterAt
  <2>6. EndOf((n + 1) + 1) = EndOf(n + 1) + 1
    BY <2>2, <2>4, <2>5
  <2>7. EndOf(1) \in Nat
    <3>1. 1 \in 1..Len(typed)
      BY <1>1
    <3> QED BY <3>1, CharacterAt
  <2> QED BY <2>1, <2>6, <2>7
<1> HIDE DEF S
<1>4. Nat \subseteq S
  BY <1>2, <1>3, AllNumbers
<1> QED BY <1>1, <1>4 DEF S

\* The command is found where it was typed.
LEMMA CommandFound ==
    ASSUME CommandIInv, Len(typed) > 0, typed[1] \in Marks
    PROVE  LET rest == SubSeq(raw_message, EndOf(1) + 1, Len(raw_message))
           IN  StartsWith(rest, command) <=> IsCommand
<1> DEFINE raw == raw_message
           e == EndOf(1)
           len == Len(command)
           total == Len(raw)
           n == Len(typed)
           rest == SubSeq(raw, e + 1, total)
<1>1. /\ raw \in Seq(Byte) /\ total \in Nat /\ n \in Nat /\ EndOf(n) = total
      /\ \A i \in 0..n : \A k \in 0..n : i < k => EndOf(i) < EndOf(k)
  BY DEF CommandIInv, CommandTypes, EndsOrdered
<1>2. /\ command \in Seq(Nat) /\ len \in Nat
      /\ \A i \in 1..len : command[i] \in Nat /\ command[i] < 128
  <2>1. command \in Seq(ASCII)
    BY CommandsAssumption
  <2>2. \A i \in 1..len : command[i] \in ASCII
    BY <2>1
  <2> QED BY <2>1, <2>2 DEF ASCII
<1>3. e \in Nat /\ e <= total
  <2>1. 1 \in 1..n
    BY <1>1
  <2> QED BY <2>1, CharacterAt
<1>4. raw \in Seq(Nat)
  BY <1>1 DEF Byte
<1>5. /\ rest \in Seq(Nat) /\ Len(rest) = total - e
      /\ \A i \in 1..total - e : rest[i] = raw[e + i]
  <2> HIDE DEF e
  <2>1. /\ e + 1 \in 1..total + 1 /\ total \in (e + 1) - 1..total
        /\ total - (e + 1) + 1 = total - e
        /\ \A i \in 1..total - e : (e + 1) + i - 1 = e + i
    BY <1>1, <1>3
  <2> DEFINE m == e + 1
  <2>2. /\ SubSeq(raw, m, total) \in Seq(Nat) /\ Len(SubSeq(raw, m, total)) = total - m + 1
        /\ \A i \in 1..total - m + 1 : SubSeq(raw, m, total)[i] = raw[m + i - 1]
    <3> HIDE DEF m
    <3>1. m \in 1..total + 1 /\ total \in m - 1..total
      BY <2>1 DEF m
    <3> QED BY <1>4, <3>1, Part
  <2> QED BY <2>1, <2>2
<1> HIDE DEF rest
<1>6. StartsWith(rest, command) <=> /\ len <= total - e
                                    /\ \A i \in 1..len : raw[e + i] = command[i]
  <2>1. StartsWith(rest, command) <=> /\ len <= Len(rest)
                                      /\ \A i \in 1..len : rest[i] = command[i]
    BY Zenon, <1>2, <1>5, StartsWithBytes
  <2> HIDE DEF e, len, total
  <2>2. ASSUME len <= total - e, NEW i \in 1..len PROVE rest[i] = raw[e + i]
    BY <1>1, <1>2, <1>3, <1>5, <2>2
  <2> QED BY <1>5, <2>1, <2>2
<1>7. ASSUME IsCommand PROVE StartsWith(rest, command)
  <2>1. n > len /\ \A i \in 1..len : typed[i + 1] = <<command[i]>>
    BY <1>7 DEF IsCommand
  <2>2. ASSUME NEW i \in 0..len PROVE EndOf(i + 1) = e + i
    <3>1. n > i
      <4> HIDE DEF n, len
      <4> QED BY <1>1, <1>2, <2>1
    <3>2. \A k \in 1..i : k \in 1..len
      <4> HIDE DEF len
      <4> QED BY <1>2
    <3>3. \A k \in 1..i : typed[k + 1] = <<command[k]>>
      BY Zenon, <2>1, <3>2
    <3> QED BY <3>1, <3>3, CommandPlaced
  <2>3. ASSUME NEW i \in 1..len PROVE raw[e + i] = command[i]
    <3>1. i + 1 \in 1..n /\ i - 1 \in 0..len /\ (i + 1) - 1 = i /\ (i - 1) + 1 = i
      BY <1>1, <1>2, <2>1
    <3>2. raw[EndOf((i + 1) - 1) + 1] = command[i]
      BY <1>2, <2>1, <3>1, ByteIsCharacter
    <3>3. EndOf((i - 1) + 1) = e + (i - 1)
      BY <2>2, <3>1
    <3>4. EndOf(i) + 1 = e + i
      BY <1>3, <3>1, <3>3
    <3> QED BY <3>1, <3>2, <3>4
  <2>4. len <= total - e
    <3>0. len \in 0..len /\ len + 1 \in 1..n
      BY <1>1, <1>2, <2>1
    <3>1. EndOf(len + 1) = e + len /\ len + 1 \in 1..n
      BY <2>2, <3>0
    <3>2. EndOf(len + 1) <= total
      BY <3>1, CharacterAt
    <3> HIDE DEF e, len, total
    <3> QED BY <1>1, <1>2, <1>3, <3>1, <3>2
  <2> QED BY <1>6, <2>3, <2>4
<1>8. ASSUME StartsWith(rest, command) PROVE IsCommand
  <2> DEFINE Found(k) == n > k /\ \A i \in 1..k : typed[i + 1] = <<command[i]>>
             S == {k \in Nat : k <= len => Found(k)}
  <2>0. Found(0)
    BY <1>1
  <2> HIDE DEF Found
  <2>1. 0 \in S
    BY <2>0
  <2>2. ASSUME NEW k \in Nat, k \in S PROVE k + 1 \in S
    <3> SUFFICES ASSUME k + 1 <= len PROVE Found(k + 1)
      OBVIOUS
    <3>0. k \in 0..len /\ k + 1 \in 1..len /\ Found(k)
      BY <1>2, <2>2
    <3>1. /\ k \in 0..len /\ k + 1 \in 1..len /\ n > k
          /\ \A i \in 1..k : typed[i + 1] = <<command[i]>>
      BY <3>0 DEF Found
    <3>2. EndOf(k + 1) = e + k
      BY <3>1, CommandPlaced
    <3>3. len <= total - e /\ raw[e + (k + 1)] = command[k + 1]
      BY <1>6, <1>8, <3>1
    <3>4. n > k + 1
      <4>1. e + k < total
        <5> HIDE DEF e, len, total
        <5> QED BY <1>1, <1>2, <1>3, <3>1, <3>3
      <4>2. k + 1 # n
        BY <1>1, <3>2, <4>1
      <4> QED BY <1>1, <3>1, <4>2
    <3>5. (k + 1) + 1 \in 1..n /\ ((k + 1) + 1) - 1 = k + 1
      BY <1>1, <3>4
    <3>6. EndOf(((k + 1) + 1) - 1) + 1 = e + (k + 1)
      BY <1>3, <3>2, <3>5
    <3>7. typed[(k + 1) + 1] = <<command[k + 1]>>
      <4>1. raw[EndOf(((k + 1) + 1) - 1) + 1] = command[k + 1]
        BY <3>3, <3>6
      <4> QED BY <1>2, <3>1, <3>5, <4>1, ByteIsCharacter
    <3> QED BY <3>1, <3>4, <3>7 DEF Found
  <2> HIDE DEF S
  <2>3. Nat \subseteq S
    BY <2>1, <2>2, AllNumbers
  <2>4. n > len /\ \A i \in 1..len : typed[i + 1] = <<command[i]>>
    BY <1>2, <2>3 DEF S, Found
  <2> QED BY <2>4 DEF IsCommand
<1> QED BY <1>7, <1>8 DEF rest

\* What follows the command, if there is one.
LEMMA CommandSplit ==
    ASSUME CommandIInv
    PROVE  LET value == splitCommandStart(raw_message)
               start == Len(command) + 1
           IN  /\ value # NoCommand <=> IsCommand
               /\ checkCommandStart(raw_message) <=> IsCommand
               /\ IsCommand => /\ start \in 1..Len(typed)
                               /\ value = BytesOf(start, Len(typed))
<1> DEFINE raw == raw_message
           e == EndOf(1)
           len == Len(command)
           total == Len(raw)
           n == Len(typed)
           pos == start_pos(raw)
           rest == SubSeq(raw, pos + 1, total)
           value == splitCommandStart(raw)
<1>1. /\ raw \in Seq(Byte) /\ total \in Nat /\ n \in Nat /\ EndOf(n) = total
  BY DEF CommandIInv, CommandTypes, EndsOrdered
<1>2. len \in Nat
  BY CommandsAssumption
<1>3. /\ pos > 0 <=> n > 0 /\ typed[1] \in Marks
      /\ n > 0 /\ typed[1] \in Marks => pos = e
      /\ pos \in Nat
  BY MarkFound
<1>4. IsCommand => n > 0 /\ typed[1] \in Marks
  BY <1>1, <1>2 DEF IsCommand
<1>5. pos > 0 /\ StartsWith(rest, command) <=> IsCommand
  <2>1. CASE n > 0 /\ typed[1] \in Marks
    <3>1. pos = e /\ pos > 0
      BY <1>3, <2>1
    <3>2. StartsWith(SubSeq(raw, e + 1, total), command) <=> IsCommand
      BY <2>1, CommandFound
    <3> QED BY <3>1, <3>2
  <2>2. CASE ~(n > 0 /\ typed[1] \in Marks)
    BY <1>3, <1>4, <2>2
  <2> QED BY <2>1, <2>2
<1>6. check_pos(raw) = pos
  BY DEF check_pos, start_pos
<1>7. checkCommandStart(raw) <=> IsCommand
  BY <1>5, <1>6 DEF checkCommandStart
<1>8. ASSUME ~IsCommand PROVE value = NoCommand
  BY <1>5, <1>8 DEF splitCommandStart
<1>9. ASSUME IsCommand
      PROVE  /\ len + 1 \in 1..n /\ value = BytesOf(len + 1, n) /\ value \in Seq(Byte)
  <2>1. /\ n > 0 /\ typed[1] \in Marks /\ n > len /\ pos = e
        /\ \A i \in 1..len : typed[i + 1] = <<command[i]>>
    BY <1>3, <1>4, <1>9 DEF IsCommand
  <2>2. EndOf(len + 1) = e + len
    <3>1. len \in 0..len
      BY <1>2
    <3> QED BY <2>1, <3>1, CommandPlaced
  <2>3. len + 1 \in 1..n /\ 1 \in 1..n
    BY <1>1, <1>2, <2>1
  <2>4. e \in Nat /\ EndOf(len + 1) <= total /\ e <= total
    BY <2>3, CharacterAt
  <2>5. value = SubSeq(rest, len + 1, Len(rest))
    BY <1>5, <1>9 DEF splitCommandStart
  <2> HIDE DEF value, e, len, total
  <2>6. /\ e + 1 \in 1..total + 1 /\ total \in (e + 1) - 1..total
        /\ total - (e + 1) + 1 = total - e /\ e + len <= total
    BY <1>1, <1>2, <2>2, <2>4
  <2>7. Len(rest) = total - e
    <3> DEFINE m == e + 1
    <3>1. m \in 1..total + 1 /\ total \in m - 1..total /\ total - m + 1 = total - e
      BY <2>6
    <3> HIDE DEF m
    <3>2. Len(SubSeq(raw, m, total)) = total - m + 1
      BY <1>1, <3>1, Part DEF total
    <3> QED BY <2>1, <3>1, <3>2 DEF m
  <2>8. SubSeq(SubSeq(raw, e + 1, total), len + 1, total - e)
            = SubSeq(raw, (e + 1) + (len + 1) - 1, (e + 1) + (total - e) - 1)
    <3> DEFINE m == e + 1
               a == len + 1
               b == total - e
    <3>1. /\ m \in 1..total + 1 /\ total \in m - 1..total
          /\ a \in 1..total - m + 2 /\ b \in a - 1..total - m + 1
      BY <1>1, <1>2, <2>4, <2>6
    <3> HIDE DEF m, a, b
    <3>2. SubSeq(SubSeq(raw, m, total), a, b) = SubSeq(raw, m + a - 1, m + b - 1)
      BY <1>1, <3>1, PartOfPart DEF total
    <3> QED BY <3>2 DEF m, a, b
  <2>9. /\ (e + 1) + (len + 1) - 1 = (e + len) + 1
        /\ (e + 1) + (total - e) - 1 = total
    BY <1>1, <1>2, <2>4
  <2>10. value = SubSeq(raw, (e + len) + 1, total)
    BY <2>1, <2>5, <2>7, <2>8, <2>9
  <2>11. value \in Seq(Byte)
    <3> DEFINE m == (e + len) + 1
    <3>1. m \in 1..total + 1 /\ total \in m - 1..total
      BY <1>1, <1>2, <2>4, <2>6
    <3> HIDE DEF m
    <3>2. SubSeq(raw, m, total) \in Seq(Byte)
      BY <1>1, <3>1, Part DEF total
    <3> QED BY <2>10, <3>2 DEF m
  <2>12. value = BytesOf(len + 1, n)
    BY <1>1, <2>2, <2>10 DEF BytesOf
  <2> QED BY <2>3, <2>11, <2>12 DEF len
<1>10. NoCommand \notin Seq(Byte)
  BY CommandsAssumption
<1> QED BY <1>7, <1>8, <1>9, <1>10

\* Later characters end later.
LEMMA EndsGrow ==
    ASSUME CommandIInv, NEW i \in 0..Len(typed), NEW k \in 0..Len(typed), i <= k
    PROVE  /\ EndOf(i) \in Nat /\ EndOf(k) \in Nat /\ EndOf(i) <= EndOf(k)
           /\ i < k => EndOf(i) < EndOf(k)
<1>1. Len(raw_message) \in Nat
  BY DEF CommandIInv, CommandTypes
<1>2. /\ EndOf(i) \in 0..Len(raw_message) /\ EndOf(k) \in 0..Len(raw_message)
      /\ i < k => EndOf(i) < EndOf(k)
  BY DEF CommandIInv, EndsOrdered
<1>3. i = k \/ i < k
  BY DEF CommandIInv, CommandTypes
<1> QED BY <1>1, <1>2, <1>3

\* A character is a blank if it begins with the byte of one.
LEMMA BlankCharacter ==
    ASSUME CommandIInv, NEW i \in 1..Len(typed)
    PROVE  typed[i] \in Blank <=> raw_message[EndOf(i - 1) + 1] \in {Space, Newline}
<1>1. \A b \in Nat : b < 128 => (raw_message[EndOf(i - 1) + 1] = b <=> typed[i] = <<b>>)
  BY ByteIsCharacter
<1>2. 32 \in Nat /\ 32 < 128 /\ 10 \in Nat /\ 10 < 128
  OBVIOUS
<1> QED BY <1>1, <1>2 DEF Blank, Space, Newline

\* The bytes of a longer character are no blanks.
LEMMA LongCharacter ==
    ASSUME CommandIInv, NEW i \in 1..Len(typed), Len(typed[i]) > 1,
           NEW j \in 1..Len(typed[i])
    PROVE  raw_message[EndOf(i - 1) + j] \notin {Space, Newline}
<1>1. typed[i] \in Characters /\ raw_message[EndOf(i - 1) + j] = typed[i][j]
      /\ Len(typed[i]) \in Nat
  BY CharacterAt
<1>2. typed[i][j] \in Int /\ (typed[i][j] < 128 => Len(typed[i]) = 1)
  BY <1>1, CharacterFacts
<1>3. typed[i][j] >= 128
  <2> DEFINE l == Len(typed[i])
  <2>1. l \in Nat /\ l > 1 /\ (typed[i][j] < 128 => l = 1)
    BY <1>1, <1>2
  <2> HIDE DEF l
  <2> QED BY <1>2, <2>1
<1> QED BY <1>1, <1>2, <1>3 DEF Space, Newline

\* Every byte after some characters belongs to one of the others.
LEMMA CharacterOf ==
    ASSUME CommandIInv, NEW start \in 0..Len(typed),
           NEW p \in 1..Len(raw_message) - EndOf(start)
    PROVE  \E i \in start + 1..Len(typed) : \E j \in 1..Len(typed[i]) :
               EndOf(start) + p = EndOf(i - 1) + j
<1> DEFINE s == EndOf(start)
           n == Len(typed)
<1>1. n \in Nat /\ Len(raw_message) \in Nat /\ s \in Nat
  BY EndsGrow DEF CommandIInv, CommandTypes
<1>2. s + p \in 1..Len(raw_message)
  BY <1>1
<1>3. PICK i \in 1..n : \E j \in 1..Len(typed[i]) : s + p = EndOf(i - 1) + j
  BY <1>2 DEF CommandIInv, BytesInPlace
<1>4. PICK j \in 1..Len(typed[i]) : s + p = EndOf(i - 1) + j
  BY <1>3
<1>5. ~(i <= start)
  <2> SUFFICES ASSUME i <= start PROVE FALSE
    OBVIOUS
  <2>1. EndOf(i) <= s
    BY <1>1, EndsGrow
  <2>2. /\ EndOf(i) = EndOf(i - 1) + Len(typed[i]) /\ Len(typed[i]) \in Nat
        /\ EndOf(i - 1) \in Nat /\ EndOf(i) \in Nat
    BY CharacterAt
  <2> DEFINE l == Len(typed[i])
  <2>3. l \in Nat /\ j \in 1..l /\ EndOf(i) = EndOf(i - 1) + l
    BY <2>2
  <2> HIDE DEF s, l
  <2> QED BY <1>1, <1>4, <2>1, <2>2, <2>3
<1>6. i \in start + 1..n
  BY <1>1, <1>5
<1> QED BY <1>4, <1>6

\* What trim leaves is whole characters, without the blanks around them.
LEMMA TrimMeant ==
    ASSUME CommandIInv, NEW start \in 0..Len(typed)
    PROVE  \E a \in start..Len(typed) : \E b \in a..Len(typed) :
               /\ \A i \in (start + 1..a) \cup (b + 1..Len(typed)) : typed[i] \in Blank
               /\ a < b => typed[a + 1] \notin Blank /\ typed[b] \notin Blank
               /\ trim(BytesOf(start, Len(typed))) = BytesOf(a, b)
<1> DEFINE raw == raw_message
           n == Len(typed)
           s == EndOf(start)
           total == Len(raw)
           m == s + 1
           len == total - s
           bytes == SubSeq(raw, m, total)
           kept == {p \in DOMAIN bytes : bytes[p] \notin {Space, Newline}}
<1>1. /\ raw \in Seq(Byte) /\ n \in Nat /\ total \in Nat /\ EndOf(n) = total /\ n \in 0..n
  BY DEF CommandIInv, CommandTypes, EndsOrdered
<1>2. s \in Nat /\ s <= total
  BY <1>1, EndsGrow
<1>3. BytesOf(start, n) = bytes
  BY <1>1 DEF BytesOf
<1>4. bytes \in Seq(Byte) /\ Len(bytes) = len /\ \A p \in 1..len : bytes[p] = raw[s + p]
  <2> HIDE DEF s
  <2>1. /\ m \in 1..total + 1 /\ total \in m - 1..total /\ total - m + 1 = len
        /\ \A p \in 1..len : m + p - 1 = s + p
    BY <1>1, <1>2
  <2> HIDE DEF m, total, len
  <2>2. /\ SubSeq(raw, m, total) \in Seq(Byte) /\ Len(SubSeq(raw, m, total)) = total - m + 1
        /\ \A p \in 1..total - m + 1 : SubSeq(raw, m, total)[p] = raw[m + p - 1]
    BY <1>1, <2>1, Part DEF total
  <2> QED BY <2>1, <2>2
<1>5. len \in Nat /\ DOMAIN bytes = 1..len
  <2> HIDE DEF s, total, bytes
  <2> QED BY <1>1, <1>2, <1>4
<1>6. \A p \in 1..len : p \in kept <=> raw[s + p] \notin {Space, Newline}
  <2> HIDE DEF s, total, bytes, len
  <2> QED BY <1>4, <1>5
<1>7. kept \subseteq 1..len
  BY <1>5
<1>8. \A i \in start + 1..n : /\ EndOf(i - 1) >= s /\ EndOf(i - 1) + 1 - s \in 1..len
                              /\ s + (EndOf(i - 1) + 1 - s) = EndOf(i - 1) + 1
  <2> SUFFICES ASSUME NEW i \in start + 1..n
               PROVE  /\ EndOf(i - 1) >= s /\ EndOf(i - 1) + 1 - s \in 1..len
                      /\ s + (EndOf(i - 1) + 1 - s) = EndOf(i - 1) + 1
    OBVIOUS
  <2>1. i \in 1..n /\ i - 1 \in 0..n /\ start <= i - 1
    BY <1>1
  <2>2. EndOf(i - 1) >= s /\ EndOf(i - 1) \in Nat
    BY <2>1, EndsGrow
  <2>3. EndOf(i - 1) + 1 \in 1..total
    <3>1. 1 \in 1..Len(typed[i])
      BY <2>1, CharacterAt
    <3> QED BY <2>1, <3>1, CharacterAt
  <2> HIDE DEF s, total
  <2> QED BY <1>1, <1>2, <2>2, <2>3
<1>9. \A i \in start + 1..n :
          typed[i] \in Blank <=> EndOf(i - 1) + 1 - s \notin kept
  <2> SUFFICES ASSUME NEW i \in start + 1..n
               PROVE  typed[i] \in Blank <=> EndOf(i - 1) + 1 - s \notin kept
    OBVIOUS
  <2>1. i \in 1..n
    BY <1>1
  <2>2. typed[i] \in Blank <=> raw[EndOf(i - 1) + 1] \in {Space, Newline}
    BY <2>1, BlankCharacter
  <2> HIDE DEF kept, s, len
  <2> QED BY <1>6, <1>8, <2>2
<1>10. CASE kept = {}
  <2>1. trim(bytes) = <<>>
    BY <1>10 DEF trim
  <2>2. BytesOf(start, start) = <<>>
    <3> HIDE DEF s
    <3>1. SubSeq(raw, s + 1, s) = <<>>
      BY <1>2, SubSeqEmpty
    <3> QED BY <3>1 DEF BytesOf, s
  <2>3. \A i \in start + 1..n : typed[i] \in Blank
    BY <1>9, <1>10
  <2>4. start \in start..n /\ start + 1..start = {} /\ ~(start < start)
    BY <1>1
  <2> HIDE DEF bytes
  <2> QED BY <1>3, <2>1, <2>2, <2>3, <2>4
<1>11. CASE kept # {}
  <2>1. PICK f \in kept : \A p \in kept : f <= p
    <3>1. kept \subseteq Nat
      BY <1>7
    <3> HIDE DEF kept
    <3> QED BY <1>11, <3>1, LeastNumber
  <2>2. PICK g \in kept : \A p \in kept : p <= g
    <3> HIDE DEF kept, len
    <3>1. kept \subseteq 0..len
      BY <1>5, <1>7
    <3> QED BY <1>5, <1>11, <3>1, GreatestNumber
  <2>3. f \in 1..len /\ g \in 1..len /\ f <= g
    BY <1>7, <2>1, <2>2
  <2>4. trim(bytes) = SubSeq(bytes, f, g)
    <3>1. trim(bytes) = SubSeq(bytes, CHOOSE i \in kept : \A k \in kept : i <= k,
                                      CHOOSE i \in kept : \A k \in kept : k <= i)
      BY <1>11 DEF trim
    <3>2. kept \subseteq Nat
      BY <1>7
    <3> HIDE DEF kept
    <3>3. (CHOOSE i \in kept : \A k \in kept : i <= k) = f
      <4> DEFINE c == CHOOSE i \in kept : \A k \in kept : i <= k
      <4>1. c \in kept /\ \A k \in kept : c <= k
        BY <2>1
      <4> HIDE DEF c
      <4>2. c <= f /\ f <= c /\ c \in Nat /\ f \in Nat
        BY <2>1, <3>2, <4>1
      <4>3. c = f
        BY <4>2
      <4> QED BY <4>3 DEF c
    <3>4. (CHOOSE i \in kept : \A k \in kept : k <= i) = g
      <4> DEFINE c == CHOOSE i \in kept : \A k \in kept : k <= i
      <4>1. c \in kept /\ \A k \in kept : k <= c
        BY <2>2
      <4> HIDE DEF c
      <4>2. c <= g /\ g <= c /\ c \in Nat /\ g \in Nat
        BY <2>2, <3>2, <4>1
      <4>3. c = g
        BY <4>2
      <4> QED BY <4>3 DEF c
    <3> QED BY <3>1, <3>3, <3>4
  <2>5a. PICK c \in start + 1..n : \E j \in 1..Len(typed[c]) : s + f = EndOf(c - 1) + j
    BY <2>3, CharacterOf
  <2>5. PICK j \in 1..Len(typed[c]) : s + f = EndOf(c - 1) + j
    BY <2>5a
  <2>6a. PICK d \in start + 1..n : \E l \in 1..Len(typed[d]) : s + g = EndOf(d - 1) + l
    BY <2>3, CharacterOf
  <2>6. PICK l \in 1..Len(typed[d]) : s + g = EndOf(d - 1) + l
    BY <2>6a
  <2>7. c \in 1..n /\ d \in 1..n
    BY <1>1
  <2>8. /\ Len(typed[c]) \in Nat /\ EndOf(c - 1) \in Nat
        /\ Len(typed[d]) \in Nat /\ EndOf(d - 1) \in Nat
        /\ EndOf(d) = EndOf(d - 1) + Len(typed[d]) /\ EndOf(d) <= total /\ EndOf(d) \in Nat
    BY <2>7, CharacterAt
  <2>8a. j \in Nat /\ l \in Nat
    <3> DEFINE lc == Len(typed[c])
               ld == Len(typed[d])
    <3>1. lc \in Nat /\ ld \in Nat /\ j \in 1..lc /\ l \in 1..ld
      BY <2>8
    <3> HIDE DEF lc, ld
    <3> QED BY <3>1
  <2>8b. EndOf(c - 1) \in Nat /\ EndOf(d - 1) \in Nat /\ EndOf(d) \in Nat
    BY <2>8
  <2>9. j = 1
    <3> SUFFICES ASSUME j # 1 PROVE FALSE
      OBVIOUS
    <3> DEFINE p == EndOf(c - 1) + 1 - s
               len1 == Len(typed[c])
    <3>1. Len(typed[c]) > 1 /\ 1 \in 1..Len(typed[c])
      <4>1. len1 \in Nat /\ j \in 1..len1
        BY <2>8
      <4> HIDE DEF len1
      <4>2. len1 > 1 /\ 1 \in 1..len1
        BY <4>1
      <4> QED BY <4>2 DEF len1
    <3>2. raw[EndOf(c - 1) + 1] \notin {Space, Newline}
      BY <2>7, <3>1, LongCharacter
    <3>3. p \in 1..len /\ s + p = EndOf(c - 1) + 1
      BY <1>8
    <3> HIDE DEF kept, p, s, len
    <3>4. p \in kept
      BY <1>6, <3>2, <3>3
    <3>5. f <= p
      BY <2>1, <3>4
    <3> DEFINE e == EndOf(c - 1)
    <3>6. /\ s + f = e + j /\ s + p = e + 1 /\ e \in Nat /\ f \in Int /\ p \in Int
          /\ s \in Nat /\ j \in Nat /\ j >= 1
      BY <1>2, <1>5, <2>3, <2>5, <2>8a, <2>8b, <3>3
    <3> HIDE DEF e
    <3> QED BY <3>5, <3>6
  <2>10. l = Len(typed[d])
    <3> SUFFICES ASSUME l # Len(typed[d]) PROVE FALSE
      OBVIOUS
    <3> DEFINE len1 == Len(typed[d])
               p == g + 1
    <3>1. Len(typed[d]) > 1 /\ l + 1 \in 1..Len(typed[d])
      <4>1. len1 \in Nat /\ l \in 1..len1 /\ l # len1
        BY <2>8
      <4> HIDE DEF len1
      <4>2. len1 > 1 /\ l + 1 \in 1..len1
        BY <4>1
      <4> QED BY <4>2 DEF len1
    <3>2. raw[EndOf(d - 1) + (l + 1)] \notin {Space, Newline}
      BY <2>7, <3>1, LongCharacter
    <3>3. EndOf(d - 1) + (l + 1) \in 1..total
      BY <2>7, <3>1, CharacterAt
    <3>4. s + p = EndOf(d - 1) + (l + 1)
      <4> DEFINE e == EndOf(d - 1)
      <4>1. s \in Nat /\ e \in Nat /\ g \in Int /\ l \in Nat /\ s + g = e + l
        BY <1>2, <1>5, <2>3, <2>6, <2>8a, <2>8b
      <4> HIDE DEF s, e
      <4>2. s + p = e + (l + 1)
        BY <4>1
      <4> QED BY <4>2 DEF e
    <3>5. p \in 1..len
      <4> HIDE DEF s, total
      <4> QED BY <1>1, <1>2, <1>5, <2>3, <3>3, <3>4
    <3> HIDE DEF kept, p, s, len
    <3>6. p \in kept
      BY <1>6, <3>2, <3>4, <3>5
    <3>7. p <= g
      BY <2>2, <3>6
    <3> QED BY <1>5, <2>3, <3>7 DEF p
  <2> DEFINE a == c - 1
  <2>11. EndOf(a) + 1 = s + f /\ EndOf(d) = s + g
    BY <2>5, <2>6, <2>8, <2>8b, <2>9, <2>10
  <2>12. a \in start..n /\ a + 1 = c
    BY <1>1
  <2>13. a < d
    <3> SUFFICES ASSUME ~(a < d) PROVE FALSE
      OBVIOUS
    <3>1. d <= a /\ a \in 0..n /\ d \in 0..n
      BY <1>1, <2>7
    <3>2. EndOf(d) <= EndOf(a) /\ EndOf(a) \in Nat
      BY <3>1, EndsGrow
    <3> HIDE DEF a, s, len
    <3> QED BY <1>2, <1>5, <2>3, <2>8b, <2>11, <3>2
  <2>14. d \in a..n
    BY <1>1, <2>7, <2>12, <2>13
  <2>15. trim(bytes) = BytesOf(a, d)
    <3> HIDE DEF a, s
    <3>1. /\ m \in 1..total + 1 /\ total \in m - 1..total /\ total - m + 1 = len
          /\ f \in 1..total - m + 2 /\ g \in f - 1..total - m + 1
          /\ m + f - 1 = s + f /\ m + g - 1 = s + g
      <4> HIDE DEF total
      <4> QED BY <1>1, <1>2, <2>3
    <3> HIDE DEF m, len, total, kept, bytes
    <3>2. raw \in Seq(Byte)
      BY <1>1
    <3>3. SubSeq(SubSeq(raw, m, total), f, g) = SubSeq(raw, m + f - 1, m + g - 1)
      BY <3>1, <3>2, PartOfPart DEF total
    <3> QED BY <2>4, <2>11, <3>1, <3>3 DEF BytesOf, bytes
  <2>16. typed[a + 1] \notin Blank
    <3>1. EndOf(c - 1) + 1 - s = f
      <4> DEFINE e == EndOf(c - 1)
      <4>1. s \in Nat /\ e \in Nat /\ f \in Int /\ s + f = e + 1
        BY <1>2, <1>5, <2>3, <2>5, <2>8b, <2>9
      <4> HIDE DEF s, e
      <4>2. e + 1 - s = f
        BY <4>1
      <4> QED BY <4>2 DEF e
    <3> HIDE DEF kept
    <3> QED BY <1>9, <2>1, <2>12, <3>1
  <2>17. typed[d] \notin Blank
    <3>1. CASE Len(typed[d]) > 1
      <4>1. 1 \in 1..Len(typed[d])
        BY <2>7, CharacterAt
      <4>2. raw[EndOf(d - 1) + 1] \notin {Space, Newline}
        BY <2>7, <3>1, <4>1, LongCharacter
      <4> QED BY <2>7, <4>2, BlankCharacter
    <3>2. CASE ~(Len(typed[d]) > 1)
      <4> DEFINE len1 == Len(typed[d])
      <4>1. len1 \in Nat /\ l = len1 /\ l \in 1..len1 /\ ~(len1 > 1)
        BY <2>8, <2>10, <3>2
      <4> HIDE DEF len1
      <4>2. l = 1
        BY <4>1
      <4>3. EndOf(d - 1) + 1 - s = g
        <5> DEFINE e == EndOf(d - 1)
        <5>1. s \in Nat /\ e \in Nat /\ g \in Int /\ s + g = e + 1
          BY <1>2, <1>5, <2>3, <2>6, <2>8b, <4>2
        <5> HIDE DEF s, e
        <5>2. e + 1 - s = g
          BY <5>1
        <5> QED BY <5>2 DEF e
      <4> HIDE DEF kept
      <4> QED BY <1>9, <2>2, <4>3
    <3> QED BY <3>1, <3>2
  <2>18. ASSUME NEW i \in start + 1..a PROVE typed[i] \in Blank
    <3>1. i \in start + 1..n /\ i - 1 \in 0..n /\ i \in 1..n /\ c - 1 \in 0..n /\ i <= c - 1
      BY <1>1, <2>7
    <3> DEFINE p == EndOf(i - 1) + 1 - s
    <3>2. EndOf(i - 1) < EndOf(c - 1)
      <4>1. EndOf(i - 1) < EndOf(i)
        <5> HIDE DEF n, a
        <5>1. i \in Int /\ i \in 0..n /\ i - 1 \in 0..n
          BY <3>1
        <5>2. i - 1 < i /\ i - 1 <= i
          BY <5>1
        <5> QED BY <5>1, <5>2, EndsGrow DEF n
      <4>2. EndOf(i) <= EndOf(c - 1) /\ EndOf(i) \in Nat
        BY <3>1, EndsGrow
      <4>3. EndOf(i - 1) \in Nat
        BY <3>1, CharacterAt
      <4> QED BY <2>8b, <4>1, <4>2, <4>3
    <3>3. EndOf(i - 1) \in Nat
      BY <3>1, CharacterAt
    <3>4. ~(f <= p)
      <4> DEFINE e == EndOf(c - 1)
                 h == EndOf(i - 1)
      <4>1. /\ s \in Nat /\ e \in Nat /\ h \in Nat /\ f \in Int
            /\ e + 1 = s + f /\ h < e
        BY <1>2, <1>5, <2>3, <2>8b, <2>11, <3>2, <3>3
      <4> HIDE DEF s, e, h
      <4>2. ~(f <= h + 1 - s)
        BY <4>1
      <4> QED BY <4>2 DEF h
    <3> HIDE DEF kept
    <3>5. p \notin kept
      BY <2>1, <3>4
    <3> QED BY <1>9, <3>1, <3>5
  <2>19. ASSUME NEW i \in d + 1..n PROVE typed[i] \in Blank
    <3>1. i \in start + 1..n /\ i - 1 \in 0..n /\ i \in 1..n /\ d \in 0..n /\ d <= i - 1
      BY <1>1, <2>7
    <3> DEFINE p == EndOf(i - 1) + 1 - s
    <3>2. EndOf(d) <= EndOf(i - 1) /\ EndOf(i - 1) \in Nat
      BY <3>1, EndsGrow
    <3>3. ~(p <= g)
      <4> DEFINE e == EndOf(d)
                 h == EndOf(i - 1)
      <4>1. /\ s \in Nat /\ e \in Nat /\ h \in Nat /\ g \in Int
            /\ e = s + g /\ e <= h
        BY <1>2, <1>5, <2>3, <2>8b, <2>11, <3>2
      <4> HIDE DEF s, e, h
      <4>2. ~(h + 1 - s <= g)
        BY <4>1
      <4> QED BY <4>2 DEF h
    <3> HIDE DEF kept
    <3>4. p \notin kept
      BY <2>2, <3>3
    <3> QED BY <1>9, <3>1, <3>4
  <2> HIDE DEF a, bytes
  <2> QED BY <1>3, <2>12, <2>13, <2>14, <2>15, <2>16, <2>17, <2>18, <2>19
<1> QED BY <1>10, <1>11

LEMMA Meant == CommandIInv => CommandAsMeant
<1> SUFFICES ASSUME CommandIInv PROVE CommandAsMeant
  OBVIOUS
<1> DEFINE value == splitCommandStart(raw_message)
           start == Len(command) + 1
           end == Len(typed)
           Trimmed(bytes) ==
               \E a \in start..end : \E b \in a..end :
                   /\ \A i \in (start + 1..a) \cup (b + 1..end) : typed[i] \in Blank
                   /\ a < b => typed[a + 1] \notin Blank /\ typed[b] \notin Blank
                   /\ trim(bytes) = BytesOf(a, b)
<1>1. /\ value # NoCommand <=> IsCommand
      /\ checkCommandStart(raw_message) <=> IsCommand
      /\ IsCommand => start \in 1..end /\ value = BytesOf(start, end)
  BY CommandSplit
<1>2. ASSUME IsCommand PROVE value = BytesOf(start, end) /\ Trimmed(value)
  <2>1. start \in 0..end /\ value = BytesOf(start, end)
    BY <1>1, <1>2
  <2>2. Trimmed(BytesOf(start, end))
    <3> HIDE DEF start
    <3> QED BY <2>1, TrimMeant
  <2> HIDE DEF Trimmed, value
  <2> QED BY <2>1, <2>2
<1> HIDE DEF Trimmed
<1>3. (value # NoCommand <=> IsCommand) /\ (checkCommandStart(raw_message) <=> IsCommand)
      /\ (IsCommand => value = BytesOf(start, end) /\ Trimmed(value))
  BY <1>1, <1>2
<1> QED BY <1>3 DEF CommandAsMeant, Trimmed

(* Whatever is typed, in whatever characters: the code takes the commands  *)
(* that were meant, and of their arguments no more and no less.            *)
THEOREM CommandsAsMeant == CommandSpec => []CommandAsMeant
  BY CommandInvariance, Meant, PTL

-----------------------------------------------------------------------------
(* UUIDs.  The digits of a text that was copied without writing one are    *)
(* digits of the UUID, in their order.  fromString reads 32 of them, in    *)
(* their order, and the UUID has no more: they are the same.               *)

Octet == {n \in Nat : n < 256}

IsUuid(u) == /\ u \in [1..Size -> Octet]
             /\ u[7] \div 16 = 4
             /\ u[9] \div 16 \in 8..11

\* Of each character of a text that is a digit: which digit of the UUID it is.
Copies(s, u, pos) ==
    /\ \A i \in 1..Len(s) : /\ s[i] # Plus
                            /\ pos[i] \in 1..2 * Size
                            /\ IsDigit(s[i]) => s[i] = toCompactString(u)[pos[i]]
    /\ \A i, j \in 1..Len(s) : i < j /\ IsDigit(s[i]) /\ IsDigit(s[j]) => pos[i] < pos[j]

LEMMA DigitsOfByte ==
    ASSUME NEW b \in Nat, b < 256
    PROVE  /\ b \div 16 \in Nat /\ b \div 16 < 16
           /\ b % 16 \in Nat /\ b % 16 < 16
           /\ b = 16 * (b \div 16) + (b % 16)
OBVIOUS

\* Both digits of a byte.
LEMMA DigitsAre ==
    ASSUME NEW u, IsUuid(u), NEW j \in 1..Size
    PROVE  /\ toCompactString(u)[2 * j - 1] = u[j] \div 16
           /\ toCompactString(u)[2 * j] = u[j] % 16
           /\ u[j] = 16 * toCompactString(u)[2 * j - 1] + toCompactString(u)[2 * j]
<1> DEFINE k == Size
<1>1. k \in Nat
  BY DEF Size
<1> HIDE DEF k
<1>2. /\ 2 * j - 1 \in 1..2 * k /\ 2 * j \in 1..2 * k
      /\ (2 * j - 1) % 2 = 1 /\ ((2 * j - 1) + 1) \div 2 = j
      /\ (2 * j) % 2 # 1 /\ (2 * j) \div 2 = j
  <2>1. j \in 1..k
    BY DEF k
  <2> QED BY <1>1, <2>1
<1>3. /\ toCompactString(u)[2 * j - 1] = u[j] \div 16
      /\ toCompactString(u)[2 * j] = u[j] % 16
  BY <1>2 DEF toCompactString, k
<1>4. u[j] \in Nat /\ u[j] < 256
  BY DEF IsUuid, Octet
<1> QED BY <1>3, <1>4, DigitsOfByte

LEMMA DigitIs ==
    ASSUME NEW u, IsUuid(u), NEW i \in 1..2 * Size
    PROVE  toCompactString(u)[i] \in Nat /\ toCompactString(u)[i] < 16
<1> DEFINE k == Size
           j == (i + 1) \div 2
<1>1. k \in Nat
  BY DEF Size
<1> HIDE DEF k
<1>2. j \in 1..k /\ (i = 2 * j - 1 \/ i = 2 * j)
  <2>1. i \in 1..2 * k
    BY DEF k
  <2> QED BY <1>1, <2>1
<1>3. /\ toCompactString(u)[2 * j - 1] = u[j] \div 16
      /\ toCompactString(u)[2 * j] = u[j] % 16
  <2> HIDE DEF j
  <2> QED BY <1>2, DigitsAre DEF k
<1>4. u[j] \in Nat /\ u[j] < 256
  <2> HIDE DEF j
  <2> QED BY <1>2 DEF IsUuid, Octet, k
<1> HIDE DEF j
<1>5. /\ u[j] \div 16 \in Nat /\ u[j] \div 16 < 16
      /\ u[j] % 16 \in Nat /\ u[j] % 16 < 16
  BY <1>4, DigitsOfByte
<1> QED BY <1>2, <1>3, <1>5

-----------------------------------------------------------------------------
\* The loop of fromString.

StartRound == [place |-> 1, bytes |-> <<>>, failed |-> FALSE]

LEMMA RoundsAre ==
    ASSUME NEW s
    PROVE  /\ Rounds(s)[0] = StartRound
           /\ \A n \in 0..Length - 1 : Rounds(s)[n + 1] = Round(s, Rounds(s)[n])
<1> DEFINE k == Length
           IsRun(g) == g = [n \in 0..k |-> IF n = 0 THEN StartRound ELSE Round(s, g[n - 1])]
<1>1. Rounds(s) = CHOOSE g : IsRun(g)
  BY DEF Rounds, StartRound
<1>2. k \in Nat
  BY DEF Length
<1> HIDE DEF k
<1> DEFINE S == {n \in Nat : \E g : g[0] = StartRound /\ \A i \in 1..n : g[i] = Round(s, g[i - 1])}
<1>3. 0 \in S
  <2> DEFINE g == [i \in {0} |-> StartRound]
  <2>1. g[0] = StartRound /\ \A i \in 1..0 : g[i] = Round(s, g[i - 1])
    OBVIOUS
  <2> HIDE DEF g
  <2> QED BY <2>1
<1>4. ASSUME NEW n \in Nat, n \in S PROVE n + 1 \in S
  <2>1. PICK f : f[0] = StartRound /\ \A i \in 1..n : f[i] = Round(s, f[i - 1])
    BY <1>4
  <2> DEFINE final == Round(s, f[n])
             g == [i \in 0..n + 1 |-> IF i = n + 1 THEN final ELSE f[i]]
  <2> HIDE DEF final
  <2>2. g[0] = StartRound
    BY <2>1
  <2>3. ASSUME NEW i \in 1..n + 1 PROVE g[i] = Round(s, g[i - 1])
    <3>1. CASE i = n + 1
      <4>1. g[i] = final /\ g[i - 1] = f[n]
        BY <3>1
      <4> HIDE DEF g
      <4> QED BY <4>1 DEF final
    <3>2. CASE i # n + 1
      <4>1. i \in 1..n /\ g[i] = f[i] /\ g[i - 1] = f[i - 1]
        BY <3>2
      <4> HIDE DEF g
      <4> QED BY <2>1, <4>1
    <3> QED BY <3>1, <3>2
  <2> HIDE DEF g
  <2>4. n + 1 \in Nat
    OBVIOUS
  <2> QED BY <2>2, <2>3, <2>4
<1> HIDE DEF S
<1>5. k \in S
  BY <1>2, <1>3, <1>4, AllNumbers
<1>6. PICK f : f[0] = StartRound /\ \A i \in 1..k : f[i] = Round(s, f[i - 1])
  BY <1>5 DEF S
<1> DEFINE g == [n \in 0..k |-> f[n]]
<1>7. IsRun(g)
  <2> SUFFICES ASSUME NEW n \in 0..k
               PROVE  f[n] = IF n = 0 THEN StartRound ELSE Round(s, g[n - 1])
    OBVIOUS
  <2>1. CASE n = 0
    BY <1>6, <2>1
  <2>2. CASE n # 0
    <3>1. n \in 1..k /\ n - 1 \in 0..k
      BY <1>2, <2>2
    <3>2. g[n - 1] = f[n - 1]
      BY <3>1
    <3> HIDE DEF g
    <3> QED BY <1>6, <2>2, <3>1, <3>2
  <2> QED BY <2>1, <2>2
<1>8. IsRun(Rounds(s))
  <2> HIDE DEF IsRun, g
  <2> QED BY <1>1, <1>7
<1> DEFINE r == Rounds(s)
<1>9. r = [n \in 0..k |-> IF n = 0 THEN StartRound ELSE Round(s, r[n - 1])]
  BY <1>8
<1> HIDE DEF r
<1>10. r[0] = StartRound
  BY <1>2, <1>9
<1>11. ASSUME NEW n \in 0..k - 1 PROVE r[n + 1] = Round(s, r[n])
  <2>1. n + 1 \in 0..k /\ n + 1 # 0 /\ (n + 1) - 1 = n
    BY <1>2
  <2>2. r[n + 1] = Round(s, r[(n + 1) - 1])
    BY <1>9, <2>1
  <2> QED BY <2>1, <2>2
<1> QED BY <1>10, <1>11 DEF r, k

\* What holds at the start and of each round if of the one before holds at the end.
LEMMA RoundsKeep ==
    ASSUME NEW s, NEW S, StartRound \in S, \A r \in S : Round(s, r) \in S
    PROVE  Rounds(s)[Length] \in S
<1> DEFINE k == Length
           a == Rounds(s)
           K == {n \in Nat : n <= k => a[n] \in S}
<1>1. k \in Nat
  BY DEF Length
<1>2. a[0] = StartRound /\ \A n \in 0..k - 1 : a[n + 1] = Round(s, a[n])
  BY RoundsAre
<1> HIDE DEF k, a
<1>3. 0 \in K
  BY <1>2
<1>4. ASSUME NEW n \in Nat, n \in K PROVE n + 1 \in K
  <2> SUFFICES ASSUME n + 1 <= k PROVE a[n + 1] \in S
    OBVIOUS
  <2>1. a[n] \in S /\ n \in 0..k - 1
    BY <1>1, <1>4
  <2> QED BY <1>2, <2>1
<1> HIDE DEF K
<1>5. k \in K
  BY <1>1, <1>3, <1>4, AllNumbers
<1> QED BY <1>1, <1>5 DEF K, k, a

-----------------------------------------------------------------------------
\* What a round of the loop is.

States == {r \in [place : Nat, bytes : Seq(Nat), failed : BOOLEAN] :
               r.place >= 1 /\ Len(r.bytes) <= Size}

\* The digits read so far: the places where they are, which grow.
ReadAt(s, r, f) ==
    /\ \A m \in 1..2 * Len(r.bytes) :
           f[m] \in 1..Len(s) /\ f[m] < r.place /\ IsDigit(s[f[m]])
    /\ \A m \in 1..2 * Len(r.bytes) - 1 : f[m] < f[m + 1]
    /\ \A j \in 1..Len(r.bytes) : r.bytes[j] = 16 * s[f[2 * j - 1]] + s[f[2 * j]]

LEMMA RoundIs ==
    ASSUME NEW s \in Seq(Nat), NEW r \in States,
           \A i \in 1..Len(s) : s[i] # Plus
    PROVE  /\ Round(s, r) \in States
           /\ \/ Round(s, r) = r
              \/ /\ Round(s, r).place = r.place + 1 /\ Round(s, r).bytes = r.bytes
                 /\ ~Round(s, r).failed
              \/ Round(s, r).failed
              \/ /\ r.place + 1 <= Len(s) /\ IsDigit(s[r.place]) /\ IsDigit(s[r.place + 1])
                 /\ Round(s, r).place = r.place + 2 /\ ~Round(s, r).failed
                 /\ Round(s, r).bytes = Append(r.bytes, 16 * s[r.place] + s[r.place + 1])
<1> DEFINE p == r.place
           c == s[p]
           d == s[p + 1]
           t == Round(s, r)
           l == Len(s)
<1>1. /\ p \in Nat /\ p >= 1 /\ r.bytes \in Seq(Nat) /\ r.failed \in BOOLEAN /\ l \in Nat
      /\ Len(r.bytes) \in Nat /\ Len(r.bytes) <= Size
      /\ r = [place |-> p, bytes |-> r.bytes, failed |-> r.failed]
  BY DEF States
<1>2. CASE r.failed \/ p > l \/ Len(r.bytes) = Size
  BY <1>2 DEF Round
<1>3. CASE ~(r.failed \/ p > l \/ Len(r.bytes) = Size) /\ c = Hyphen
  <2>1. t = [r EXCEPT !.place = @ + 1]
    BY <1>3 DEF Round
  <2> HIDE DEF t
  <2>2. t = [place |-> p + 1, bytes |-> r.bytes, failed |-> r.failed]
    BY <1>1, <2>1
  <2>3. p + 1 \in Nat /\ p + 1 >= 1
    <3> HIDE DEF p
    <3> QED BY <1>1
  <2>4. t.place = p + 1 /\ t.bytes = r.bytes /\ t.failed = r.failed
        /\ t \in [place : Nat, bytes : Seq(Nat), failed : BOOLEAN]
    BY <1>1, <2>2, <2>3
  <2> HIDE DEF p
  <2> QED BY <1>1, <1>3, <2>3, <2>4 DEF States, t, p
<1>4. CASE /\ ~(r.failed \/ p > l \/ Len(r.bytes) = Size) /\ c # Hyphen
           /\ p + 1 <= l /\ IsByte(c, d)
  <2>1. p \in 1..l /\ p + 1 \in 1..l
    <3> HIDE DEF p, l
    <3> QED BY <1>1, <1>4
  <2>2. c \in Nat /\ d \in Nat /\ c # Plus
    <3> HIDE DEF p, l
    <3> QED BY <2>1 DEF l
  <2>3. IsDigit(c) /\ IsDigit(d) /\ ByteOf(c, d) = 16 * c + d
    BY <1>4, <2>2 DEF IsByte, ByteOf
  <2> DEFINE b == 16 * c + d
  <2>4. b \in Nat
    <3> HIDE DEF c, d
    <3> QED BY <2>2
  <2>5. t = [place |-> p + 2, failed |-> FALSE, bytes |-> Append(r.bytes, b)]
    BY <1>4, <2>3 DEF Round
  <2> HIDE DEF b
  <2>6. /\ Append(r.bytes, b) \in Seq(Nat) /\ Len(Append(r.bytes, b)) = Len(r.bytes) + 1
    BY <1>1, <2>4
  <2>7. Len(r.bytes) + 1 <= Size
    <3> DEFINE n == Len(r.bytes)
    <3>1. n \in Nat /\ n <= Size /\ n # Size
      BY <1>1, <1>4
    <3> HIDE DEF n
    <3>2. n + 1 <= Size
      BY <3>1 DEF Size
    <3> QED BY <3>2 DEF n
  <2>8. p + 2 \in Nat /\ p + 2 >= 1
    <3> HIDE DEF p
    <3> QED BY <1>1
  <2>9. t \in States
    <3> HIDE DEF t, p
    <3>1. t \in [place : Nat, bytes : Seq(Nat), failed : BOOLEAN] /\ t.place = p + 2
          /\ t.bytes = Append(r.bytes, b)
      BY <2>5, <2>6, <2>8
    <3> QED BY <2>6, <2>7, <2>8, <3>1 DEF States
  <2>10. t.place = p + 2 /\ ~t.failed /\ t.bytes = Append(r.bytes, b)
    <3> HIDE DEF t
    <3> QED BY <2>5
  <2> QED BY <1>4, <2>3, <2>9, <2>10 DEF b
<1>5. CASE /\ ~(r.failed \/ p > l \/ Len(r.bytes) = Size) /\ c # Hyphen
           /\ ~(p + 1 <= l /\ IsByte(c, d))
  <2>1. t = [r EXCEPT !.failed = TRUE]
    BY <1>5 DEF Round
  <2> HIDE DEF t
  <2>2. t = [place |-> p, bytes |-> r.bytes, failed |-> TRUE]
    BY <1>1, <2>1
  <2>3. t.place = p /\ t.bytes = r.bytes /\ t.failed
        /\ t \in [place : Nat, bytes : Seq(Nat), failed : BOOLEAN]
    BY <1>1, <2>2
  <2> QED BY <1>1, <2>3 DEF States, t
<1> QED BY <1>2, <1>3, <1>4, <1>5

LEMMA RoundReads ==
    ASSUME NEW s \in Seq(Nat), \A i \in 1..Len(s) : s[i] # Plus,
           NEW r \in States, r.failed \/ \E f : ReadAt(s, r, f)
    PROVE  Round(s, r).failed \/ \E f : ReadAt(s, Round(s, r), f)
<1> DEFINE t == Round(s, r)
           n == Len(r.bytes)
           p == r.place
           l == Len(s)
<1>1. p \in Nat /\ p >= 1 /\ n \in Nat /\ r.bytes \in Seq(Nat) /\ l \in Nat
  BY DEF States
<1>2. CASE t = r \/ t.failed
  <2> HIDE DEF t
  <2> QED BY <1>2 DEF t
<1>3. CASE ~r.failed /\ t.place = p + 1 /\ t.bytes = r.bytes /\ ~t.failed
  <2>1. PICK f : ReadAt(s, r, f)
    BY <1>3
  <2>2. \A m \in 1..2 * n : f[m] \in 1..l /\ f[m] < p + 1
    <3> SUFFICES ASSUME NEW m \in 1..2 * n PROVE f[m] \in 1..l /\ f[m] < p + 1
      OBVIOUS
    <3>1. f[m] \in 1..l /\ f[m] < p
      BY <2>1 DEF ReadAt
    <3> HIDE DEF l, p
    <3> QED BY <1>1, <3>1
  <2> HIDE DEF t
  <2>3. ReadAt(s, t, f)
    BY <1>3, <2>1, <2>2 DEF ReadAt
  <2> QED BY <2>3 DEF t
<1>4. CASE /\ ~r.failed /\ p + 1 <= l /\ IsDigit(s[p]) /\ IsDigit(s[p + 1])
           /\ t.place = p + 2 /\ ~t.failed
           /\ t.bytes = Append(r.bytes, 16 * s[p] + s[p + 1])
  <2>1. PICK f : ReadAt(s, r, f)
    BY <1>4
  <2> DEFINE b == 16 * s[p] + s[p + 1]
             g == [m \in 1..2 * (n + 1) |-> IF m = 2 * n + 1 THEN p
                                            ELSE IF m = 2 * n + 2 THEN p + 1 ELSE f[m]]
  <2>2. /\ \A m \in 1..2 * n : f[m] \in 1..l /\ f[m] < p /\ IsDigit(s[f[m]])
        /\ \A m \in 1..2 * n - 1 : f[m] < f[m + 1]
        /\ \A j \in 1..n : r.bytes[j] = 16 * s[f[2 * j - 1]] + s[f[2 * j]]
    BY <2>1 DEF ReadAt
  <2>3. /\ p \in 1..l /\ p + 1 \in 1..l /\ p < p + 2 /\ p + 1 < p + 2
    <3> HIDE DEF p, l
    <3> QED BY <1>1, <1>4
  <2>4. /\ t.bytes = Append(r.bytes, b) /\ Len(t.bytes) = n + 1 /\ t.bytes[n + 1] = b
        /\ \A j \in 1..n : t.bytes[j] = r.bytes[j]
    <3>1. b \in Nat
      <4>1. s[p] \in Nat /\ s[p + 1] \in Nat
        <5> HIDE DEF p
        <5> QED BY <2>3
      <4> HIDE DEF p
      <4> QED BY <4>1
    <3> HIDE DEF b, t
    <3> QED BY <1>1, <1>4, <3>1 DEF b
  <2> HIDE DEF t, n, p, l, b
  <2>5. /\ g[2 * n + 1] = p /\ g[2 * n + 2] = p + 1
        /\ \A m \in 1..2 * n : g[m] = f[m]
    BY <1>1
  <2> HIDE DEF g
  <2>6. \A m \in 1..2 * (n + 1) : m \in 1..2 * n \/ m = 2 * n + 1 \/ m = 2 * n + 2
    BY <1>1
  <2>7. ASSUME NEW m \in 1..2 * (n + 1)
        PROVE  g[m] \in 1..l /\ g[m] < p + 2 /\ IsDigit(s[g[m]])
    <3>1. CASE m \in 1..2 * n
      <4>1. f[m] \in 1..l /\ f[m] < p /\ IsDigit(s[f[m]]) /\ g[m] = f[m]
        BY <2>2, <2>5, <3>1
      <4>2. f[m] < p + 2
        BY <1>1, <4>1
      <4> QED BY <4>1, <4>2
    <3>2. CASE m = 2 * n + 1
      BY <1>4, <2>3, <2>5, <3>2
    <3>3. CASE m = 2 * n + 2
      BY <1>4, <2>3, <2>5, <3>3
    <3> QED BY <2>6, <3>1, <3>2, <3>3
  <2>8. ASSUME NEW m \in 1..2 * (n + 1) - 1 PROVE g[m] < g[m + 1]
    <3>1. CASE m \in 1..2 * n - 1
      <4>1. m \in 1..2 * n /\ m + 1 \in 1..2 * n
        BY <1>1, <3>1
      <4> QED BY <2>2, <2>5, <3>1, <4>1
    <3>2. CASE m = 2 * n
      <4>1. m \in 1..2 * n /\ m + 1 = 2 * n + 1
        BY <1>1, <3>2
      <4> QED BY <2>2, <2>5, <4>1
    <3>3. CASE m = 2 * n + 1
      <4>1. m + 1 = 2 * n + 2
        BY <1>1, <3>3
      <4> QED BY <1>1, <2>5, <3>3, <4>1
    <3>4. m \in 1..2 * n - 1 \/ m = 2 * n \/ m = 2 * n + 1
      BY <1>1
    <3> QED BY <3>1, <3>2, <3>3, <3>4
  <2>9. ASSUME NEW j \in 1..n + 1
        PROVE  t.bytes[j] = 16 * s[g[2 * j - 1]] + s[g[2 * j]]
    <3>1. CASE j \in 1..n
      <4>1. 2 * j - 1 \in 1..2 * n /\ 2 * j \in 1..2 * n
        BY <1>1, <3>1
      <4>2. t.bytes[j] = r.bytes[j]
        BY <2>4, <3>1
      <4>3. r.bytes[j] = 16 * s[f[2 * j - 1]] + s[f[2 * j]]
        BY <2>2, <3>1
      <4>4. g[2 * j - 1] = f[2 * j - 1] /\ g[2 * j] = f[2 * j]
        BY <2>5, <4>1
      <4> QED BY <4>2, <4>3, <4>4
    <3>2. CASE j = n + 1
      <4>1. 2 * j - 1 = 2 * n + 1 /\ 2 * j = 2 * n + 2
        BY <1>1, <3>2
      <4>2. t.bytes[j] = 16 * s[p] + s[p + 1]
        BY <2>4, <3>2 DEF b
      <4> QED BY <2>5, <4>1, <4>2
    <3>3. j \in 1..n \/ j = n + 1
      BY <1>1
    <3> QED BY <3>1, <3>2, <3>3
  <2>10. ReadAt(s, t, g)
    BY <1>4, <2>4, <2>7, <2>8, <2>9 DEF ReadAt, l, p
  <2> QED BY <2>10 DEF t
<1>5. CASE r.failed
  <2>1. t = r
    BY <1>5 DEF Round
  <2> QED BY <1>5, <2>1
<1> QED BY <1>2, <1>3, <1>4, <1>5, RoundIs

\* A text without a plus: what fromString makes of it is what it read.
LEMMA WhatIsRead ==
    ASSUME NEW s \in Seq(Nat), \A i \in 1..Len(s) : s[i] # Plus, fromString(s).is = "ok"
    PROVE  \E r \in States : \E f :
               /\ fromString(s) = Valid(r.bytes) /\ Len(r.bytes) = Size /\ ReadAt(s, r, f)
<1> DEFINE S == {r \in States : r.failed \/ \E f : ReadAt(s, r, f)}
           r == Rounds(s)[Length]
<1>1. StartRound \in S
  <2>1. StartRound \in States
    <3>1. <<>> \in Seq(Nat) /\ Len(<<>>) = 0 /\ 0 <= Size /\ 1 \in Nat
      BY DEF Size
    <3> QED BY <3>1 DEF StartRound, States
  <2>2. \A f : ReadAt(s, StartRound, f)
    BY DEF ReadAt, StartRound
  <2> QED BY <2>1, <2>2
<1>2. \A q \in S : Round(s, q) \in S
  BY RoundIs, RoundReads
<1> HIDE DEF S
<1>3. r \in S
  BY <1>1, <1>2, RoundsKeep
<1>4. fromString(s) = IF r.failed THEN Error ELSE Finish(r.bytes)
  BY DEF fromString, Error
<1> HIDE DEF r
<1>5. ~r.failed /\ fromString(s) = Valid(r.bytes) /\ Len(r.bytes) = Size
  BY <1>4 DEF Error, Finish
<1> QED BY <1>3, <1>5 DEF S

-----------------------------------------------------------------------------
\* What grows from 1 to k in k steps counts.
LEMMA CountsUp ==
    ASSUME NEW k \in Nat, NEW h, \A m \in 1..k : h[m] \in 1..k,
           \A m \in 1..k - 1 : h[m] < h[m + 1]
    PROVE  \A m \in 1..k : h[m] = m
<1> DEFINE U == {n \in Nat : n + 1 <= k => h[n + 1] >= n + 1}
           D == {n \in Nat : n < k => h[k - n] <= k - n}
<1>1. 0 \in U /\ 0 \in D
  <2>1. 1 <= k => h[1] >= 1
    <3> SUFFICES ASSUME 1 <= k PROVE h[1] >= 1
      OBVIOUS
    <3>1. 1 \in 1..k
      OBVIOUS
    <3> QED BY <3>1
  <2>2. 0 < k => h[k - 0] <= k - 0
    <3> SUFFICES ASSUME 0 < k PROVE h[k - 0] <= k - 0
      OBVIOUS
    <3>1. k \in 1..k /\ k - 0 = k
      OBVIOUS
    <3> QED BY <3>1
  <2> QED BY <2>1, <2>2
<1>2. ASSUME NEW n \in Nat, n \in U PROVE n + 1 \in U
  <2> SUFFICES ASSUME (n + 1) + 1 <= k PROVE h[(n + 1) + 1] >= (n + 1) + 1
    OBVIOUS
  <2>1. n + 1 \in 1..k - 1 /\ n + 1 \in 1..k /\ (n + 1) + 1 \in 1..k /\ n + 1 <= k
    OBVIOUS
  <2>2. h[n + 1] >= n + 1 /\ h[n + 1] < h[(n + 1) + 1]
    BY <1>2, <2>1
  <2>3. h[n + 1] \in 1..k /\ h[(n + 1) + 1] \in 1..k
    BY <2>1
  <2> QED BY <2>2, <2>3
<1>3. ASSUME NEW n \in Nat, n \in D PROVE n + 1 \in D
  <2> SUFFICES ASSUME n + 1 < k PROVE h[k - (n + 1)] <= k - (n + 1)
    OBVIOUS
  <2>1. /\ k - (n + 1) \in 1..k - 1 /\ k - (n + 1) \in 1..k /\ k - n \in 1..k
        /\ (k - (n + 1)) + 1 = k - n /\ n < k
    OBVIOUS
  <2>2. h[k - n] <= k - n /\ h[k - (n + 1)] < h[k - n]
    BY <1>3, <2>1
  <2>3. h[k - (n + 1)] \in 1..k /\ h[k - n] \in 1..k
    BY <2>1
  <2> QED BY <2>2, <2>3
<1> HIDE DEF U, D
<1>4. Nat \subseteq U /\ Nat \subseteq D
  BY <1>1, <1>2, <1>3, AllNumbers
<1> SUFFICES ASSUME NEW m \in 1..k PROVE h[m] = m
  OBVIOUS
<1>5. m - 1 \in Nat /\ (m - 1) + 1 = m /\ m <= k
  OBVIOUS
<1>6. k - m \in Nat /\ k - (k - m) = m /\ k - m < k
  OBVIOUS
<1>7. h[m] >= m
  BY <1>4, <1>5 DEF U
<1>8. h[m] <= m
  BY <1>4, <1>6 DEF D
<1>9. h[m] \in 1..k
  OBVIOUS
<1> QED BY <1>7, <1>8, <1>9

\* So a copy is read as the UUID.
LEMMA CopiesRead ==
    ASSUME NEW u, IsUuid(u), NEW s \in Seq(Nat), NEW pos, Copies(s, u, pos),
           fromString(s).is = "ok"
    PROVE  fromString(s) = Valid(u)
<1>1. PICK r \in States : \E f :
          fromString(s) = Valid(r.bytes) /\ Len(r.bytes) = Size /\ ReadAt(s, r, f)
  BY WhatIsRead DEF Copies
<1>2. PICK f : fromString(s) = Valid(r.bytes) /\ Len(r.bytes) = Size /\ ReadAt(s, r, f)
  BY <1>1
<1> DEFINE k == 2 * Size
           h == [m \in 1..k |-> pos[f[m]]]
           c == toCompactString(u)
           l == Len(s)
           p == r.place
<1>3. k \in Nat /\ l \in Nat /\ r.bytes \in Seq(Nat)
  BY DEF Size, States
<1>4. /\ \A m \in 1..k : f[m] \in 1..l /\ IsDigit(s[f[m]])
      /\ \A m \in 1..k - 1 : f[m] < f[m + 1]
      /\ \A j \in 1..Size : r.bytes[j] = 16 * s[f[2 * j - 1]] + s[f[2 * j]]
  BY <1>2 DEF ReadAt
<1>5. /\ \A i \in 1..l : pos[i] \in 1..k /\ (IsDigit(s[i]) => s[i] = c[pos[i]])
      /\ \A i, j \in 1..l : i < j /\ IsDigit(s[i]) /\ IsDigit(s[j]) => pos[i] < pos[j]
  BY DEF Copies
<1> HIDE DEF k, l, c
<1>6. \A m \in 1..k : h[m] = pos[f[m]]
  OBVIOUS
<1> HIDE DEF h
<1>7. \A m \in 1..k : h[m] \in 1..k
  BY <1>4, <1>5, <1>6
<1>8. ASSUME NEW m \in 1..k - 1 PROVE h[m] < h[m + 1]
  <2>1. m \in 1..k /\ m + 1 \in 1..k
    BY <1>3
  <2> QED BY <1>4, <1>5, <1>6, <2>1
<1>9. \A m \in 1..k : h[m] = m
  BY <1>3, <1>7, <1>8, CountsUp
<1>10. \A m \in 1..k : s[f[m]] = c[m]
  BY <1>4, <1>5, <1>6, <1>9
<1>11. ASSUME NEW j \in 1..Size PROVE r.bytes[j] = u[j]
  <2>1. 2 * j - 1 \in 1..k /\ 2 * j \in 1..k
    BY DEF k, Size
  <2>2. r.bytes[j] = 16 * c[2 * j - 1] + c[2 * j]
    BY <1>4, <1>10, <2>1
  <2> QED BY <2>2, DigitsAre DEF c
<1>12. r.bytes = u
  <2>1. u \in [1..Size -> Octet]
    BY DEF IsUuid
  <2>2. r.bytes = [j \in 1..Size |-> r.bytes[j]]
    BY <1>2, <1>3
  <2>3. u = [j \in 1..Size |-> u[j]]
    BY <2>1
  <2> QED BY <1>11, <2>2, <2>3
<1> QED BY <1>2, <1>12

-----------------------------------------------------------------------------
\* Slips leave a copy a copy.

LEMMA ReplacesIn ==
    ASSUME NEW u, NEW s \in Seq(Nat), NEW pos, Copies(s, u, pos),
           NEW i \in 1..Len(s), NEW c \in Nat, ~IsDigit(c), c # Plus
    PROVE  Copies([s EXCEPT ![i] = c], u, pos)
<1> DEFINE t == [s EXCEPT ![i] = c]
<1>1. t \in Seq(Nat) /\ Len(t) = Len(s) /\ \A j \in 1..Len(s) : t[j] = IF j = i THEN c ELSE s[j]
  OBVIOUS
<1> HIDE DEF t
<1> QED BY <1>1 DEF Copies, t

LEMMA RemoveIs ==
    ASSUME NEW s \in Seq(Nat), NEW i \in 1..Len(s)
    PROVE  /\ RemoveAt(s, i) \in Seq(Nat)
           /\ Len(RemoveAt(s, i)) = Len(s) - 1
           /\ \A j \in 1..Len(s) - 1 : RemoveAt(s, i)[j] = IF j < i THEN s[j] ELSE s[j + 1]
<1> DEFINE a == SubSeq(s, 1, i - 1)
           b == SubSeq(s, i + 1, Len(s))
           l == Len(s)
<1>1. l \in Nat /\ i \in 1..l
  OBVIOUS
<1>2. a \in Seq(Nat) /\ Len(a) = i - 1 /\ \A j \in 1..i - 1 : a[j] = s[j]
  OBVIOUS
<1>3. b \in Seq(Nat) /\ Len(b) = Len(s) - i /\ \A j \in 1..Len(s) - i : b[j] = s[i + j]
  OBVIOUS
<1>4. RemoveAt(s, i) = a \o b
  BY DEF RemoveAt
<1> HIDE DEF a, b
<1> HIDE DEF l
<1>5. /\ a \o b \in Seq(Nat) /\ Len(a \o b) = l - 1
      /\ \A j \in 1..l - 1 : (a \o b)[j] = IF j <= i - 1 THEN a[j] ELSE b[j - (i - 1)]
  <2>1. i - 1 \in Nat /\ l - i \in Nat /\ (i - 1) + (l - i) = l - 1
    BY <1>1
  <2>2. Len(b) = l - i
    BY <1>3 DEF l
  <2> DEFINE m == i - 1
             n == l - i
  <2>3. m \in Nat /\ n \in Nat /\ Len(a) = m /\ Len(b) = n /\ m + n = l - 1
    BY <1>2, <2>1, <2>2
  <2> HIDE DEF m, n
  <2>4. /\ a \o b \in Seq(Nat) /\ Len(a \o b) = m + n
        /\ \A j \in 1..m + n : (a \o b)[j] = IF j <= m THEN a[j] ELSE b[j - m]
    <3>1. a \in Seq(Nat) /\ b \in Seq(Nat)
      BY <1>2, <1>3
    <3> QED BY <2>3, <3>1, ConcatProperties
  <2> QED BY <2>3, <2>4 DEF m
<1>6. ASSUME NEW j \in 1..l - 1
      PROVE  (a \o b)[j] = IF j < i THEN s[j] ELSE s[j + 1]
  <2>1. CASE j < i
    <3>1. j <= i - 1 /\ j \in 1..i - 1
      BY <2>1
    <3> QED BY <1>2, <1>5, <2>1, <3>1
  <2>2. CASE ~(j < i)
    <3>1. ~(j <= i - 1) /\ j - (i - 1) \in 1..l - i /\ i + (j - (i - 1)) = j + 1
      BY <1>1, <2>2
    <3>2. b[j - (i - 1)] = s[i + (j - (i - 1))]
      BY <1>3, <3>1 DEF l
    <3> QED BY <1>5, <2>2, <3>1, <3>2
  <2> QED BY <2>1, <2>2
<1> QED BY <1>4, <1>5, <1>6 DEF l

LEMMA InsertIs ==
    ASSUME NEW s \in Seq(Nat), NEW i \in 1..Len(s) + 1, NEW c \in Nat
    PROVE  /\ InsertAt(s, i, c) \in Seq(Nat)
           /\ Len(InsertAt(s, i, c)) = Len(s) + 1
           /\ \A j \in 1..Len(s) + 1 : InsertAt(s, i, c)[j] = IF j < i THEN s[j]
                                                            ELSE IF j = i THEN c ELSE s[j - 1]
<1> DEFINE a == SubSeq(s, 1, i - 1)
           b == SubSeq(s, i, Len(s))
           m == a \o <<c>>
           l == Len(s)
<1>1. l \in Nat /\ i \in 1..l + 1
  OBVIOUS
<1>2. a \in Seq(Nat) /\ Len(a) = i - 1 /\ \A j \in 1..i - 1 : a[j] = s[j]
  OBVIOUS
<1>3. b \in Seq(Nat) /\ Len(b) = Len(s) + 1 - i /\ \A j \in 1..Len(s) + 1 - i : b[j] = s[i + j - 1]
  OBVIOUS
<1>4. InsertAt(s, i, c) = m \o b
  BY DEF InsertAt
<1> HIDE DEF a, b
<1>5. m \in Seq(Nat) /\ Len(m) = i /\ m[i] = c /\ \A j \in 1..i - 1 : m[j] = a[j]
  BY <1>2
<1> HIDE DEF m
<1> HIDE DEF l
<1>6. /\ m \o b \in Seq(Nat) /\ Len(m \o b) = l + 1
      /\ \A j \in 1..l + 1 : (m \o b)[j] = IF j <= i THEN m[j] ELSE b[j - i]
  <2>1. i \in Nat /\ l + 1 - i \in Nat /\ i + (l + 1 - i) = l + 1
    BY <1>1
  <2> DEFINE n == l + 1 - i
  <2>2. n \in Nat /\ Len(b) = n /\ i + n = l + 1
    BY <1>3, <2>1 DEF l
  <2> HIDE DEF n
  <2>3. /\ m \o b \in Seq(Nat) /\ Len(m \o b) = i + n
        /\ \A j \in 1..i + n : (m \o b)[j] = IF j <= i THEN m[j] ELSE b[j - i]
    <3>1. m \in Seq(Nat) /\ Len(m) = i /\ b \in Seq(Nat)
      BY <1>3, <1>5
    <3> HIDE DEF n
    <3> QED BY <2>1, <2>2, <3>1, ConcatProperties
  <2> QED BY <2>2, <2>3
<1>7. ASSUME NEW j \in 1..l + 1
      PROVE  (m \o b)[j] = IF j < i THEN s[j] ELSE IF j = i THEN c ELSE s[j - 1]
  <2>1. CASE j < i
    <3>1. j <= i /\ j \in 1..i - 1
      BY <2>1
    <3> QED BY <1>2, <1>5, <1>6, <2>1, <3>1
  <2>2. CASE j = i
    BY <1>5, <1>6, <2>2
  <2>3. CASE i < j
    <3>1. ~(j <= i) /\ j - i \in 1..l + 1 - i /\ i + (j - i) - 1 = j - 1 /\ ~(j < i) /\ j # i
      BY <1>1, <2>3
    <3>2. b[j - i] = s[i + (j - i) - 1]
      BY <1>3, <3>1 DEF l
    <3> QED BY <1>6, <2>3, <3>1, <3>2
  <2>4. j < i \/ j = i \/ i < j
    BY <1>1
  <2> QED BY <2>1, <2>2, <2>3, <2>4
<1> QED BY <1>4, <1>6, <1>7 DEF l

LEMMA RemovesFrom ==
    ASSUME NEW u, NEW s \in Seq(Nat), NEW pos, Copies(s, u, pos), NEW i \in 1..Len(s)
    PROVE  \E new : Copies(RemoveAt(s, i), u, new)
<1> DEFINE l == Len(s)
           t == RemoveAt(s, i)
           new == [j \in 1..l - 1 |-> IF j < i THEN pos[j] ELSE pos[j + 1]]
           from(j) == IF j < i THEN j ELSE j + 1
<1>1. l \in Nat /\ i \in 1..l
  OBVIOUS
<1>2. Len(t) = l - 1 /\ \A j \in 1..l - 1 : t[j] = s[from(j)] /\ new[j] = pos[from(j)]
  BY RemoveIs
<1>3. \A j \in 1..l - 1 : from(j) \in 1..l
  <2> HIDE DEF l
  <2> QED BY <1>1
<1>4. \A j, m \in 1..l - 1 : j < m => from(j) < from(m)
  <2> HIDE DEF l
  <2> QED BY <1>1
<1>5. /\ \A j \in 1..l : /\ s[j] # Plus
                         /\ pos[j] \in 1..2 * Size
                         /\ IsDigit(s[j]) => s[j] = toCompactString(u)[pos[j]]
      /\ \A j, m \in 1..l : j < m /\ IsDigit(s[j]) /\ IsDigit(s[m]) => pos[j] < pos[m]
  BY DEF Copies
<1> HIDE DEF l, t, new, from
<1>6. Copies(t, u, new)
  <2>1. ASSUME NEW j \in 1..l - 1
        PROVE  /\ t[j] # Plus
               /\ new[j] \in 1..2 * Size
               /\ IsDigit(t[j]) => t[j] = toCompactString(u)[new[j]]
    BY <1>2, <1>3, <1>5
  <2>2. ASSUME NEW j \in 1..l - 1, NEW m \in 1..l - 1, j < m, IsDigit(t[j]), IsDigit(t[m])
        PROVE  new[j] < new[m]
    <3>1. from(j) \in 1..l /\ from(m) \in 1..l /\ from(j) < from(m)
      BY <1>3, <1>4, <2>2
    <3>2. IsDigit(s[from(j)]) /\ IsDigit(s[from(m)])
      BY <1>2, <2>2
    <3> QED BY <1>2, <1>5, <3>1, <3>2
  <2> QED BY <1>2, <2>1, <2>2 DEF Copies
<1> QED BY <1>6 DEF t

LEMMA InsertsInto ==
    ASSUME NEW u, NEW s \in Seq(Nat), NEW pos, Copies(s, u, pos),
           NEW i \in 1..Len(s) + 1, NEW c \in Nat, ~IsDigit(c), c # Plus
    PROVE  \E new : Copies(InsertAt(s, i, c), u, new)
<1> DEFINE l == Len(s)
           t == InsertAt(s, i, c)
           from(j) == IF j < i THEN j ELSE j - 1
           new == [j \in 1..l + 1 |-> IF j = i THEN 1 ELSE pos[from(j)]]
<1>1. l \in Nat /\ i \in 1..l + 1
  OBVIOUS
<1>2. Len(t) = l + 1 /\ \A j \in 1..l + 1 : IF j = i THEN t[j] = c /\ new[j] = 1
                                           ELSE t[j] = s[from(j)] /\ new[j] = pos[from(j)]
  <2>1. \A j \in 1..l + 1 : t[j] = IF j < i THEN s[j] ELSE IF j = i THEN c ELSE s[j - 1]
    BY InsertIs
  <2>2. Len(t) = l + 1
    BY InsertIs
  <2> HIDE DEF t, l
  <2> QED BY <1>1, <2>1, <2>2
<1>3. \A j \in 1..l + 1 : j # i => from(j) \in 1..l
  <2> HIDE DEF l
  <2> QED BY <1>1
<1>4. \A j, m \in 1..l + 1 : j # i /\ m # i /\ j < m => from(j) < from(m)
  <2> HIDE DEF l
  <2> QED BY <1>1
<1>5. /\ \A j \in 1..l : /\ s[j] # Plus
                         /\ pos[j] \in 1..2 * Size
                         /\ IsDigit(s[j]) => s[j] = toCompactString(u)[pos[j]]
      /\ \A j, m \in 1..l : j < m /\ IsDigit(s[j]) /\ IsDigit(s[m]) => pos[j] < pos[m]
  BY DEF Copies
<1>6. 1 \in 1..2 * Size
  BY DEF Size
<1> HIDE DEF l, t, new, from
<1>7. Copies(t, u, new)
  <2>1. ASSUME NEW j \in 1..l + 1
        PROVE  /\ t[j] # Plus
               /\ new[j] \in 1..2 * Size
               /\ IsDigit(t[j]) => t[j] = toCompactString(u)[new[j]]
    BY <1>2, <1>3, <1>5, <1>6
  <2>2. ASSUME NEW j \in 1..l + 1, NEW m \in 1..l + 1, j < m, IsDigit(t[j]), IsDigit(t[m])
        PROVE  new[j] < new[m]
    <3>1. j # i /\ m # i
      BY <1>2, <2>2
    <3> QED BY <1>2, <1>3, <1>4, <1>5, <2>2, <3>1
  <2> QED BY <1>2, <2>1, <2>2 DEF Copies
<1> QED BY <1>7 DEF t


-----------------------------------------------------------------------------
\* The text as printed.

LEMMA PrintedIs ==
    ASSUME NEW u, IsUuid(u), NEW i \in 1..Length
    PROVE  /\ toString(u)[i] \in Nat
           /\ i \in {9, 14, 19, 24} => toString(u)[i] = Hyphen
           /\ i \notin {9, 14, 19, 24} =>
                  /\ i - HyphensBefore(i) \in 1..2 * Size
                  /\ toString(u)[i] = toCompactString(u)[i - HyphensBefore(i)]
                  /\ toString(u)[i] < 16
<1>1. i \notin {9, 14, 19, 24} => i - HyphensBefore(i) \in 1..2 * Size
  BY DEF HyphensBefore, Size, Length
<1>2. toString(u)[i] = IF i \in {9, 14, 19, 24} THEN Hyphen
                       ELSE toCompactString(u)[i - HyphensBefore(i)]
  BY DEF toString
<1>3. CASE i \in {9, 14, 19, 24}
  BY <1>2, <1>3 DEF Hyphen
<1>4. CASE i \notin {9, 14, 19, 24}
  BY <1>1, <1>2, <1>4, DigitIs
<1> QED BY <1>3, <1>4, <1>1

LEMMA PrintedIsString ==
    ASSUME NEW u, IsUuid(u)
    PROVE  toString(u) \in Seq(Nat) /\ Len(toString(u)) = Length
<1>1. toString(u) = [i \in 1..Length |-> toString(u)[i]]
  BY DEF toString
<1>2. \A i \in 1..Length : toString(u)[i] \in Nat
  BY PrintedIs
<1> DEFINE t == toString(u)
<1>3. Length \in Nat
  BY DEF Length
<1> HIDE DEF t
<1>4. t \in Seq(Nat)
  BY <1>1, <1>2, <1>3 DEF t
<1> QED BY <1>1, <1>3, <1>4 DEF t

LEMMA PrintedIsCopy ==
    ASSUME NEW u, IsUuid(u)
    PROVE  \E pos : Copies(toString(u), u, pos)
<1> DEFINE t == toString(u)
           l == Length
           pos == [i \in 1..l |-> IF i \in {9, 14, 19, 24} THEN 1 ELSE i - HyphensBefore(i)]
<1>1. Len(t) = l
  BY PrintedIsString
<1>2. \A i \in 1..l : i \in {9, 14, 19, 24} => t[i] = Hyphen /\ pos[i] = 1
  BY PrintedIs
<1>3. \A i \in 1..l : i \notin {9, 14, 19, 24} =>
          /\ pos[i] = i - HyphensBefore(i) /\ pos[i] \in 1..2 * Size
          /\ t[i] = toCompactString(u)[pos[i]] /\ t[i] \in Nat /\ t[i] < 16
  BY PrintedIs
<1> HIDE DEF t, pos
<1>4. 1 \in 1..2 * Size
  BY DEF Size
<1>5. ASSUME NEW i \in 1..l
      PROVE  /\ t[i] # Plus
             /\ pos[i] \in 1..2 * Size
             /\ IsDigit(t[i]) => t[i] = toCompactString(u)[pos[i]]
  <2>1. CASE i \in {9, 14, 19, 24}
    BY <1>2, <1>4, <2>1 DEF Hyphen, Plus, IsDigit
  <2>2. CASE i \notin {9, 14, 19, 24}
    BY <1>3, <2>2 DEF Plus
  <2> QED BY <2>1, <2>2
<1>6. ASSUME NEW i \in 1..l, NEW j \in 1..l, i < j, IsDigit(t[i]), IsDigit(t[j])
      PROVE  pos[i] < pos[j]
  <2>1. i \notin {9, 14, 19, 24} /\ j \notin {9, 14, 19, 24}
    BY <1>2, <1>6 DEF Hyphen, IsDigit
  <2>2. pos[i] = i - HyphensBefore(i) /\ pos[j] = j - HyphensBefore(j)
    BY <1>3, <2>1
  <2>3. i - HyphensBefore(i) < j - HyphensBefore(j)
    BY <1>6, <2>1 DEF HyphensBefore
  <2> QED BY <2>2, <2>3
<1>7. Copies(t, u, pos)
  BY <1>1, <1>5, <1>6 DEF Copies
<1> QED BY <1>7 DEF t

-----------------------------------------------------------------------------
\* fromString takes the text as printed: four rounds and one for the hyphen, ...
HyphensIn(n) == IF n <= 4 THEN 0 ELSE IF n <= 7 THEN 1 ELSE IF n <= 10 THEN 2
                ELSE IF n <= 13 THEN 3 ELSE 4

GoesOn(r, n) == /\ ~r.failed
                /\ r.place = 2 * n - HyphensIn(n) + 1
                /\ r.bytes \in Seq(Nat) /\ Len(r.bytes) = n - HyphensIn(n)

LEMMA NextRound ==
    ASSUME NEW u, IsUuid(u), NEW n \in Nat, n < 20, NEW r, GoesOn(r, n)
    PROVE  GoesOn(Round(toString(u), r), n + 1)
<1> DEFINE s == toString(u)
           p == r.place
           b == r.bytes
           t == Round(s, r)
           m == n - HyphensIn(n)
<1>1. /\ p \in Nat /\ p >= 1 /\ p <= 35 /\ m \in Nat /\ m < 16
      /\ p = 2 * n - HyphensIn(n) + 1
  BY DEF GoesOn, HyphensIn
<1>2. p \in 1..Length /\ p + 1 \in 1..Length /\ p + 1 <= Length /\ ~(p > Length)
  <2> HIDE DEF p
  <2> QED BY <1>1 DEF Length
<1>3. Len(s) = Length
  BY PrintedIsString
<1>4. ~r.failed /\ b \in Seq(Nat) /\ Len(b) = m /\ Len(b) # Size
  <2>1. ~r.failed /\ b \in Seq(Nat) /\ Len(b) = m
    BY DEF GoesOn
  <2> HIDE DEF m
  <2> QED BY <1>1, <2>1 DEF Size
<1>5. CASE n \in {4, 7, 10, 13}
  <2>1. p \in {9, 14, 19, 24}
    BY <1>1, <1>5 DEF HyphensIn
  <2>2. s[p] = Hyphen
    <3> HIDE DEF p
    <3> QED BY <1>2, <2>1, PrintedIs
  <2>3. t = [r EXCEPT !.place = @ + 1]
    BY <1>2, <1>3, <1>4, <2>2 DEF Round
  <2>4. HyphensIn(n + 1) = HyphensIn(n) + 1 /\ HyphensIn(n) \in Nat
    BY <1>5 DEF HyphensIn
  <2> HIDE DEF s
  <2>5. t.failed = r.failed /\ t.place = p + 1 /\ t.bytes = b
    BY <2>3
  <2> HIDE DEF t, p, b
  <2>6. p + 1 = 2 * (n + 1) - HyphensIn(n + 1) + 1 /\ m = (n + 1) - HyphensIn(n + 1)
    BY <1>1, <2>4
  <2> HIDE DEF m
  <2> QED BY <1>4, <2>5, <2>6 DEF GoesOn, t, s
<1>6. CASE n \notin {4, 7, 10, 13}
  <2>1. p \notin {9, 14, 19, 24} /\ p + 1 \notin {9, 14, 19, 24}
    BY <1>1, <1>6 DEF HyphensIn
  <2>2. s[p] \in Nat /\ s[p] < 16 /\ s[p + 1] \in Nat /\ s[p + 1] < 16
    <3> HIDE DEF p
    <3> QED BY <1>2, <2>1, PrintedIs
  <2> DEFINE c == s[p]
             d == s[p + 1]
             e == 16 * c + d
  <2>3. IsByte(c, d) /\ ByteOf(c, d) = e /\ c # Hyphen /\ e \in Nat
    <3> HIDE DEF c, d
    <3> QED BY <2>2 DEF IsByte, ByteOf, IsDigit, Hyphen, Plus, c, d
  <2>4. t = [place |-> p + 2, failed |-> FALSE, bytes |-> Append(b, e)]
    BY <1>2, <1>3, <1>4, <2>3 DEF Round
  <2>5. HyphensIn(n + 1) = HyphensIn(n) /\ HyphensIn(n) \in Nat
    BY <1>6 DEF HyphensIn
  <2> HIDE DEF e, s
  <2>6. ~t.failed /\ t.place = p + 2 /\ t.bytes = Append(b, e)
    <3> HIDE DEF t
    <3> QED BY <2>4
  <2> HIDE DEF t, p, b
  <2>7. /\ p + 2 = 2 * (n + 1) - HyphensIn(n + 1) + 1
        /\ m + 1 = (n + 1) - HyphensIn(n + 1)
    BY <1>1, <2>5
  <2> HIDE DEF m
  <2>8. Append(b, e) \in Seq(Nat) /\ Len(Append(b, e)) = m + 1
    BY <1>1, <1>4, <2>3
  <2> QED BY <2>6, <2>7, <2>8 DEF GoesOn, t, s
<1> QED BY <1>5, <1>6

LEMMA PrintedIsRead ==
    ASSUME NEW u, IsUuid(u)
    PROVE  fromString(toString(u)).is = "ok"
<1> DEFINE s == toString(u)
           a == Rounds(s)
           l == Length
           K == {n \in Nat : n <= 20 => GoesOn(a[n], n)}
           F == {n \in Nat : n + 20 <= l => a[n + 20] = a[20]}
<1>1. Len(s) = Length /\ l \in Nat /\ l = 36
  BY PrintedIsString DEF Length
<1>2. a[0] = StartRound /\ \A n \in 0..l - 1 : a[n + 1] = Round(s, a[n])
  BY RoundsAre
<1> HIDE DEF a, l
<1>3. 0 \in K
  <2>1. GoesOn(StartRound, 0)
    <3>1. HyphensIn(0) = 0
      BY DEF HyphensIn
    <3>2. <<>> \in Seq(Nat) /\ Len(<<>>) = 0
      OBVIOUS
    <3> QED BY <3>1, <3>2 DEF GoesOn, StartRound
  <2> QED BY <1>2, <2>1
<1>4. ASSUME NEW n \in Nat, n \in K PROVE n + 1 \in K
  <2> SUFFICES ASSUME n + 1 <= 20 PROVE GoesOn(a[n + 1], n + 1)
    OBVIOUS
  <2>1. GoesOn(a[n], n) /\ n < 20 /\ n \in 0..l - 1
    BY <1>1, <1>4
  <2> QED BY <1>2, <2>1, NextRound
<1> HIDE DEF K
<1>5. GoesOn(a[20], 20)
  <2>1. 20 \in K
    BY <1>3, <1>4, AllNumbers
  <2> QED BY <2>1 DEF K
<1>6. ~a[20].failed /\ Len(a[20].bytes) = Size
  BY <1>5 DEF GoesOn, HyphensIn, Size
<1>7. Round(s, a[20]) = a[20]
  BY <1>6 DEF Round
<1>8. 0 \in F
  OBVIOUS
<1>9. ASSUME NEW n \in Nat, n \in F PROVE n + 1 \in F
  <2> SUFFICES ASSUME (n + 1) + 20 <= l PROVE a[(n + 1) + 20] = a[20]
    OBVIOUS
  <2>1. n + 20 <= l /\ n + 20 \in 0..l - 1 /\ (n + 20) + 1 = (n + 1) + 20
    BY <1>1
  <2>2. a[n + 20] = a[20]
    BY <1>9, <2>1
  <2>3. a[(n + 20) + 1] = Round(s, a[n + 20])
    BY <1>2, <2>1
  <2> QED BY <1>7, <2>1, <2>2, <2>3
<1> HIDE DEF F
<1>10. a[l] = a[20]
  <2>1. 16 \in F
    BY <1>8, <1>9, AllNumbers
  <2> QED BY <1>1, <2>1 DEF F
<1>11. fromString(s) = IF a[l].failed THEN Error ELSE Finish(a[l].bytes)
  BY <1>1 DEF fromString, a, l
<1>12. fromString(s) = Valid(a[20].bytes)
  BY <1>6, <1>10, <1>11 DEF Finish
<1> QED BY <1>12 DEF Valid

-----------------------------------------------------------------------------
UuidIInv == /\ IsUuid(uuid)
            /\ str \in Seq(Nat)
            /\ slips \in Nat
            /\ digits \in BOOLEAN
            /\ slips = 0 => str = toString(uuid)
            /\ ~digits => \E pos : Copies(str, uuid, pos)

LEMMA GeneratedIs ==
    ASSUME NEW bytes \in Random
    PROVE  IsUuid(generateUUIDv4(bytes))
<1> DEFINE u == generateUUIDv4(bytes)
           k == Size
<1>1. /\ bytes = [i \in 1..k |-> bytes[i]]
      /\ \A i \in 1..k : bytes[i] \in Nat /\ bytes[i] < 256
  BY UuidAssumption
<1>2. 7 \in 1..k /\ 9 \in 1..k
  BY DEF Size
<1> HIDE DEF k
<1>3. /\ bytes[7] \in Nat /\ bytes[9] \in Nat
      /\ (bytes[7] % 16) + 64 \in Nat /\ (bytes[7] % 16) + 64 < 256
      /\ ((bytes[7] % 16) + 64) \div 16 = 4
      /\ (bytes[9] % 64) + 128 \in Nat /\ (bytes[9] % 64) + 128 < 256
      /\ ((bytes[9] % 64) + 128) \div 16 \in 8..11
  <2> DEFINE a == bytes[7]
             b == bytes[9]
  <2>1. a \in Nat /\ b \in Nat
    BY <1>1, <1>2
  <2> HIDE DEF a, b
  <2>2. /\ (a % 16) + 64 \in Nat /\ (a % 16) + 64 < 256
        /\ ((a % 16) + 64) \div 16 = 4
    BY <2>1
  <2>3. /\ (b % 64) + 128 \in Nat /\ (b % 64) + 128 < 256
        /\ ((b % 64) + 128) \div 16 \in 8..11
    BY <2>1
  <2> QED BY <2>1, <2>2, <2>3 DEF a, b
<1> DEFINE x == (bytes[7] % 16) + 64
           y == (bytes[9] % 64) + 128
<1>4. u = [bytes EXCEPT ![7] = x, ![9] = y]
  BY DEF generateUUIDv4
<1> HIDE DEF u, x, y
<1>5. u \in [1..k -> Octet] /\ u[7] = x /\ u[9] = y
  <2>1. bytes \in [1..k -> Octet]
    BY <1>1 DEF Octet
  <2>2. x \in Octet /\ y \in Octet
    BY <1>3 DEF Octet, x, y
  <2> QED BY <1>2, <1>4, <2>1, <2>2
<1> QED BY <1>3, <1>5 DEF IsUuid, u, k, x, y

LEMMA UuidInvarianceInit == UuidInit => UuidIInv
<1> SUFFICES ASSUME UuidInit PROVE UuidIInv
  OBVIOUS
<1>1. IsUuid(uuid)
  BY GeneratedIs DEF UuidInit
<1>2. str = toString(uuid) /\ slips = 0 /\ digits = FALSE
  BY DEF UuidInit
<1> QED BY <1>1, <1>2, PrintedIsString, PrintedIsCopy DEF UuidIInv

LEMMA UuidInvarianceNext == UuidIInv /\ [UuidNext]_uuidVars => UuidIInv'
<1> SUFFICES ASSUME UuidIInv, [UuidNext]_uuidVars PROVE UuidIInv'
  OBVIOUS
<1>1. CASE UNCHANGED uuidVars
  BY <1>1 DEF UuidIInv, uuidVars
<1>2. ASSUME NEW s, NEW written, Slip(s, written), s \in Seq(Nat),
             ~digits /\ ~IsDigit(written) /\ written # Plus => \E pos : Copies(s, uuid, pos)
      PROVE  UuidIInv'
  <2>1. /\ uuid' = uuid /\ str' = s /\ slips' = slips + 1
        /\ digits' = (digits \/ IsDigit(written) \/ written = Plus)
    BY <1>2 DEF Slip
  <2>2. slips' \in Nat /\ slips' # 0
    BY <2>1 DEF UuidIInv
  <2>3. ~digits' => \E pos : Copies(str', uuid', pos)
    BY <1>2, <2>1
  <2>4. digits' \in BOOLEAN
    BY <2>1
  <2> QED BY <1>2, <2>1, <2>2, <2>3, <2>4 DEF UuidIInv
<1>3. str \in Seq(Nat) /\ DOMAIN str = 1..Len(str) /\ ~IsDigit(Hyphen) /\ Hyphen # Plus
  BY DEF UuidIInv, IsDigit, Hyphen, Plus
<1>4. \A c \in Slips : c \in Nat
  BY UuidAssumption
<1>5. ~digits => \E pos : Copies(str, uuid, pos)
  BY DEF UuidIInv
<1>6. CASE WriteOther
  <2>1. PICK i \in 1..Len(str) : \E c \in Slips : Slip([str EXCEPT ![i] = c], c)
    BY <1>3, <1>6 DEF WriteOther
  <2>2. PICK c \in Slips : Slip([str EXCEPT ![i] = c], c)
    BY <2>1
  <2>3. c \in Nat /\ [str EXCEPT ![i] = c] \in Seq(Nat)
    BY <1>3, <1>4
  <2>4. ASSUME ~digits /\ ~IsDigit(c) /\ c # Plus
        PROVE  \E pos : Copies([str EXCEPT ![i] = c], uuid, pos)
    <3>1. PICK pos : Copies(str, uuid, pos)
      BY <1>5, <2>4
    <3>2. Copies([str EXCEPT ![i] = c], uuid, pos)
      BY <1>3, <2>3, <2>4, <3>1, ReplacesIn
    <3> QED BY <3>2
  <2> QED BY <1>2, <2>2, <2>3, <2>4
<1>7. CASE LeaveOut
  <2>1. PICK i \in 1..Len(str) : Slip(RemoveAt(str, i), Hyphen)
    BY <1>3, <1>7 DEF LeaveOut
  <2>2. RemoveAt(str, i) \in Seq(Nat)
    BY <1>3, RemoveIs
  <2>3. ASSUME ~digits PROVE \E pos : Copies(RemoveAt(str, i), uuid, pos)
    <3>1. PICK pos : Copies(str, uuid, pos)
      BY <1>5, <2>3
    <3> QED BY <1>3, <3>1, RemovesFrom
  <2> QED BY <1>2, <2>1, <2>2, <2>3
<1>8. CASE WriteMore
  <2>1. PICK i \in 1..Len(str) + 1 : \E c \in Slips : Slip(InsertAt(str, i, c), c)
    BY <1>8 DEF WriteMore
  <2>2. PICK c \in Slips : Slip(InsertAt(str, i, c), c)
    BY <2>1
  <2>3. c \in Nat /\ InsertAt(str, i, c) \in Seq(Nat)
    BY <1>3, <1>4, InsertIs
  <2>4. ASSUME ~digits /\ ~IsDigit(c) /\ c # Plus
        PROVE  \E pos : Copies(InsertAt(str, i, c), uuid, pos)
    <3>1. PICK pos : Copies(str, uuid, pos)
      BY <1>5, <2>4
    <3> QED BY <1>3, <2>3, <2>4, <3>1, InsertsInto
  <2> QED BY <1>2, <2>2, <2>3, <2>4
<1> QED BY <1>1, <1>6, <1>7, <1>8 DEF UuidNext

\* Without a digit or a plus by mistake, the text stays a copy of the UUID (and
\* is the one printed until the first slip), whatever slips are made.
THEOREM UuidInvariance == UuidSpec => []UuidIInv
BY UuidInvarianceInit, UuidInvarianceNext, PTL DEF UuidSpec

LEMMA PrintedShowsVersion ==
    ASSUME NEW u, IsUuid(u)
    PROVE  toString(u)[15] = 4 /\ toString(u)[20] \in 8..11
<1>1. /\ 15 \in 1..Length /\ 15 \notin {9, 14, 19, 24} /\ 15 - HyphensBefore(15) = 13
      /\ 20 \in 1..Length /\ 20 \notin {9, 14, 19, 24} /\ 20 - HyphensBefore(20) = 17
  BY DEF Length, HyphensBefore
<1>2. toString(u)[15] = toCompactString(u)[13] /\ toString(u)[20] = toCompactString(u)[17]
  BY <1>1, PrintedIs
<1>3. /\ 7 \in 1..Size /\ 2 * 7 - 1 = 13
      /\ 9 \in 1..Size /\ 2 * 9 - 1 = 17
  BY DEF Size
<1>4. toCompactString(u)[13] = u[7] \div 16 /\ toCompactString(u)[17] = u[9] \div 16
  BY <1>3, DigitsAre
<1> QED BY <1>2, <1>4 DEF IsUuid

\* fromString reads the UUID of what was printed, and never another one of a text
\* with hyphens or other characters put in, over others or left out (uuid.zig:58).
THEOREM UuidsReadBack == UuidSpec => []ReadsOnlyItself
<1>1. UuidIInv => ReadsOnlyItself
  <2> SUFFICES ASSUME UuidIInv PROVE ReadsOnlyItself
    OBVIOUS
  <2>1. ASSUME ~digits, fromString(str).is = "ok" PROVE fromString(str) = Valid(uuid)
    BY <2>1, CopiesRead DEF UuidIInv
  <2>2. ASSUME slips = 0
        PROVE  fromString(str) = Valid(uuid) /\ str[15] = 4 /\ str[20] \in 8..11
    <3>1. IsUuid(uuid) /\ str = toString(uuid) /\ str \in Seq(Nat)
      BY <2>2 DEF UuidIInv
    <3>2. fromString(str) = Valid(uuid)
      BY <3>1, PrintedIsRead, PrintedIsCopy, CopiesRead
    <3> QED BY <3>1, <3>2, PrintedShowsVersion
  <2> QED BY <2>1, <2>2 DEF ReadsOnlyItself
<1> QED BY <1>1, UuidInvariance, PTL
=============================================================================
