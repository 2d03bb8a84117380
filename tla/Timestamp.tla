------------------------------ MODULE Timestamp -----------------------------
(***************************************************************************)
(* src/timestamp.zig, units: a timestamp that is written down in one unit  *)
(* or another (seconds, milli- or microseconds, a BSON date) and read back *)
(* any number of times.  A string of digits carries no unit: the parser    *)
(* tells it from the length.  The modules that use it are onebot.zig (the  *)
(* time of an event) and mongodb.zig (dates).                              *)
(*                                                                         *)
(* A number is its value; it has as many digits as its value needs.  The   *)
(* float format and its rounding are left out.                             *)
(* (Faulty_X: X with a bug, to see that the properties notice it.)         *)
(***************************************************************************)
EXTENDS Integers

CONSTANTS TenDigits,  \* the first number of seconds too long: 10^10 in the code
          Instants    \* timestamps that are written down

Timestamps == [unix_seconds: Nat, nanoseconds: {n \in Nat : n < 1000000000}]

\* TenDigits is a power of ten; divisible by ten is enough.  The seconds have
\* exactly ten digits: from September 2001 to November 2286.
ASSUME TimestampAssumption ==
    /\ TenDigits \in Nat /\ TenDigits % 10 = 0
    /\ Instants \subseteq Timestamps
    /\ \A t \in Instants : /\ TenDigits \div 10 <= t.unix_seconds
                           /\ t.unix_seconds < TenDigits

VARIABLES origin,  \* the timestamp at first
          ts,      \* the timestamp as last read
          wire,    \* what has been written
          coarse   \* history: nanoseconds in the coarsest unit used so far

timestampVars == <<origin, ts, wire, coarse>>

Nothing == [form |-> "none", value |-> 0]

TimestampInit == /\ origin \in Instants
                 /\ ts = origin /\ wire = Nothing /\ coarse = 1

-----------------------------------------------------------------------------

fromUnixSeconds(seconds) == [unix_seconds |-> seconds, nanoseconds |-> 0]

fromUnixMillis(millis) ==
    [unix_seconds |-> millis \div 1000,
     nanoseconds |-> (millis % 1000) * 1000000]

fromUnixMicros(micros) ==
    [unix_seconds |-> micros \div 1000000,
     nanoseconds |-> (micros % 1000000) * 1000]

toMillis(t) == t.unix_seconds * 1000 + t.nanoseconds \div 1000000

toMicros(t) == t.unix_seconds * 1000000 + t.nanoseconds \div 1000

Faulty_parseFromString(number) ==  \* 12 digits for 13
    IF number < TenDigits THEN fromUnixSeconds(number)
    ELSE IF 10 * TenDigits <= number /\ number < 100 * TenDigits
    THEN fromUnixMillis(number)
    ELSE fromUnixMicros(number)

\* At most 10 digits; 13; 16; any other number is taken as seconds, by way of
\* parseFloat.
parseFromString(number) ==
    IF number < TenDigits THEN fromUnixSeconds(number)
    ELSE IF 100 * TenDigits <= number /\ number < 1000 * TenDigits
    THEN fromUnixMillis(number)
    ELSE IF 100000 * TenDigits <= number /\ number < 1000000 * TenDigits
    THEN fromUnixMicros(number)
    ELSE fromUnixSeconds(number)

\* parseFromJson, for an integer and a string; readBsonField for a date.
ReadAs(w) == IF w.form = "integer" THEN fromUnixSeconds(w.value)
             ELSE IF w.form = "string" THEN parseFromString(w.value)
             ELSE fromUnixMillis(w.value)

-----------------------------------------------------------------------------

Write(form, value, unit) ==
    /\ wire = Nothing
    /\ wire' = [form |-> form, value |-> value]
    /\ coarse' = IF unit > coarse THEN unit ELSE coarse
    /\ UNCHANGED <<origin, ts>>

PrintUnix == \E form \in {"integer", "string"} :
                 Write(form, ts.unix_seconds, 1000000000)

PrintMillis == Write("string", toMillis(ts), 1000000)

PrintMicros == Write("string", toMicros(ts), 1000)

\* The database keeps dates in milliseconds.
StoreDate == Write("date", toMillis(ts), 1000000)

Read == /\ wire # Nothing
        /\ ts' = ReadAs(wire) /\ wire' = Nothing
        /\ UNCHANGED <<origin, coarse>>

TimestampNext == PrintUnix \/ PrintMillis \/ PrintMicros \/ StoreDate \/ Read

TimestampSpec == TimestampInit /\ [][TimestampNext]_timestampVars

-----------------------------------------------------------------------------
(* Properties.                                                             *)

Truncated(t, unit) ==
    [unix_seconds |-> t.unix_seconds,
     nanoseconds |-> t.nanoseconds - (t.nanoseconds % unit)]

\* However often a timestamp is written and read back, in whatever units, it
\* is the original one cut to the coarsest of them, and nothing else: no unit
\* is taken for another (parseFromString), no conversion rounds up or drifts.
NoDrift == wire = Nothing => ts = Truncated(origin, coarse)

=============================================================================
