---------------------------- MODULE MCSequential ----------------------------
(* The components that one thread uses by itself, each checked by itself:  *)
(* in one run, in which one of them moves (`part') from its initial states *)
(* and the others keep one state that they can be in.                      *)
EXTENDS MCQuery, Rc, Timestamp, Calendar, Commands, MessageChain, Uuid

VARIABLE part

J(type, keys) == [type |-> type, data |-> [k \in keys |-> k]]

SomeMessages ==
    UNION {[1..n -> {J("text", {"text"}), J("at", {"qq"}), J("at", {"qq", "name"}),
                     J("image", {"file", "filename", "url", "summary", "subType"}),
                     J("image", {"file"}), J("face", {"id"})}] : n \in 0..2}

\* The least and the greatest numbers of seconds of the right length, and
\* fractions with a digit in each place.
SomeInstants == [unix_seconds: {100, 101, 120, 500, 998, 999},
                 nanoseconds: {0, 1, 1000, 1000000, 100000000, 120034005,
                               999999999}]

SomeClocks ==
    {[hour |-> 0, minute |-> 0, second |-> 0, nanoseconds |-> 0],
     [hour |-> 9, minute |-> 5, second |-> 59, nanoseconds |-> 7000],
     [hour |-> 23, minute |-> 59, second |-> 59, nanoseconds |-> 999999999]}

SomeFractions == UNION {{[digits |-> d, value |-> v] : v \in {0, 1, 10^d - 1}} :
                            d \in 1..9}

\* A sign that shares two bytes with the mark, blanks, and a city.
SomeCharacters == {<<33>>, <<47>>, <<239, 188, 129>>, <<239, 188, 140>>,
                   <<106>>, <<116>>, <<32>>, <<229, 184, 130>>}

jt == <<106, 116>>

SomeBytes == {[i \in 1..16 |-> (i * 37) % 256], [i \in 1..16 |-> 16 - i]}

\* 2 January 1970, and a text that begins with a slip: states that are checked
\* at little expense.
CalendarRests == /\ date = [year |-> EpochYear, month |-> 1, day |-> 2] /\ days = 1
                 /\ clock = CHOOSE c \in Clocks : TRUE

UuidRests == /\ uuid = CHOOSE u \in {generateUUIDv4(b) : b \in Random} : TRUE
             /\ str = [toString(uuid) EXCEPT ![1] = Other]
             /\ slips = 1 /\ digits = FALSE

Parts == {"timestamp", "calendar", "command", "chain", "uuid", "rc", "query"}

Start == /\ part \in Parts
         /\ TimestampInit /\ (part # "timestamp" => origin = CHOOSE t \in Instants : TRUE)
         /\ IF part = "calendar" THEN CalendarInit ELSE CalendarRests
         /\ CommandInit
         /\ ChainInit /\ (part # "chain" => message = <<>>)
         /\ IF part = "uuid" THEN UuidInit ELSE UuidRests
         /\ Init   \* of Rc
         /\ QueryInit /\ (part # "query" => query = NothingFound)

Units == /\ part = "timestamp" /\ TimestampNext
         /\ UNCHANGED <<part, calendarVars, commandVars, chainVars,
                        uuidVars, vars, queryVars>>
Days == /\ part = "calendar" /\ CalendarNext
        /\ UNCHANGED <<part, timestampVars, commandVars, chainVars,
                       uuidVars, vars, queryVars>>
Typing == /\ part = "command" /\ Type
          /\ UNCHANGED <<part, timestampVars, calendarVars, chainVars,
                         uuidVars, vars, queryVars>>
Chaining == /\ part = "chain" /\ ChainNext
            /\ UNCHANGED <<part, timestampVars, calendarVars, commandVars,
                           uuidVars, vars, queryVars>>
Copying == /\ part = "uuid" /\ UuidNext
           /\ UNCHANGED <<part, timestampVars, calendarVars, commandVars,
                          chainVars, vars, queryVars>>
Counting == /\ part = "rc" /\ Next
            /\ UNCHANGED <<part, timestampVars, calendarVars, commandVars,
                           chainVars, uuidVars, queryVars>>
Asking == /\ part = "query" /\ QueryNext
          /\ UNCHANGED <<part, timestampVars, calendarVars, commandVars,
                         chainVars, uuidVars, vars>>

Sequential ==
    Start /\ [][Units \/ Days \/ Typing \/ Chaining \/ Copying \/ Counting \/ Asking]_<<part,
        timestampVars, calendarVars, commandVars, chainVars, uuidVars, vars, queryVars>>

=============================================================================
