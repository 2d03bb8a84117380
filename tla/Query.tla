------------------------------- MODULE Query --------------------------------
(***************************************************************************)
(* src/mongodb.zig, MongoConnection: find and findOne, and what main.zig   *)
(* does with the arcades it finds ("jt").  A query walks a cursor of the   *)
(* driver and converts each document while it is there.  Any step may      *)
(* fail: the cursor cannot be made, it breaks off (mongoc_cursor_next      *)
(* says no more about it than at the end), a document does not fit the     *)
(* type, memory is short.  The filter and the cursor are objects of the    *)
(* driver that have to be destroyed on every path.                         *)
(*                                                                         *)
(* The driver is modelled from its use here.  A panic ends the process.    *)
(* (Faulty_X: X with a bug, to see that the properties notice it.)         *)
(***************************************************************************)
EXTENDS Bson

CONSTANTS ArcadeInfo,  \* the type "jt" asks for
          Queries      \* what may be asked: a call, the type of the result and
                       \* the matching documents; the values they were written
                       \* from, if toBson wrote them

ASSUME QueriesAssumption ==
    /\ \E i \in 1..Len(ArcadeInfo.fields) :
           ArcadeInfo.fields[i].name = "arcade_num" /\ ArcadeInfo.fields[i].type.kind = "i32"
    /\ \A q \in Queries :
        /\ q.call \in {"find", "findOne"}
        /\ q.type \in Types /\ q.type.kind = "struct"
        /\ q.docs \in Seq({q.docs[i] : i \in 1..Len(q.docs)})
        /\ \A i \in 1..Len(q.docs) : \A n \in DOMAIN q.docs[i] : q.docs[i][n] \in Values
        /\ q.written # <<>> =>
               /\ Len(q.docs) = Len(q.written)
               /\ \A i \in 1..Len(q.docs) :
                      /\ q.written[i] \in Written[q.type]
                      /\ q.docs[i] = toBson(q.type, q.written[i])

VARIABLES query,
          step,     \* the next step: "open", "next", "convert", "sum", "over"
          filter,   \* "open" or "destroyed"
          cursor,   \* "none", "open", "destroyed", or null
          read,     \* documents the cursor has delivered
          broken,   \* history: the cursor broke off
          results,
          total,    \* i32: the people in the arcades
          summed,   \* arcades counted so far
          outcome   \* "running", "ok", "error", "panic"

queryVars == <<query, step, filter, cursor, read, broken, results, total, summed, outcome>>

QueryTypeOK ==
    /\ query \in Queries
    /\ step \in {"open", "next", "convert", "sum", "over"}
    /\ filter \in {"open", "destroyed"}
    /\ cursor \in {"none", "open", "destroyed", "null"}
    /\ read \in 0..Len(query.docs) /\ broken \in BOOLEAN
    /\ Len(results) <= read
    /\ \A i \in 1..Len(results) : DOMAIN results[i] = NamesOf(query.type)
    /\ InRange(total, MaxI32) /\ summed \in 0..Len(results)
    /\ outcome \in {"running", "ok", "error", "panic"}

\* toBson of a filter of strings does not fail.
QueryInit ==
    /\ query \in Queries
    /\ step = "open"
    /\ filter = "open" /\ cursor = "none"
    /\ read = 0 /\ broken = FALSE /\ results = <<>>
    /\ total = 0 /\ summed = 0
    /\ outcome = "running"

Doc == query.docs[read]

Faulty_Return(o) == /\ step' = "over" /\ outcome' = o   \* errors skip the defers
                    /\ IF o = "error" THEN UNCHANGED <<filter, cursor>>
                       ELSE filter' = "destroyed" /\ cursor' = "destroyed"

\* Leave find or findOne by way of its defers.
Return(o) == /\ filter' = "destroyed"
             /\ cursor' = IF cursor = "open" THEN "destroyed" ELSE cursor
             /\ IF o = "ok" /\ query.call = "find" /\ query.type = ArcadeInfo
                THEN step' = "sum" /\ outcome' = outcome
                ELSE step' = "over" /\ outcome' = o

Ends(o) == step' = "over" /\ outcome' = o

-----------------------------------------------------------------------------

OpenCursor == /\ step = "open"
              /\ cursor' = "open" /\ step' = "next"
              /\ UNCHANGED <<query, filter, read, broken, results, total, summed, outcome>>

\* findOne returns an error; find hands the null to the driver, which asserts.
NoCursor == /\ step = "open"
            /\ cursor' = "null"
            /\ IF query.call = "findOne"
               THEN filter' = "destroyed" /\ Ends("error")
               ELSE Ends("panic") /\ UNCHANGED filter
            /\ UNCHANGED <<query, read, broken, results, total, summed>>

Deliver == /\ step = "next" /\ read < Len(query.docs)
           /\ read' = read + 1 /\ step' = "convert"
           /\ UNCHANGED <<query, filter, cursor, broken, results, total, summed, outcome>>

NoMore == Return("ok") /\ UNCHANGED <<query, read, results, total, summed>>

Exhausted == /\ step = "next" /\ read = Len(query.docs)
             /\ NoMore /\ UNCHANGED broken

\* The connection or the server fails: to the code this is the end as well.
BreaksOff == /\ step = "next"
             /\ NoMore /\ broken' = TRUE

Faulty_Convert ==   \* documents that do not fit are passed over
    /\ step = "convert"
    /\ LET r == fromBson(query.type, Doc) IN
       \/ /\ r.is = "ok"
          /\ results' = Append(results, r.value)
          /\ IF query.call = "find"
             THEN step' = "next" /\ UNCHANGED <<filter, cursor, outcome>> ELSE Return("ok")
       \/ r.is = "error" /\ step' = "next" /\ UNCHANGED <<results, filter, cursor, outcome>>
       \/ r.is = "panic" /\ Ends("panic") /\ UNCHANGED <<filter, cursor, results>>
    /\ UNCHANGED <<query, read, broken, total, summed>>

\* One document that does not fit fails the whole query.
Convert ==
    /\ step = "convert"
    /\ LET r == fromBson(query.type, Doc) IN
       \/ /\ r.is = "ok"
          /\ results' = Append(results, r.value)
          /\ IF query.call = "find"
             THEN step' = "next" /\ UNCHANGED <<filter, cursor, outcome>> ELSE Return("ok")
       \/ r.is = "error" /\ Return("error") /\ UNCHANGED results
       \/ r.is = "panic" /\ Ends("panic") /\ UNCHANGED <<filter, cursor, results>>
    /\ UNCHANGED <<query, read, broken, total, summed>>

\* Copying a string, or growing the list.
OutOfMemory == /\ step = "convert"
               /\ Return("error")
               /\ UNCHANGED <<query, read, broken, results, total, summed>>

\* for (arcades) |arcade| total_people += arcade.arcade_num
Sum == /\ step = "sum" /\ summed < Len(results)
       /\ LET t == total + results[summed + 1]["arcade_num"] IN
          IF InRange(t, MaxI32)
          THEN total' = t /\ summed' = summed + 1 /\ UNCHANGED <<step, outcome>>
          ELSE Ends("panic") /\ UNCHANGED <<total, summed>>
       /\ UNCHANGED <<query, filter, cursor, read, broken, results>>

Answer == /\ step = "sum" /\ summed = Len(results)
          /\ Ends("ok")
          /\ UNCHANGED <<query, filter, cursor, read, broken, results, total, summed>>

QueryNext ==
    \/ OpenCursor \/ NoCursor \/ Deliver \/ Exhausted \/ BreaksOff
    \/ Convert \/ OutOfMemory \/ Sum \/ Answer

QuerySpec == QueryInit /\ [][QueryNext]_queryVars

-----------------------------------------------------------------------------
(* Whatever way a query ends, its filter and its cursor are destroyed, and *)
(* not before the last document has been converted (a panic aside).        *)
NothingLeft ==
    /\ step \in {"next", "convert"} => filter = "open" /\ cursor = "open"
    /\ step = "sum" \/ outcome \in {"ok", "error"}
           => filter = "destroyed" /\ cursor \in {"destroyed", "null"}

(* An answer is the conversion of the matching documents, each once and in *)
(* the order of the cursor: of all of them, or of the first ones when the  *)
(* cursor broke off, which the caller cannot tell (mongodb.zig:486).       *)
AnswerIsWhole ==
    /\ \A i \in 1..Len(results) : fromBson(query.type, query.docs[i]) = Ok(results[i])
    /\ outcome = "ok" /\ query.call = "find"
           => Len(results) = IF broken THEN read ELSE Len(query.docs)
    /\ outcome = "ok" /\ query.call = "findOne" /\ results = <<>>
           => query.docs = <<>> \/ broken

NumberTame(b) ==
    /\ b.type \in {"int32", "int64", "double"} => InRange(b.value, MaxI32)
    /\ b.type = "date" => b.value >= 0 /\ InRange(b.value \div 1000, MaxI32)

\* What is in documents further inside is never looked at.
Tame(b) == /\ NumberTame(b)
           /\ b.type = "document" => \A n \in DOMAIN b.value : NumberTame(b.value[n])

SumOf(arcades) ==   \* of the first n
    LET sum[n \in 0..Len(arcades)] ==
            IF n = 0 THEN 0 ELSE sum[n - 1] + arcades[n]["arcade_num"]
    IN  sum

(* What the database holds ends the process only by its numbers: one out   *)
(* of the range of an i32, a date before 1970, or too many people in all.  *)
(* Fields that are missing or of another type never do.                    *)
OnlyNumbersPanic == outcome = "panic" =>
    \/ cursor = "null"
    \/ \E i \in 1..read : \E n \in DOMAIN query.docs[i] : ~Tame(query.docs[i][n])
    \/ query.type = ArcadeInfo /\ summed < Len(results) /\ ~InRange(SumOf(results)[summed + 1], MaxI32)

-----------------------------------------------------------------------------
(* What toBson wrote *)

WholeAnswer == outcome = "ok" /\ query.call = "find" /\ ~broken

AsWritten == /\ Len(results) = Len(query.written)
             /\ \A i \in 1..Len(results) : results[i] = query.written[i]

HoldsStruct(T) == T.kind = "struct" \/ (T.kind = "optional" /\ T.of.kind = "struct")

\* No struct in a struct in the record.
Shallow(T) == \A n \in NamesOf(T) :
    LET F == TypeOfField(T, n)
        S == IF F.kind = "optional" THEN F.of ELSE F
    IN  HoldsStruct(F) => \A m \in NamesOf(S) : ~HoldsStruct(TypeOfField(S, m))

(* What toBson writes of a record, fromBson reads as it was, null and the  *)
(* values of the structs in it included, if there are no structs in these. *)
ShallowReadsBack ==
    WholeAnswer /\ query.written # <<>> /\ Shallow(query.type) => AsWritten

(* What toBson writes, fromBson reads as it was: it rebuilds a nested      *)
(* document and parses it by recursion, say the comments at mongodb.zig:155 *)
(* and 160.  It does not: copyBsonField skips what is nested in it.        *)
WrittenReadsBack == WholeAnswer /\ query.written # <<>> => AsWritten

(* A field may be added to a type before the documents have it: a document *)
(* that can be read can be read without any of its fields, and the others  *)
(* keep their values.                                                      *)
MissingIsDefault ==
    step = "convert" /\ fromBson(query.type, Doc).is = "ok" =>
        \A n \in NamesOf(query.type) :
            LET without == [m \in DOMAIN Doc \ {n} |-> Doc[m]]
                v == fromBson(query.type, Doc).value
            IN  fromBson(query.type, without)
                    = Ok([v EXCEPT ![n] = setDefaultValue[TypeOfField(query.type, n)]])

=============================================================================
