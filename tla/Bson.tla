-------------------------------- MODULE Bson --------------------------------
(***************************************************************************)
(* src/mongodb.zig, BsonConverter: documents of the database to Zig        *)
(* structs and back, by reflection over the fields of the struct.          *)
(*                                                                         *)
(* A Zig type is [kind |-> "i32"], [kind |-> "optional", of |-> T] or      *)
(* [kind |-> "struct", fields |-> <<[name |-> n, type |-> T], ...>>].      *)
(* A BSON value is its type and its value; a document maps names to them.  *)
(* Strings and object ids are uninterpreted; a double is a whole number or *)
(* greater than every integer.  Reading gives [is |-> "ok", value |-> v],  *)
(* an error, or a panic (a number that @intCast or @intFromFloat refuses). *)
(* What does not compile is left out: arrays (an array field is assigned a *)
(* slice), and writing a Timestamp or an ObjectId.                         *)
(* (Faulty_X: X with a bug, to see that the properties notice it.)         *)
(***************************************************************************)
EXTENDS Integers, Sequences, FiniteSets

CONSTANTS MaxI32,        \* 2^31 - 1
          MaxI64,        \* 2^63 - 1
          NULL,          \* Zig's and BSON's null
          TypesInOrder,  \* the types in use, each after those it is made of
          Values,        \* the BSON values there may be, with those inside documents
          Written        \* for each type, the values the program writes

InRange(n, max) == -max - 1 <= n /\ n <= max

Ok(v)    == [is |-> "ok", value |-> v]
Mismatch == [is |-> "error"]
Panic    == [is |-> "panic"]

Cast(n, max) == IF InRange(n, max) THEN Ok(n) ELSE Panic

\* @divTrunc, which rounds towards zero.
DivTrunc(n, d) == IF n >= 0 THEN n \div d ELSE -((-n) \div d)

NamesOf(T) == {T.fields[i].name : i \in 1..Len(T.fields)}
Index(T, n) == CHOOSE i \in 1..Len(T.fields) : T.fields[i].name = n
TypeOfField(T, n) == T.fields[Index(T, n)].type

Types == {TypesInOrder[i] : i \in 1..Len(TypesInOrder)}

\* There is no ??T.
TypesAssumption ==
    /\ Len(TypesInOrder) \in Nat
    /\ \A i \in 1..Len(TypesInOrder) :
        LET T == TypesInOrder[i]
            before == {TypesInOrder[j] : j \in 1..i - 1}
        IN  \/ T.kind \in {"string", "i32", "i64", "unsigned", "float", "bool"}
            \/ T.kind = "optional" /\ T.of \in before /\ T.of.kind # "optional"
            \/ /\ T.kind = "struct"
               /\ Len(T.fields) \in Nat
               /\ \A j \in 1..Len(T.fields) :
                      /\ T.fields[j].type \in before
                      /\ Index(T, T.fields[j].name) = j

ValuesAssumption ==
    \A b \in Values :
        /\ b.type \in {"int32", "int64", "double", "date"} => b.value \in Int
        /\ b.type = "document" => \A n \in DOMAIN b.value : b.value[n] \in Values

\* Nothing is written of what does not compile.
WrittenAssumption ==
    \A T \in Types : \A v \in Written[T] :
        /\ T.kind = "i32" => v \in Int /\ InRange(v, MaxI32)
        /\ T.kind = "i64" => v \in Int /\ InRange(v, MaxI64)
        /\ T.kind # "unsigned"
        /\ T.kind = "optional" => v = NULL \/ v \in Written[T.of]
        /\ T.kind = "struct" => /\ v = [n \in DOMAIN v |-> v[n]]
                               /\ DOMAIN v = NamesOf(T)
                               /\ \A n \in NamesOf(T) : v[n] \in Written[TypeOfField(T, n)]

ASSUME BsonAssumption ==
    /\ MaxI32 \in Nat /\ MaxI64 \in Nat /\ MaxI32 <= MaxI64
    /\ TypesAssumption /\ ValuesAssumption /\ WrittenAssumption

-----------------------------------------------------------------------------
(* BSON to Zig *)

Field(n, T) == [name |-> n, type |-> T]
Struct(fields) == [kind |-> "struct", fields |-> fields]

\* The two structs of the program that have a BSON type of their own.
ObjectId  == Struct(<<Field("$oid", [kind |-> "string"])>>)
Timestamp == Struct(<<Field("unix_seconds", [kind |-> "unsigned"]),
                      Field("nanoseconds", [kind |-> "unsigned"])>>)

fromBytes(oid) == [n \in {"$oid"} |-> oid]
TimestampOf(millis) == [unix_seconds |-> millis \div 1000,
                        nanoseconds |-> (millis % 1000) * 1000000]

(* What a function is of a type goes back to what it is of its parts: *By   *)
(* is that step, and the function itself ties the knot.                    *)

DefaultBy(default, T) ==
    CASE T.kind = "string" -> ""
      [] T.kind \in {"i32", "i64", "unsigned", "float"} -> 0
      [] T.kind = "bool" -> FALSE
      [] T.kind = "optional" -> NULL
      [] T.kind = "struct" -> [n \in NamesOf(T) |-> default[TypeOfField(T, n)]]

\* The value of a field that the document does not have.
setDefaultValue[T \in Types] == DefaultBy(setDefaultValue, T)

Faulty_copied(doc) ==   \* a type less in the switch
    LET kept == {"utf8", "int32", "int64", "double", "date", "oid"}
    IN  [n \in {m \in DOMAIN doc : doc[m].type \in kept} |-> doc[n]]

\* copyBsonField: what it copies of a nested document.  Of one further inside it
\* copies nothing.
copied(doc) ==
    LET kept == {"utf8", "int32", "int64", "double", "bool", "date", "oid"}
    IN  [n \in {m \in DOMAIN doc : doc[m].type \in kept} |-> doc[n]]

Faulty_ReadInt(T, b) ==   \* as if the type were known
    IF b.type \in {"int32", "int64", "double"} THEN Cast(b.value, MaxI32)
    ELSE IF b.type = "date" THEN Ok(DivTrunc(b.value, 1000)) ELSE Panic

\* A date is seconds in an i32 and milliseconds in an i64.
ReadInt(T, b) ==
    LET max == IF T.kind = "i32" THEN MaxI32 ELSE MaxI64
    IN  IF T.kind = "unsigned" THEN Mismatch
        ELSE IF b.type \in {"int32", "int64", "double"} THEN Cast(b.value, max)
        ELSE IF b.type # "date" THEN Mismatch
        ELSE IF T.kind = "i32" THEN Cast(DivTrunc(b.value, 1000), max)
        ELSE Ok(b.value)

ReadFloat(b) == IF b.type \in {"int32", "int64", "double"} THEN Ok(b.value)
                ELSE IF b.type = "date" THEN Ok(DivTrunc(b.value, 1000))
                ELSE Mismatch

Faulty_Missing(T) == Mismatch   \* a field must be there

Missing(T) == Ok(setDefaultValue[T])

\* A struct from what became of its fields: the first that cannot be read decides.
Record(T, read) ==
    LET bad == {i \in 1..Len(T.fields) : read[i].is # "ok"}
    IN  IF bad = {} THEN Ok([n \in NamesOf(T) |-> read[Index(T, n)].value])
        ELSE read[CHOOSE i \in bad : \A j \in bad : i <= j]

FromBsonBy(read, T, doc) ==
    Record(T, [i \in 1..Len(T.fields) |->
                  LET f == T.fields[i]
                  IN  IF f.name \in DOMAIN doc THEN read[f.type][doc[f.name]]
                      ELSE Missing(f.type)])

ReadBy(read, T, b) ==
    CASE T.kind = "string" -> IF b.type = "utf8" THEN Ok(b.value) ELSE Mismatch
      [] T.kind \in {"i32", "i64", "unsigned"} -> ReadInt(T, b)
      [] T.kind = "float" -> ReadFloat(b)
      [] T.kind = "bool" -> IF b.type = "bool" THEN Ok(b.value) ELSE Mismatch
      [] T.kind = "optional" ->
             IF b.type = "null" THEN Ok(NULL) ELSE read[T.of][b]
      [] T.kind = "struct" ->
             IF b.type = "date" /\ T = Timestamp
             THEN IF b.value >= 0 THEN Ok(TimestampOf(b.value)) ELSE Panic
             ELSE IF b.type = "oid" /\ T = ObjectId THEN Ok(fromBytes(b.value))
             ELSE IF b.type = "document" THEN FromBsonBy(read, T, copied(b.value))
             ELSE Mismatch

readBsonField[T \in Types] == [b \in Values |-> ReadBy(readBsonField, T, b)]

fromBson(T, doc) == FromBsonBy(readBsonField, T, doc)

-----------------------------------------------------------------------------
(* Zig to BSON *)

ToBsonBy(append, T, v) == [n \in NamesOf(T) |-> append[TypeOfField(T, n)][v[n]]]

AppendBy(append, T, v) ==
    CASE T.kind = "string" -> [type |-> "utf8", value |-> v]
      [] T.kind = "i32"    -> [type |-> "int32", value |-> v]
      [] T.kind = "i64"    -> [type |-> "int64", value |-> v]
      [] T.kind = "float"  -> [type |-> "double", value |-> v]
      [] T.kind = "bool"   -> [type |-> "bool", value |-> v]
      [] T.kind = "optional" -> IF v = NULL THEN [type |-> "null", value |-> NULL]
                                ELSE append[T.of][v]
      [] T.kind = "struct" -> [type |-> "document", value |-> ToBsonBy(append, T, v)]

appendFieldToBson[T \in Types] == [v \in Written[T] |-> AppendBy(appendFieldToBson, T, v)]

toBson(T, v) == ToBsonBy(appendFieldToBson, T, v)

=============================================================================
