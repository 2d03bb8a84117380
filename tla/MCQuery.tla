------------------------------ MODULE MCQuery -------------------------------
(* Sample types, documents and values for the run of Query.                *)
EXTENDS Query, SequencesExt

T(kind) == [kind |-> kind]
Opt(of) == [kind |-> "optional", of |-> of]
B(type, value) == [type |-> type, value |-> value]

\* maimai.ArcadeInfo, with one string for its five.
Arcade == Struct(<<Field("_id", ObjectId), Field("city_name", T("string")),
                   Field("arcade_num", T("i32")), Field("update_time", Timestamp)>>)

People(b) == [n \in {"_id", "city_name", "arcade_num", "update_time"} |->
                  CASE n = "_id" -> B("oid", "id")
                    [] n = "city_name" -> B("utf8", "city")
                    [] n = "arcade_num" -> b
                    [] n = "update_time" -> B("date", 1700)]

Empty == [n \in {} |-> B("null", NULL)]
Sub(n, b) == B("document", [m \in {n} |-> b])
With(n, b) == [People(B("int32", 3)) EXCEPT ![n] = b]

\* The fields "jt" reads, as the database may hold them.
Arcades == {People(b) : b \in {B("int32", 100), B("int32", -100), B("int64", 2), B("int64", 200),
                               B("double", 4), B("date", 5999), B("date", 900000),
                               B("utf8", "many"), B("null", NULL)}}
    \cup {With("_id", Sub("$oid", B("utf8", "id"))), With("_id", Sub("$oid", B("null", NULL))),
          With("update_time", B("date", -1)), With("update_time", B("int64", 1)),
          With("update_time", B("document", Empty)),
          With("update_time", Sub("unix_seconds", B("int64", 1))),
          Empty}

\* A record of all types, two structs deep.
Inner == Struct(<<Field("a", T("i64")), Field("b", Opt(T("bool"))),
                  Field("c", Struct(<<Field("d", T("string"))>>)),
                  Field("e", Opt(Struct(<<Field("f", T("i32"))>>)))>>)
Outer == Struct(<<Field("s", T("string")), Field("x", T("float")),
                  Field("o", Opt(T("i32"))), Field("in", Inner)>>)

\* All of these, one struct deep.
Nested == Struct(<<Field("a", T("i64")), Field("b", Opt(T("bool"))),
                   Field("c", T("string")), Field("f", T("float"))>>)
Least == Struct(<<Field("i", T("i32"))>>)
Flat == Struct(<<Field("o", Opt(T("i32"))), Field("in", Nested), Field("e", Opt(Least))>>)

\* A value or two of every kind.
RECURSIVE Sample(_)
Sample(U) == CASE U.kind = "string" -> {"text"}
               [] U.kind \in {"i32", "float"} -> {5}
               [] U.kind = "i64" -> {1000}
               [] U.kind = "bool" -> {TRUE}
               [] U.kind = "unsigned" -> {}
               [] U.kind = "optional" -> {NULL} \cup Sample(U.of)
               [] U.kind = "struct" /\ U = ObjectId -> {}
               [] OTHER -> FoldSet(LAMBDA n, done : {v @@ (n :> x) :
                                       v \in done, x \in Sample(TypeOfField(U, n))},
                                   {<<>>}, NamesOf(U))

RECURSIVE InOrder(_), ValuesIn(_)
InOrder(U) == CASE U.kind = "optional" -> Append(InOrder(U.of), U)
                [] U.kind = "struct" ->
                       FlattenSeq([i \in 1..Len(U.fields) |-> InOrder(U.fields[i].type)]) \o <<U>>
                [] OTHER -> <<U>>
ValuesIn(b) == {b} \cup IF b.type # "document" THEN {}
                        ELSE UNION {ValuesIn(b.value[n]) : n \in DOMAIN b.value}

AllTypes == InOrder(Arcade) \o InOrder(Outer) \o InOrder(Flat)
Samples == [U \in Types |-> Sample(U)]
ValuesOf(docs) == UNION {UNION {ValuesIn(d[n]) : n \in DOMAIN d} : d \in docs}
AllValues == ValuesOf(Arcades)
    \cup UNION {ValuesOf({toBson(U, v) : v \in Samples[U]}) : U \in {Outer, Flat}}

UpTo(n, S) == UNION {[1..k -> S] : k \in 0..n}

Asked(call, n) ==
    [call: {call}, type: {Arcade}, docs: UpTo(n, Arcades), written: {<<>>}]

ReadBack(U, n) ==
    {[call |-> c, type |-> U, docs |-> [i \in DOMAIN w |-> toBson(U, w[i])], written |-> w] :
        c \in {"find", "findOne"}, w \in UpTo(n, Samples[U])}

NothingFound == [call |-> "find", type |-> Least, docs |-> <<>>, written |-> <<>>]

SomeQueries == {NothingFound} \cup Asked("find", 2) \cup Asked("findOne", 1)
                   \cup ReadBack(Flat, 2) \cup ReadBack(Outer, 1)

=============================================================================
