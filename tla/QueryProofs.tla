---------------------------- MODULE QueryProofs -----------------------------
(***************************************************************************)
(* Proofs about Query and the conversions of Bson, for all types, values   *)
(* and documents: what holds of a type follows from what holds of the      *)
(* types it is made of, of which copyBsonField lets only two levels count. *)
(***************************************************************************)
EXTENDS Query, Induction

\* A type that has no parts, and the parts of the others.
Scalar(T) == T.kind \in {"string", "i32", "i64", "unsigned", "float", "bool"}
Parts(T) == IF T.kind = "optional" THEN {T.of}
            ELSE IF T.kind = "struct" THEN {T.fields[i].type : i \in 1..Len(T.fields)}
            ELSE {}

LEMMA Shape ==
    ASSUME NEW T \in Types
    PROVE  /\ Parts(T) \subseteq Types
           /\ \/ Scalar(T)
              \/ T.kind = "optional" /\ T.of \in Types /\ T.of.kind # "optional"
              \/ /\ T.kind = "struct"
                 /\ Len(T.fields) \in Nat
                 /\ \A j \in 1..Len(T.fields) :
                        T.fields[j].type \in Types /\ Index(T, T.fields[j].name) = j
<1>1. PICK i \in 1..Len(TypesInOrder) : T = TypesInOrder[i]
  BY DEF Types
<1> DEFINE before == {TypesInOrder[j] : j \in 1..i - 1}
<1>2. \/ Scalar(T)
      \/ T.kind = "optional" /\ T.of \in before /\ T.of.kind # "optional"
      \/ /\ T.kind = "struct"
         /\ Len(T.fields) \in Nat
         /\ \A j \in 1..Len(T.fields) :
                T.fields[j].type \in before /\ Index(T, T.fields[j].name) = j
  BY <1>1, BsonAssumption DEF TypesAssumption, Scalar
<1>3. before \subseteq Types
  <2> DEFINE k == Len(TypesInOrder)
  <2>1. k \in Nat
    BY BsonAssumption DEF TypesAssumption
  <2>2. i \in 1..k
    OBVIOUS
  <2> HIDE DEF k
  <2>3. \A j \in 1..i - 1 : j \in 1..k
    BY <2>1, <2>2
  <2> QED BY <2>3 DEF Types, k
<1> HIDE DEF before
<1> QED BY <1>2, <1>3 DEF Parts, Scalar

\* A function on types can be defined from what it is for their parts: the
\* types up to the n-th for which that works have no end.
LEMMA InOrder ==
    ASSUME NEW S,
           0 \in S,
           \A n \in Nat : n \in S /\ n + 1 <= Len(TypesInOrder) => n + 1 \in S
    PROVE  Len(TypesInOrder) \in S
<1> DEFINE k == Len(TypesInOrder)
           R == {n \in Nat : n <= k => n \in S}
<1>1. k \in Nat
  BY BsonAssumption DEF TypesAssumption
<1> HIDE DEF k
<1>2. 0 \in R
  OBVIOUS
<1>3. ASSUME NEW n \in Nat, n \in R PROVE n + 1 \in R
  <2> SUFFICES ASSUME n + 1 <= k PROVE n + 1 \in S
    OBVIOUS
  <2>1. n \in S
    BY <1>1, <1>3
  <2> QED BY <2>1 DEF k
<1> HIDE DEF R
<1>4. Nat \subseteq R
  BY <1>2, <1>3, AllNumbers
<1> QED BY <1>1, <1>4 DEF R, k

\* The parts of a type come before it.
LEMMA PartsBefore ==
    ASSUME NEW n \in Nat, n + 1 <= Len(TypesInOrder), NEW f, NEW g,
           \A j \in 1..n : f[TypesInOrder[j]] = g[TypesInOrder[j]],
           NEW i \in 1..n + 1
    PROVE  \A U \in Parts(TypesInOrder[i]) : f[U] = g[U]
<1> DEFINE k == Len(TypesInOrder)
           T == TypesInOrder[i]
<1>1. k \in Nat /\ n + 1 <= k
  BY BsonAssumption DEF TypesAssumption
<1>2. i \in 1..k /\ \A j \in 1..i - 1 : j \in 1..n
  <2> HIDE DEF k
  <2> QED BY <1>1
<1>3. Parts(T) \subseteq {TypesInOrder[j] : j \in 1..i - 1}
  <2>1. \/ Scalar(T)
        \/ T.kind = "optional" /\ T.of \in {TypesInOrder[j] : j \in 1..i - 1}
        \/ /\ T.kind = "struct"
           /\ \A j \in 1..Len(T.fields) :
                  T.fields[j].type \in {TypesInOrder[m] : m \in 1..i - 1}
    BY <1>2, BsonAssumption DEF TypesAssumption, Scalar
  <2> HIDE DEF T
  <2> QED BY <2>1 DEF Parts, Scalar
<1> HIDE DEF T, k
<1> QED
  <2> SUFFICES ASSUME NEW U \in Parts(T) PROVE f[U] = g[U]
    BY DEF T
  <2>1. PICK j \in 1..i - 1 : U = TypesInOrder[j]
    BY <1>3
  <2> QED BY <1>2, <2>1

-----------------------------------------------------------------------------
\* What the recursive functions of Bson are, one level at a time.

\* The type of a field is a part.
LEMMA FieldType ==
    ASSUME NEW T \in Types, T.kind = "struct", NEW n \in NamesOf(T)
    PROVE  /\ Index(T, n) \in 1..Len(T.fields)
           /\ T.fields[Index(T, n)].name = n
           /\ TypeOfField(T, n) \in Parts(T)
           /\ TypeOfField(T, n) \in Types
<1>1. PICK i \in 1..Len(T.fields) : T.fields[i].name = n
  BY DEF NamesOf
<1>2. Index(T, n) = i
  BY <1>1, Shape DEF Scalar
<1>3. T.fields[i].type \in Parts(T)
  BY DEF Parts
<1> QED BY <1>1, <1>2, <1>3, Shape DEF TypeOfField

LEMMA SameDefault ==
    ASSUME NEW T \in Types, NEW f, NEW g, \A U \in Parts(T) : f[U] = g[U]
    PROVE  DefaultBy(f, T) = DefaultBy(g, T)
<1>1. CASE T.kind = "struct"
  <2>1. \A n \in NamesOf(T) : f[TypeOfField(T, n)] = g[TypeOfField(T, n)]
    BY <1>1, FieldType
  <2>2. [n \in NamesOf(T) |-> f[TypeOfField(T, n)]] = [n \in NamesOf(T) |-> g[TypeOfField(T, n)]]
    BY <2>1
  <2> QED BY <1>1, <2>2 DEF DefaultBy
<1>2. CASE T.kind # "struct"
  BY <1>2, Shape DEF DefaultBy, Scalar
<1> QED BY <1>1, <1>2

LEMMA SameFromBson ==
    ASSUME NEW T \in Types, T.kind = "struct", NEW doc,
           NEW f, NEW g, \A U \in Parts(T) : f[U] = g[U]
    PROVE  FromBsonBy(f, T, doc) = FromBsonBy(g, T, doc)
<1> DEFINE R(h) == [i \in 1..Len(T.fields) |->
                       LET F == T.fields[i]
                       IN  IF F.name \in DOMAIN doc THEN h[F.type][doc[F.name]]
                           ELSE Missing(F.type)]
<1>1. \A i \in 1..Len(T.fields) : f[T.fields[i].type] = g[T.fields[i].type]
  BY DEF Parts
<1>2. R(f) = R(g)
  BY <1>1
<1>3. FromBsonBy(f, T, doc) = Record(T, R(f)) /\ FromBsonBy(g, T, doc) = Record(T, R(g))
  BY DEF FromBsonBy
<1> HIDE DEF R
<1> QED BY <1>2, <1>3

LEMMA SameRead ==
    ASSUME NEW T \in Types, NEW f, NEW g, \A U \in Parts(T) : f[U] = g[U], NEW b
    PROVE  ReadBy(f, T, b) = ReadBy(g, T, b)
<1>1. CASE T.kind = "struct"
  <2>1. \A doc : FromBsonBy(f, T, doc) = FromBsonBy(g, T, doc)
    BY <1>1, SameFromBson
  <2> QED BY <1>1, <2>1 DEF ReadBy
<1>2. CASE T.kind = "optional"
  <2>1. f[T.of] = g[T.of]
    BY <1>2 DEF Parts
  <2> QED BY <1>2, <2>1 DEF ReadBy
<1>3. CASE Scalar(T)
  BY <1>3 DEF ReadBy, Scalar
<1> QED BY <1>1, <1>2, <1>3, Shape

LEMMA SameAppend ==
    ASSUME NEW T \in Types, NEW f, NEW g, \A U \in Parts(T) : f[U] = g[U], NEW v
    PROVE  AppendBy(f, T, v) = AppendBy(g, T, v)
<1>1. CASE T.kind = "struct"
  <2>1. \A n \in NamesOf(T) : f[TypeOfField(T, n)] = g[TypeOfField(T, n)]
    BY <1>1, FieldType
  <2>2. ToBsonBy(f, T, v) = ToBsonBy(g, T, v)
    BY <2>1 DEF ToBsonBy
  <2> QED BY <1>1, <2>2 DEF AppendBy
<1>2. CASE T.kind = "optional"
  <2>1. f[T.of] = g[T.of]
    BY <1>2 DEF Parts
  <2> QED BY <1>2, <2>1 DEF AppendBy
<1>3. CASE Scalar(T)
  BY <1>3 DEF AppendBy, Scalar
<1> QED BY <1>1, <1>2, <1>3, Shape

LEMMA DefaultIs ==
    \A T \in Types : setDefaultValue[T] = DefaultBy(setDefaultValue, T)
<1> DEFINE B(f, T) == DefaultBy(f, T)
<1>0. ASSUME NEW T \in Types, NEW f, NEW g, \A U \in Parts(T) : f[U] = g[U]
      PROVE  B(f, T) = B(g, T)
  BY <1>0, SameDefault
<1>1. setDefaultValue = CHOOSE f : f = [T \in Types |-> B(f, T)]
  BY DEF setDefaultValue
<1> HIDE DEF B
<1> DEFINE S == {n \in Nat : \E f : \A i \in 1..n : f[TypesInOrder[i]] = B(f, TypesInOrder[i])}
           k == Len(TypesInOrder)
<1>2. 0 \in S
  OBVIOUS
<1>3. ASSUME NEW n \in Nat, n \in S, n + 1 <= Len(TypesInOrder) PROVE n + 1 \in S
  <2>1. PICK f : \A i \in 1..n : f[TypesInOrder[i]] = B(f, TypesInOrder[i])
    BY <1>3
  <2> DEFINE g == [T \in Types |-> B(f, T)]
  <2>2. \A i \in 1..n + 1 : TypesInOrder[i] \in Types
    <3>1. k \in Nat /\ n + 1 <= k
      BY <1>3, BsonAssumption DEF TypesAssumption
    <3> HIDE DEF k
    <3>2. \A i \in 1..n + 1 : i \in 1..k
      BY <3>1
    <3> QED BY <3>2 DEF Types, k
  <2>3. \A i \in 1..n + 1 : g[TypesInOrder[i]] = B(f, TypesInOrder[i])
    BY <2>2
  <2> HIDE DEF g
  <2>4. \A j \in 1..n : f[TypesInOrder[j]] = g[TypesInOrder[j]]
    BY <2>1, <2>3
  <2>5. ASSUME NEW i \in 1..n + 1 PROVE B(f, TypesInOrder[i]) = B(g, TypesInOrder[i])
    BY <1>0, <1>3, <2>2, <2>4, PartsBefore
  <2>6. \A i \in 1..n + 1 : g[TypesInOrder[i]] = B(g, TypesInOrder[i])
    BY <2>3, <2>5
  <2>7. n + 1 \in Nat
    OBVIOUS
  <2> QED BY <2>6, <2>7
<1> HIDE DEF S
<1>4. k \in S
  BY <1>2, <1>3, InOrder
<1>5. PICK f : \A i \in 1..k : f[TypesInOrder[i]] = B(f, TypesInOrder[i])
  BY <1>4 DEF S
<1> DEFINE g == [T \in Types |-> B(f, T)]
<1>6. \A T \in Types : f[T] = g[T]
  BY <1>5 DEF Types
<1>7. \A T \in Types : B(f, T) = B(g, T)
  BY <1>0, <1>6, Shape
<1>8. g = [T \in Types |-> B(g, T)]
  BY <1>7
<1> HIDE DEF g
<1>9. setDefaultValue = [T \in Types |-> B(setDefaultValue, T)]
  BY <1>1, <1>8
<1> QED BY <1>9 DEF B

LEMMA ReadIs ==
    \A T \in Types : readBsonField[T] = [b \in Values |-> ReadBy(readBsonField, T, b)]
<1> DEFINE B(f, T) == [b \in Values |-> ReadBy(f, T, b)]
<1>0. ASSUME NEW T \in Types, NEW f, NEW g, \A U \in Parts(T) : f[U] = g[U]
      PROVE  B(f, T) = B(g, T)
  BY <1>0, SameRead
<1>1. readBsonField = CHOOSE f : f = [T \in Types |-> B(f, T)]
  BY DEF readBsonField
<1> HIDE DEF B
<1> DEFINE S == {n \in Nat : \E f : \A i \in 1..n : f[TypesInOrder[i]] = B(f, TypesInOrder[i])}
           k == Len(TypesInOrder)
<1>2. 0 \in S
  OBVIOUS
<1>3. ASSUME NEW n \in Nat, n \in S, n + 1 <= Len(TypesInOrder) PROVE n + 1 \in S
  <2>1. PICK f : \A i \in 1..n : f[TypesInOrder[i]] = B(f, TypesInOrder[i])
    BY <1>3
  <2> DEFINE g == [T \in Types |-> B(f, T)]
  <2>2. \A i \in 1..n + 1 : TypesInOrder[i] \in Types
    <3>1. k \in Nat /\ n + 1 <= k
      BY <1>3, BsonAssumption DEF TypesAssumption
    <3> HIDE DEF k
    <3>2. \A i \in 1..n + 1 : i \in 1..k
      BY <3>1
    <3> QED BY <3>2 DEF Types, k
  <2>3. \A i \in 1..n + 1 : g[TypesInOrder[i]] = B(f, TypesInOrder[i])
    BY <2>2
  <2> HIDE DEF g
  <2>4. \A j \in 1..n : f[TypesInOrder[j]] = g[TypesInOrder[j]]
    BY <2>1, <2>3
  <2>5. ASSUME NEW i \in 1..n + 1 PROVE B(f, TypesInOrder[i]) = B(g, TypesInOrder[i])
    BY <1>0, <1>3, <2>2, <2>4, PartsBefore
  <2>6. \A i \in 1..n + 1 : g[TypesInOrder[i]] = B(g, TypesInOrder[i])
    BY <2>3, <2>5
  <2>7. n + 1 \in Nat
    OBVIOUS
  <2> QED BY <2>6, <2>7
<1> HIDE DEF S
<1>4. k \in S
  BY <1>2, <1>3, InOrder
<1>5. PICK f : \A i \in 1..k : f[TypesInOrder[i]] = B(f, TypesInOrder[i])
  BY <1>4 DEF S
<1> DEFINE g == [T \in Types |-> B(f, T)]
<1>6. \A T \in Types : f[T] = g[T]
  BY <1>5 DEF Types
<1>7. \A T \in Types : B(f, T) = B(g, T)
  BY <1>0, <1>6, Shape
<1>8. g = [T \in Types |-> B(g, T)]
  BY <1>7
<1> HIDE DEF g
<1>9. readBsonField = [T \in Types |-> B(readBsonField, T)]
  BY <1>1, <1>8
<1> QED BY <1>9 DEF B

LEMMA AppendIs ==
    \A T \in Types : appendFieldToBson[T] = [v \in Written[T] |-> AppendBy(appendFieldToBson, T, v)]
<1> DEFINE B(f, T) == [v \in Written[T] |-> AppendBy(f, T, v)]
<1>0. ASSUME NEW T \in Types, NEW f, NEW g, \A U \in Parts(T) : f[U] = g[U]
      PROVE  B(f, T) = B(g, T)
  BY <1>0, SameAppend
<1>1. appendFieldToBson = CHOOSE f : f = [T \in Types |-> B(f, T)]
  BY DEF appendFieldToBson
<1> HIDE DEF B
<1> DEFINE S == {n \in Nat : \E f : \A i \in 1..n : f[TypesInOrder[i]] = B(f, TypesInOrder[i])}
           k == Len(TypesInOrder)
<1>2. 0 \in S
  OBVIOUS
<1>3. ASSUME NEW n \in Nat, n \in S, n + 1 <= Len(TypesInOrder) PROVE n + 1 \in S
  <2>1. PICK f : \A i \in 1..n : f[TypesInOrder[i]] = B(f, TypesInOrder[i])
    BY <1>3
  <2> DEFINE g == [T \in Types |-> B(f, T)]
  <2>2. \A i \in 1..n + 1 : TypesInOrder[i] \in Types
    <3>1. k \in Nat /\ n + 1 <= k
      BY <1>3, BsonAssumption DEF TypesAssumption
    <3> HIDE DEF k
    <3>2. \A i \in 1..n + 1 : i \in 1..k
      BY <3>1
    <3> QED BY <3>2 DEF Types, k
  <2>3. \A i \in 1..n + 1 : g[TypesInOrder[i]] = B(f, TypesInOrder[i])
    BY <2>2
  <2> HIDE DEF g
  <2>4. \A j \in 1..n : f[TypesInOrder[j]] = g[TypesInOrder[j]]
    BY <2>1, <2>3
  <2>5. ASSUME NEW i \in 1..n + 1 PROVE B(f, TypesInOrder[i]) = B(g, TypesInOrder[i])
    BY <1>0, <1>3, <2>2, <2>4, PartsBefore
  <2>6. \A i \in 1..n + 1 : g[TypesInOrder[i]] = B(g, TypesInOrder[i])
    BY <2>3, <2>5
  <2>7. n + 1 \in Nat
    OBVIOUS
  <2> QED BY <2>6, <2>7
<1> HIDE DEF S
<1>4. k \in S
  BY <1>2, <1>3, InOrder
<1>5. PICK f : \A i \in 1..k : f[TypesInOrder[i]] = B(f, TypesInOrder[i])
  BY <1>4 DEF S
<1> DEFINE g == [T \in Types |-> B(f, T)]
<1>6. \A T \in Types : f[T] = g[T]
  BY <1>5 DEF Types
<1>7. \A T \in Types : B(f, T) = B(g, T)
  BY <1>0, <1>6, Shape
<1>8. g = [T \in Types |-> B(g, T)]
  BY <1>7
<1> HIDE DEF g
<1>9. appendFieldToBson = [T \in Types |-> B(appendFieldToBson, T)]
  BY <1>1, <1>8
<1> QED BY <1>9 DEF B

-----------------------------------------------------------------------------
\* A record is made of all its fields, or is what the first bad one became.

LEMMA RecordIs ==
    ASSUME NEW T \in Types, T.kind = "struct", NEW r
    PROVE  \/ /\ \A i \in 1..Len(T.fields) : r[i].is = "ok"
              /\ Record(T, r) = Ok([n \in NamesOf(T) |-> r[Index(T, n)].value])
           \/ \E i \in 1..Len(T.fields) : r[i].is # "ok" /\ Record(T, r) = r[i]
<1> DEFINE bad == {i \in 1..Len(T.fields) : r[i].is # "ok"}
           c == CHOOSE i \in bad : \A j \in bad : i <= j
<1>1. CASE bad = {}
  BY <1>1 DEF Record
<1>2. CASE bad # {}
  <2>1. bad \subseteq Nat
    <3> DEFINE k == Len(T.fields)
    <3>1. k \in Nat
      BY Shape DEF Scalar
    <3> HIDE DEF k
    <3>2. 1..k \subseteq Nat
      BY <3>1
    <3> QED BY <3>2 DEF k
  <2>2. \E i \in bad : \A j \in bad : i <= j
    BY <1>2, <2>1, LeastNumber
  <2>3. c \in bad
    BY <2>2
  <2>4. Record(T, r) = r[c]
    BY <1>2 DEF Record
  <2> QED BY <2>3, <2>4
<1> QED BY <1>1, <1>2

\* What became of one field of a document.
FieldFrom(T, doc, n) ==
    IF n \in DOMAIN doc THEN readBsonField[TypeOfField(T, n)][doc[n]]
    ELSE Missing(TypeOfField(T, n))

LEMMA FromBsonIs ==
    ASSUME NEW T \in Types, T.kind = "struct", NEW doc
    PROVE  \/ /\ \A n \in NamesOf(T) : FieldFrom(T, doc, n).is = "ok"
              /\ fromBson(T, doc) = Ok([n \in NamesOf(T) |-> FieldFrom(T, doc, n).value])
           \/ \E n \in NamesOf(T) : FieldFrom(T, doc, n).is # "ok"
                                    /\ fromBson(T, doc) = FieldFrom(T, doc, n)
<1> DEFINE r == [i \in 1..Len(T.fields) |->
                     LET f == T.fields[i]
                     IN  IF f.name \in DOMAIN doc THEN readBsonField[f.type][doc[f.name]]
                         ELSE Missing(f.type)]
<1>1. fromBson(T, doc) = Record(T, r)
  BY DEF fromBson, FromBsonBy
<1>2. ASSUME NEW i \in 1..Len(T.fields) PROVE r[i] = FieldFrom(T, doc, T.fields[i].name)
  <2>1. Index(T, T.fields[i].name) = i
    BY Shape DEF Scalar
  <2> QED BY <2>1 DEF FieldFrom, TypeOfField
<1> HIDE DEF r
<1>3. \A n \in NamesOf(T) : Index(T, n) \in 1..Len(T.fields) /\ T.fields[Index(T, n)].name = n
  BY FieldType
<1>4. \A n \in NamesOf(T) : r[Index(T, n)] = FieldFrom(T, doc, n)
  BY <1>2, <1>3
<1>5. \A i \in 1..Len(T.fields) : T.fields[i].name \in NamesOf(T)
  BY DEF NamesOf
<1>6. CASE /\ \A i \in 1..Len(T.fields) : r[i].is = "ok"
           /\ Record(T, r) = Ok([n \in NamesOf(T) |-> r[Index(T, n)].value])
  <2>1. \A n \in NamesOf(T) : FieldFrom(T, doc, n).is = "ok"
    BY <1>3, <1>4, <1>6
  <2>2. [n \in NamesOf(T) |-> r[Index(T, n)].value] = [n \in NamesOf(T) |-> FieldFrom(T, doc, n).value]
    BY <1>4
  <2> QED BY <1>1, <1>6, <2>1, <2>2
<1>7. CASE \E i \in 1..Len(T.fields) : r[i].is # "ok" /\ Record(T, r) = r[i]
  BY <1>1, <1>2, <1>5, <1>7
<1> QED BY <1>6, <1>7, RecordIs

LEMMA ReadsOk ==
    ASSUME NEW T \in Types, T.kind = "struct", NEW doc, fromBson(T, doc).is = "ok"
    PROVE  /\ \A n \in NamesOf(T) : FieldFrom(T, doc, n).is = "ok"
           /\ fromBson(T, doc) = Ok([n \in NamesOf(T) |-> FieldFrom(T, doc, n).value])
BY FromBsonIs

LEMMA ReadsWhole ==
    ASSUME NEW T \in Types, T.kind = "struct", NEW doc,
           \A n \in NamesOf(T) : FieldFrom(T, doc, n).is = "ok"
    PROVE  fromBson(T, doc) = Ok([n \in NamesOf(T) |-> FieldFrom(T, doc, n).value])
BY FromBsonIs

\* A field less is a default more.
LEMMA MissingField ==
    ASSUME NEW T \in Types, T.kind = "struct", NEW doc, fromBson(T, doc).is = "ok",
           NEW n \in NamesOf(T)
    PROVE  fromBson(T, [m \in DOMAIN doc \ {n} |-> doc[m]])
               = Ok([fromBson(T, doc).value EXCEPT ![n] = setDefaultValue[TypeOfField(T, n)]])
<1> DEFINE without == [m \in DOMAIN doc \ {n} |-> doc[m]]
           d == setDefaultValue[TypeOfField(T, n)]
           v == [m \in NamesOf(T) |-> FieldFrom(T, doc, m).value]
           w == [m \in NamesOf(T) |-> FieldFrom(T, without, m).value]
<1>1. \A m \in NamesOf(T) : m # n => FieldFrom(T, without, m) = FieldFrom(T, doc, m)
  BY DEF FieldFrom
<1>2. FieldFrom(T, without, n) = Ok(d)
  BY DEF FieldFrom, Missing
<1>3. (\A m \in NamesOf(T) : FieldFrom(T, doc, m).is = "ok") /\ fromBson(T, doc) = Ok(v)
  BY ReadsOk
<1> HIDE DEF without, d
<1>4. Ok(d).is = "ok" /\ Ok(d).value = d /\ Ok(v).value = v
  BY DEF Ok
<1>5. \A m \in NamesOf(T) : FieldFrom(T, without, m).is = "ok"
  BY <1>1, <1>2, <1>3, <1>4
<1>6. fromBson(T, without) = Ok(w)
  BY <1>5, ReadsWhole
<1>7. w = [v EXCEPT ![n] = d]
  <2>1. \A m \in NamesOf(T) : w[m] = [v EXCEPT ![n] = d][m]
    BY <1>1, <1>2, <1>4
  <2> QED BY <2>1
<1> HIDE DEF v, w
<1> QED BY <1>3, <1>4, <1>6, <1>7 DEF without, d

-----------------------------------------------------------------------------
\* Only numbers panic.

LEMMA CastPanics ==
    ASSUME NEW i \in Int, NEW max \in Nat, MaxI32 <= max, Cast(i, max).is = "panic"
    PROVE  ~InRange(i, MaxI32)
<1>1. MaxI32 \in Nat
  BY BsonAssumption
<1> QED BY <1>1 DEF Cast, Ok, InRange

LEMMA SecondsTame ==
    ASSUME NEW i \in Int, i >= 0 PROVE DivTrunc(i, 1000) = i \div 1000
BY DEF DivTrunc

LEMMA NumberPanics ==
    ASSUME NEW T, NEW b \in Values, ReadInt(T, b).is = "panic"
    PROVE  ~NumberTame(b)
<1>1. MaxI32 \in Nat /\ MaxI64 \in Nat /\ MaxI32 <= MaxI64
  BY BsonAssumption
<1>2. b.type \in {"int32", "int64", "double", "date"} => b.value \in Int
  BY BsonAssumption DEF ValuesAssumption
<1> DEFINE max == IF T.kind = "i32" THEN MaxI32 ELSE MaxI64
<1>3. max \in Nat /\ MaxI32 <= max
  BY <1>1
<1>4. CASE b.type \in {"int32", "int64", "double"}
  <2>1. Cast(b.value, max).is = "panic"
    BY <1>4 DEF ReadInt, Mismatch
  <2> HIDE DEF max
  <2>2. ~InRange(b.value, MaxI32)
    BY <1>2, <1>3, <1>4, <2>1, CastPanics
  <2> QED BY <1>4, <2>2 DEF NumberTame
<1>5. CASE b.type = "date" /\ T.kind = "i32"
  <2>1. Cast(DivTrunc(b.value, 1000), MaxI32).is = "panic"
    BY <1>5 DEF ReadInt, Mismatch
  <2> SUFFICES ASSUME b.value >= 0 PROVE ~InRange(b.value \div 1000, MaxI32)
    BY <1>5 DEF NumberTame
  <2>2. b.value \in Int
    BY <1>2, <1>5
  <2>3. DivTrunc(b.value, 1000) = b.value \div 1000 /\ b.value \div 1000 \in Int
    BY <2>2, SecondsTame
  <2> QED BY <1>1, <2>1, <2>3, CastPanics
<1>6. CASE b.type \notin {"int32", "int64", "double"} /\ ~(b.type = "date" /\ T.kind = "i32")
  BY <1>6 DEF ReadInt, Mismatch, Ok
<1> QED BY <1>4, <1>5, <1>6

\* A type of no other types and a value that is no document.
LEMMA PlainPanics ==
    ASSUME NEW T \in Types, NEW b \in Values, T.kind # "optional", b.type # "document",
           readBsonField[T][b].is = "panic"
    PROVE  ~NumberTame(b)
<1>1. ReadBy(readBsonField, T, b).is = "panic"
  BY ReadIs
<1>2. CASE T.kind \in {"i32", "i64", "unsigned"}
  BY <1>1, <1>2, NumberPanics DEF ReadBy
<1>3. CASE T.kind = "struct"
  <2>1. b.type = "date" /\ ~(b.value >= 0)
    BY <1>1, <1>3 DEF ReadBy, Ok, Mismatch
  <2> QED BY <2>1 DEF NumberTame
<1>4. CASE T.kind \in {"string", "float", "bool"}
  BY <1>1, <1>4 DEF ReadBy, ReadFloat, Ok, Mismatch
<1> QED BY <1>2, <1>3, <1>4, Shape DEF Scalar

LEMMA OptionalIs ==
    ASSUME NEW T \in Types, NEW b \in Values, T.kind = "optional"
    PROVE  readBsonField[T][b] = IF b.type = "null" THEN Ok(NULL) ELSE readBsonField[T.of][b]
<1>1. readBsonField[T][b] = ReadBy(readBsonField, T, b)
  BY ReadIs
<1>2. ReadBy(readBsonField, T, b) = IF b.type = "null" THEN Ok(NULL) ELSE readBsonField[T.of][b]
  BY DEF ReadBy
<1> QED BY <1>1, <1>2

LEMMA OptionalPanics ==
    ASSUME NEW T \in Types, NEW b \in Values, T.kind = "optional",
           readBsonField[T][b].is = "panic"
    PROVE  T.of \in Types /\ T.of.kind # "optional" /\ readBsonField[T.of][b].is = "panic"
BY OptionalIs, Shape DEF Ok, Scalar

LEMMA FieldPanics ==
    ASSUME NEW T \in Types, NEW b \in Values, b.type # "document",
           readBsonField[T][b].is = "panic"
    PROVE  ~NumberTame(b)
BY PlainPanics, OptionalPanics

\* Nothing in a document that was copied is a document.
LEMMA DocumentPanics ==
    ASSUME NEW T \in Types, NEW b \in Values, T.kind = "struct", b.type = "document",
           readBsonField[T][b].is = "panic"
    PROVE  ~Tame(b)
<1> DEFINE doc == copied(b.value)
<1>1. fromBson(T, doc).is = "panic"
  <2>1. ReadBy(readBsonField, T, b).is = "panic"
    BY ReadIs
  <2> QED BY <2>1 DEF ReadBy, fromBson, Ok, Mismatch
<1>2. \A n \in DOMAIN doc : n \in DOMAIN b.value /\ doc[n] = b.value[n] /\ doc[n].type # "document"
  BY DEF copied
<1> HIDE DEF doc
<1>3. PICK n \in NamesOf(T) : FieldFrom(T, doc, n).is = "panic"
  BY <1>1, FromBsonIs DEF Ok
<1>4. n \in DOMAIN doc /\ readBsonField[TypeOfField(T, n)][doc[n]].is = "panic"
  BY <1>3 DEF FieldFrom, Missing, Ok
<1>5. doc[n] \in Values
  BY <1>2, <1>4, BsonAssumption DEF ValuesAssumption
<1>6. ~NumberTame(doc[n])
  BY <1>2, <1>4, <1>5, FieldType, FieldPanics
<1> QED BY <1>2, <1>4, <1>6 DEF Tame

LEMMA ValuePanics ==
    ASSUME NEW T \in Types, NEW b \in Values, readBsonField[T][b].is = "panic"
    PROVE  ~Tame(b)
<1>1. CASE b.type # "document"
  BY <1>1, FieldPanics DEF Tame
<1>2. CASE b.type = "document" /\ T.kind = "struct"
  BY <1>2, DocumentPanics
<1>3. CASE b.type = "document" /\ T.kind = "optional"
  <2>1. T.of \in Types /\ T.of.kind # "optional" /\ readBsonField[T.of][b].is = "panic"
    BY <1>3, OptionalPanics
  <2>2. CASE T.of.kind = "struct"
    BY <1>3, <2>1, <2>2, DocumentPanics
  <2>3. CASE Scalar(T.of)
    <3>1. ReadBy(readBsonField, T.of, b).is = "panic"
      BY <2>1, ReadIs
    <3> QED BY <1>3, <2>3, <3>1 DEF ReadBy, ReadInt, ReadFloat, Ok, Mismatch, Scalar
  <2> QED BY <2>1, <2>2, <2>3, Shape
<1>4. CASE b.type = "document" /\ Scalar(T)
  <2>1. ReadBy(readBsonField, T, b).is = "panic"
    BY ReadIs
  <2> QED BY <1>4, <2>1 DEF ReadBy, ReadInt, ReadFloat, Ok, Mismatch, Scalar
<1> QED BY <1>1, <1>2, <1>3, <1>4, Shape

LEMMA RecordPanics ==
    ASSUME NEW T \in Types, T.kind = "struct", NEW doc,
           \A n \in DOMAIN doc : doc[n] \in Values, fromBson(T, doc).is = "panic"
    PROVE  \E n \in DOMAIN doc : ~Tame(doc[n])
<1>1. PICK n \in NamesOf(T) : FieldFrom(T, doc, n).is = "panic"
  BY FromBsonIs DEF Ok
<1>2. n \in DOMAIN doc /\ readBsonField[TypeOfField(T, n)][doc[n]].is = "panic"
  BY <1>1 DEF FieldFrom, Missing, Ok
<1> QED BY <1>2, FieldType, ValuePanics

LEMMA PeopleIsNumber ==
    ASSUME ArcadeInfo \in Types, ArcadeInfo.kind = "struct", NEW doc,
           \A n \in DOMAIN doc : doc[n] \in Values, NEW r, fromBson(ArcadeInfo, doc) = Ok(r)
    PROVE  r["arcade_num"] \in Int
<1> DEFINE n == "arcade_num"
           F == TypeOfField(ArcadeInfo, n)
<1>1. PICK i \in 1..Len(ArcadeInfo.fields) :
          ArcadeInfo.fields[i].name = n /\ ArcadeInfo.fields[i].type.kind = "i32"
  BY QueriesAssumption
<1>2. Index(ArcadeInfo, n) = i /\ n \in NamesOf(ArcadeInfo)
  BY <1>1, Shape DEF Scalar, NamesOf
<1>3. F.kind = "i32" /\ F \in Types
  BY <1>1, <1>2, FieldType DEF TypeOfField
<1>4. FieldFrom(ArcadeInfo, doc, n).is = "ok" /\ r[n] = FieldFrom(ArcadeInfo, doc, n).value
  <2>1. fromBson(ArcadeInfo, doc).is = "ok" /\ fromBson(ArcadeInfo, doc).value = r
    BY DEF Ok
  <2> HIDE DEF n
  <2>2. r = [m \in NamesOf(ArcadeInfo) |-> FieldFrom(ArcadeInfo, doc, m).value]
    BY <2>1, ReadsOk DEF Ok
  <2> QED BY <1>2, <2>1, <2>2, ReadsOk
<1> HIDE DEF n
<1>5. ASSUME n \notin DOMAIN doc PROVE r[n] \in Int
  <2>1. setDefaultValue[F] = 0
    BY <1>3, DefaultIs DEF DefaultBy
  <2> HIDE DEF F
  <2> QED BY <1>4, <1>5, <2>1 DEF FieldFrom, Missing, Ok, F
<1>6. ASSUME n \in DOMAIN doc PROVE r[n] \in Int
  <2> DEFINE b == doc[n]
  <2>1. b \in Values
    BY <1>6
  <2>2. readBsonField[F][b] = ReadInt(F, b)
    BY <1>3, <2>1, ReadIs DEF ReadBy
  <2>3. r[n] = ReadInt(F, b).value /\ ReadInt(F, b).is = "ok"
    BY <1>4, <1>6, <2>2 DEF FieldFrom
  <2> HIDE DEF F, b
  <2>4. b.type \in {"int32", "int64", "double", "date"} => b.value \in Int
    BY <2>1, BsonAssumption DEF ValuesAssumption
  <2>5. b.value \in Int => DivTrunc(b.value, 1000) \in Int
    BY DEF DivTrunc
  <2> QED BY <1>3, <2>3, <2>4, <2>5 DEF ReadInt, Cast, Ok, Mismatch, Panic
<1> QED BY <1>5, <1>6 DEF n

-----------------------------------------------------------------------------
\* What is written is read back.

\* What a value keeps: the structs in the record itself stay, those one level
\* further down become defaults.

FlattenedField(T, v) ==
    IF ~HoldsStruct(T) \/ (T.kind = "optional" /\ v = NULL) THEN v
    ELSE LET S == IF T.kind = "struct" THEN T ELSE T.of
         IN  [n \in NamesOf(S) |-> LET F == TypeOfField(S, n)
                                   IN  IF HoldsStruct(F) THEN setDefaultValue[F] ELSE v[n]]

Flattened(T, v) == [n \in NamesOf(T) |-> FlattenedField(TypeOfField(T, n), v[n])]

LEMMA ScalarBack ==
    ASSUME NEW T \in Types, Scalar(T), NEW v \in Written[T], appendFieldToBson[T][v] \in Values
    PROVE  /\ readBsonField[T][appendFieldToBson[T][v]] = Ok(v)
           /\ appendFieldToBson[T][v].type \in {"utf8", "int32", "int64", "double", "bool"}
<1> DEFINE b == appendFieldToBson[T][v]
<1>1. b = AppendBy(appendFieldToBson, T, v)
  BY AppendIs
<1>2. readBsonField[T][b] = ReadBy(readBsonField, T, b)
  BY ReadIs
<1> HIDE DEF b
<1>3. /\ T.kind = "i32" => v \in Int /\ InRange(v, MaxI32)
      /\ T.kind = "i64" => v \in Int /\ InRange(v, MaxI64)
      /\ T.kind # "unsigned"
  BY BsonAssumption DEF WrittenAssumption
<1>4. CASE T.kind \in {"i32", "i64"}
  <2>1. b.value = v /\ b.type \in {"int32", "int64"}
    BY <1>1, <1>4 DEF AppendBy
  <2>2. ReadInt(T, b) = Ok(v)
    BY <1>3, <1>4, <2>1 DEF ReadInt, Cast
  <2> QED BY <1>2, <1>4, <2>1, <2>2 DEF ReadBy, b
<1>5. CASE T.kind \in {"string", "float", "bool"}
  <2>1. b.value = v /\ b.type = CASE T.kind = "string" -> "utf8" [] T.kind = "float" -> "double"
                                  [] T.kind = "bool" -> "bool"
    BY <1>1, <1>5 DEF AppendBy
  <2> QED BY <1>2, <1>5, <2>1 DEF ReadBy, ReadFloat, b
<1> QED BY <1>3, <1>4, <1>5 DEF Scalar

\* Two structs down: what copied keeps is read, the rest is a default.
LEMMA InnerBack ==
    ASSUME NEW T \in Types, NEW v \in Written[T], NEW b \in Values,
           b = appendFieldToBson[T][v]
    PROVE  IF b.type \in {"utf8", "int32", "int64", "double", "bool", "date", "oid"}
           THEN ~HoldsStruct(T) /\ readBsonField[T][b] = Ok(v)
           ELSE setDefaultValue[T] = IF HoldsStruct(T) THEN setDefaultValue[T] ELSE v
<1>1. b = AppendBy(appendFieldToBson, T, v)
  BY AppendIs
<1>2. CASE Scalar(T)
  BY <1>2, ScalarBack DEF HoldsStruct, Scalar
<1>3. CASE T.kind = "struct"
  BY <1>1, <1>3 DEF AppendBy, HoldsStruct
<1>4. CASE T.kind = "optional" /\ v = NULL
  <2>1. b.type = "null"
    BY <1>1, <1>4 DEF AppendBy
  <2>2. setDefaultValue[T] = NULL
    BY <1>4, DefaultIs DEF DefaultBy
  <2> QED BY <1>4, <2>1, <2>2
<1>5. CASE T.kind = "optional" /\ v # NULL
  <2>1. T.of \in Types /\ T.of.kind # "optional" /\ v \in Written[T.of]
    BY <1>5, Shape, BsonAssumption DEF WrittenAssumption, Scalar
  <2>2. b = appendFieldToBson[T.of][v]
    BY <1>1, <1>5 DEF AppendBy
  <2>3. CASE Scalar(T.of)
    <3>1. readBsonField[T.of][b] = Ok(v) /\ b.type \in {"utf8", "int32", "int64", "double", "bool"}
      BY <2>1, <2>2, <2>3, ScalarBack
    <3>2. readBsonField[T][b] = readBsonField[T.of][b]
      BY <1>5, <3>1, OptionalIs
    <3> QED BY <1>5, <2>3, <3>1, <3>2 DEF HoldsStruct, Scalar
  <2>4. CASE T.of.kind = "struct"
    <3>1. b = AppendBy(appendFieldToBson, T.of, v)
      BY <2>1, <2>2, AppendIs
    <3>2. b.type = "document"
      BY <2>4, <3>1 DEF AppendBy
    <3> QED BY <1>5, <2>4, <3>2 DEF HoldsStruct
  <2> QED BY <2>1, <2>3, <2>4, Shape
<1> QED BY <1>2, <1>3, <1>4, <1>5, Shape

LEMMA StructBack ==
    ASSUME NEW T \in Types, T.kind = "struct", NEW v \in Written[T], NEW b \in Values,
           b = appendFieldToBson[T][v]
    PROVE  b.type = "document" /\ readBsonField[T][b] = Ok(FlattenedField(T, v))
<1> DEFINE doc == copied(b.value)
           inner(n) == LET F == TypeOfField(T, n)
                       IN  IF HoldsStruct(F) THEN setDefaultValue[F] ELSE v[n]
<1>1. b.type = "document" /\ b.value = toBson(T, v)
  <2>1. b = AppendBy(appendFieldToBson, T, v)
    BY AppendIs
  <2> QED BY <2>1 DEF AppendBy, toBson
<1>2. readBsonField[T][b] = fromBson(T, doc)
  <2>1. readBsonField[T][b] = ReadBy(readBsonField, T, b)
    BY ReadIs
  <2> QED BY <1>1, <2>1 DEF ReadBy, fromBson
<1>3. ASSUME NEW n \in NamesOf(T) PROVE FieldFrom(T, doc, n) = Ok(inner(n))
  <2> DEFINE F == TypeOfField(T, n)
             x == b.value[n]
  <2>1. DOMAIN b.value = NamesOf(T) /\ x = appendFieldToBson[F][v[n]]
    BY <1>1 DEF toBson, ToBsonBy
  <2>2. x \in Values
    BY <1>1, <2>1, BsonAssumption DEF ValuesAssumption
  <2>3. F \in Types
    BY FieldType
  <2>4. v[n] \in Written[F]
    BY BsonAssumption DEF WrittenAssumption
  <2>5. n \in DOMAIN doc <=> x.type \in {"utf8", "int32", "int64", "double", "bool", "date", "oid"}
    BY <2>1 DEF copied
  <2>6. n \in DOMAIN doc => doc[n] = x
    BY DEF copied
  <2> HIDE DEF x, doc, F
  <2>7. IF x.type \in {"utf8", "int32", "int64", "double", "bool", "date", "oid"}
        THEN ~HoldsStruct(F) /\ readBsonField[F][x] = Ok(v[n])
        ELSE setDefaultValue[F] = IF HoldsStruct(F) THEN setDefaultValue[F] ELSE v[n]
    BY <2>1, <2>2, <2>3, <2>4, InnerBack
  <2>8. CASE n \in DOMAIN doc
    <3>1. FieldFrom(T, doc, n) = readBsonField[F][x]
      BY <2>6, <2>8 DEF FieldFrom, F
    <3> QED BY <2>5, <2>7, <2>8, <3>1 DEF F
  <2>9. CASE n \notin DOMAIN doc
    <3>1. FieldFrom(T, doc, n) = Ok(setDefaultValue[F])
      BY <2>9 DEF FieldFrom, F, Missing
    <3>2. setDefaultValue[F] = IF HoldsStruct(F) THEN setDefaultValue[F] ELSE v[n]
      BY <2>5, <2>7, <2>9
    <3> QED BY <3>1, <3>2 DEF F
  <2> QED BY <2>8, <2>9
<1> HIDE DEF doc
<1>4. \A n \in NamesOf(T) : FieldFrom(T, doc, n).is = "ok" /\ FieldFrom(T, doc, n).value = inner(n)
  <2> HIDE DEF inner
  <2> QED BY <1>3 DEF Ok
<1>5. FlattenedField(T, v) = [n \in NamesOf(T) |-> inner(n)]
  BY DEF FlattenedField, HoldsStruct
<1> HIDE DEF inner
<1>6. fromBson(T, doc) = Ok([n \in NamesOf(T) |-> FieldFrom(T, doc, n).value])
  BY <1>4, ReadsWhole
<1>7. [n \in NamesOf(T) |-> FieldFrom(T, doc, n).value] = [n \in NamesOf(T) |-> inner(n)]
  BY <1>4
<1> QED BY <1>1, <1>2, <1>5, <1>6, <1>7

LEMMA FieldBack ==
    ASSUME NEW T \in Types, NEW v \in Written[T], NEW b \in Values,
           b = appendFieldToBson[T][v]
    PROVE  readBsonField[T][b] = Ok(FlattenedField(T, v))
<1>1. CASE Scalar(T)
  BY <1>1, ScalarBack DEF FlattenedField, HoldsStruct, Scalar
<1>2. CASE T.kind = "struct"
  BY <1>2, StructBack
<1>3. CASE T.kind = "optional"
  <2>1. b = AppendBy(appendFieldToBson, T, v)
    BY AppendIs
  <2>2. readBsonField[T][b] = IF b.type = "null" THEN Ok(NULL) ELSE readBsonField[T.of][b]
    BY <1>3, OptionalIs
  <2>3. CASE v = NULL
    <3>1. b.type = "null"
      BY <1>3, <2>1, <2>3 DEF AppendBy
    <3> QED BY <1>3, <2>2, <2>3, <3>1 DEF FlattenedField
  <2>4. CASE v # NULL
    <3>1. T.of \in Types /\ T.of.kind # "optional" /\ v \in Written[T.of]
      BY <1>3, <2>4, Shape, BsonAssumption DEF WrittenAssumption, Scalar
    <3>2. b = appendFieldToBson[T.of][v]
      BY <1>3, <2>1, <2>4 DEF AppendBy
    <3>3. CASE Scalar(T.of)
      <4>1. readBsonField[T.of][b] = Ok(v) /\ b.type # "null"
        BY <3>1, <3>2, <3>3, ScalarBack
      <4>2. FlattenedField(T, v) = v
        BY <1>3, <3>3 DEF FlattenedField, HoldsStruct, Scalar
      <4> QED BY <2>2, <4>1, <4>2
    <3>4. CASE T.of.kind = "struct"
      <4>1. b.type = "document" /\ readBsonField[T.of][b] = Ok(FlattenedField(T.of, v))
        BY <3>1, <3>2, <3>4, StructBack
      <4>2. FlattenedField(T, v) = FlattenedField(T.of, v)
        BY <1>3, <2>4, <3>4 DEF FlattenedField, HoldsStruct
      <4> QED BY <2>2, <4>1, <4>2
    <3> QED BY <3>1, <3>3, <3>4, Shape
  <2> QED BY <2>3, <2>4
<1> QED BY <1>1, <1>2, <1>3, Shape

LEMMA RecordBack ==
    ASSUME NEW T \in Types, T.kind = "struct", NEW v \in Written[T],
           \A n \in DOMAIN toBson(T, v) : toBson(T, v)[n] \in Values
    PROVE  fromBson(T, toBson(T, v)) = Ok(Flattened(T, v))
<1> DEFINE doc == toBson(T, v)
<1>1. ASSUME NEW n \in NamesOf(T)
      PROVE  FieldFrom(T, doc, n) = Ok(FlattenedField(TypeOfField(T, n), v[n]))
  <2> DEFINE F == TypeOfField(T, n)
  <2>1. n \in DOMAIN doc /\ doc[n] = appendFieldToBson[F][v[n]]
    BY DEF toBson, ToBsonBy
  <2>2. doc[n] \in Values /\ F \in Types /\ v[n] \in Written[F]
    BY <2>1, FieldType, BsonAssumption DEF WrittenAssumption
  <2> HIDE DEF doc, F
  <2>3. FieldFrom(T, doc, n) = readBsonField[F][doc[n]]
    BY <2>1 DEF FieldFrom, F
  <2> QED BY <2>1, <2>2, <2>3, FieldBack DEF F
<1> HIDE DEF doc
<1> DEFINE whole(n) == FlattenedField(TypeOfField(T, n), v[n])
<1>2. \A n \in NamesOf(T) : FieldFrom(T, doc, n).is = "ok" /\ FieldFrom(T, doc, n).value = whole(n)
  <2> HIDE DEF whole
  <2> QED BY <1>1 DEF Ok, whole
<1>3. Flattened(T, v) = [n \in NamesOf(T) |-> whole(n)]
  BY DEF Flattened
<1> HIDE DEF whole
<1>4. [n \in NamesOf(T) |-> FieldFrom(T, doc, n).value] = [n \in NamesOf(T) |-> whole(n)]
  BY <1>2
<1>5. fromBson(T, doc) = Ok([n \in NamesOf(T) |-> FieldFrom(T, doc, n).value])
  BY <1>2, ReadsWhole
<1> QED BY <1>3, <1>4, <1>5 DEF doc

-----------------------------------------------------------------------------
\* The people in the arcades counted so far.

LEMMA SumIsRun ==
    ASSUME NEW r, Len(r) \in Nat, \A i \in 1..Len(r) : r[i]["arcade_num"] \in Int
    PROVE  /\ SumOf(r)[0] = 0
           /\ \A i \in 0..Len(r) - 1 : SumOf(r)[i + 1] = SumOf(r)[i] + r[i + 1]["arcade_num"]
           /\ \A i \in 0..Len(r) : SumOf(r)[i] \in Int
<1> DEFINE k == Len(r)
           term == [i \in 0..k - 1 |-> r[i + 1]["arcade_num"]]
           IsRun(g) == g = [n \in 0..k |-> IF n = 0 THEN 0
                                           ELSE g[n - 1] + r[n]["arcade_num"]]
<1>1. k \in Nat
  OBVIOUS
<1>2. SumOf(r) = CHOOSE g : IsRun(g)
  BY DEF SumOf
<1>3. \A i \in 1..k : r[i]["arcade_num"] \in Int
  OBVIOUS
<1> HIDE DEF k
<1>4. term \in [0..k - 1 -> Int]
  <2> SUFFICES ASSUME NEW i \in 0..k - 1 PROVE r[i + 1]["arcade_num"] \in Int
    OBVIOUS
  <2>1. i + 1 \in 1..k
    BY <1>1
  <2> QED BY <1>3, <2>1
<1>5. \A i \in 0..k - 1 : term[i] = r[i + 1]["arcade_num"]
  OBVIOUS
<1> HIDE DEF term
<1>6. PICK f \in [0..k -> Int] : f[0] = 0 /\ \A i \in 0..k - 1 : f[i + 1] = f[i] + term[i]
  <2>1. 0 \in Nat /\ 0 <= k
    BY <1>1
  <2> QED BY <1>1, <1>4, <2>1, SumRuns
<1>7. IsRun(f)
  <2>1. ASSUME NEW n \in 0..k, n # 0 PROVE f[n] = f[n - 1] + r[n]["arcade_num"]
    <3>1. n - 1 \in 0..k - 1 /\ (n - 1) + 1 = n
      BY <1>1, <2>1
    <3> QED BY <1>5, <1>6, <3>1
  <2> QED BY <1>6, <2>1
<1>8. IsRun(SumOf(r))
  <2> HIDE DEF IsRun
  <2> QED BY <1>2, <1>7
<1> DEFINE s == SumOf(r)
<1>9. s = [n \in 0..k |-> IF n = 0 THEN 0 ELSE s[n - 1] + r[n]["arcade_num"]]
  BY <1>8
<1> HIDE DEF s
<1>10. s[0] = 0
  BY <1>1, <1>9
<1>11. ASSUME NEW i \in 0..k - 1 PROVE s[i + 1] = s[i] + r[i + 1]["arcade_num"]
  <2>1. i + 1 \in 0..k /\ i + 1 # 0 /\ (i + 1) - 1 = i
    BY <1>1
  <2>2. s[i + 1] = s[(i + 1) - 1] + r[i + 1]["arcade_num"]
    BY <1>9, <2>1
  <2> QED BY <2>1, <2>2
<1>12. \A i \in 0..k : s[i] \in Int
  <2>1. 0 \in Nat /\ 0 <= k
    BY <1>1
  <2>2. \A i \in 0..k - 1 : s[i + 1] = s[i] + term[i]
    BY <1>5, <1>11
  <2> QED BY <1>1, <1>4, <1>10, <2>1, <2>2, SumIs
<1> QED BY <1>10, <1>11, <1>12 DEF s, k

-----------------------------------------------------------------------------
(* The invariant.  Where a query stands says how much of it is done: what  *)
(* has been read is converted, but for the document in hand.               *)

Answers == {fromBson(query.type, query.docs[i]).value : i \in 1..Len(query.docs)}

Conversions == \A i \in 1..Len(results) : fromBson(query.type, query.docs[i]) = Ok(results[i])

AllRead == broken \/ read = Len(query.docs)

Standing ==
    \/ /\ step = "open" /\ outcome = "running" /\ filter = "open" /\ cursor = "none"
       /\ read = 0 /\ ~broken /\ Len(results) = 0
    \/ /\ step = "next" /\ outcome = "running" /\ filter = "open" /\ cursor = "open"
       /\ ~broken /\ Len(results) = read /\ (query.call = "findOne" => read = 0)
    \/ /\ step = "convert" /\ outcome = "running" /\ filter = "open" /\ cursor = "open"
       /\ ~broken /\ Len(results) = read - 1 /\ (query.call = "findOne" => read = 1)
    \/ /\ step = "sum" /\ outcome = "running" /\ filter = "destroyed" /\ cursor = "destroyed"
       /\ query.call = "find" /\ query.type = ArcadeInfo
       /\ Len(results) = read /\ AllRead
       /\ total = SumOf(results)[summed]
    \/ /\ step = "over" /\ outcome = "ok" /\ filter = "destroyed" /\ cursor = "destroyed"
       /\ Len(results) = read
       /\ IF query.call = "find" THEN AllRead ELSE Len(results) = 0 => AllRead
    \/ /\ step = "over" /\ outcome = "error"
       /\ filter = "destroyed" /\ cursor \in {"destroyed", "null"}
    \/ step = "over" /\ outcome = "panic" /\ OnlyNumbersPanic

QueryIInv == /\ QueryTypeOK
             /\ results \in Seq(Answers)
             /\ Conversions
             /\ step \in {"open", "next", "convert"} => total = 0 /\ summed = 0
             /\ Standing

\* What a query is.
LEMMA QueryIs ==
    ASSUME NEW q \in Queries
    PROVE  /\ q.type \in Types /\ q.type.kind = "struct"
           /\ q.call \in {"find", "findOne"}
           /\ Len(q.docs) \in Nat
           /\ Len(q.docs) = 0 => q.docs = <<>>
           /\ \A i \in 1..Len(q.docs) : \A n \in DOMAIN q.docs[i] : q.docs[i][n] \in Values
<1> DEFINE D == {q.docs[i] : i \in 1..Len(q.docs)}
<1>1. q.docs \in Seq(D)
  BY QueriesAssumption
<1> HIDE DEF D
<1>2. Len(q.docs) \in Nat /\ (Len(q.docs) = 0 => q.docs = <<>>)
  BY <1>1
<1> QED BY <1>2, QueriesAssumption

LEMMA QueryStarts == QueryInit => QueryIInv
<1> SUFFICES ASSUME QueryInit PROVE QueryIInv
  OBVIOUS
<1>1. Len(query.docs) \in Nat /\ MaxI32 \in Nat
  BY QueryIs, BsonAssumption DEF QueryInit
<1> DEFINE k == Len(query.docs)
<1>2. results = <<>> /\ Len(results) = 0 /\ results \in Seq(Answers)
  BY DEF QueryInit
<1>3. read \in 0..k
  <2>1. k \in Nat /\ read = 0
    BY <1>1 DEF QueryInit
  <2> HIDE DEF k
  <2> QED BY <2>1
<1>4. InRange(total, MaxI32)
  BY <1>1 DEF QueryInit, InRange
<1>5. QueryTypeOK
  <2>1. Len(results) <= read /\ summed \in 0..Len(results) /\ 1..Len(results) = {}
    BY <1>2 DEF QueryInit
  <2> HIDE DEF k
  <2> QED BY <1>3, <1>4, <2>1 DEF QueryInit, QueryTypeOK, k
<1> QED BY <1>2, <1>5 DEF QueryInit, QueryIInv, Standing, Conversions

\* What a step that adds no result keeps.
LEMMA SameResults ==
    ASSUME QueryIInv, UNCHANGED <<query, results>>
    PROVE  results' \in Seq(Answers') /\ Conversions'
BY DEF QueryIInv, Answers, Conversions

LEMMA SameType ==
    ASSUME QueryTypeOK, UNCHANGED <<query, read, results, total, summed>>,
           step' \in {"open", "next", "convert", "sum", "over"},
           filter' \in {"open", "destroyed"},
           cursor' \in {"none", "open", "destroyed", "null"},
           broken' \in BOOLEAN,
           outcome' \in {"running", "ok", "error", "panic"}
    PROVE  QueryTypeOK'
BY DEF QueryTypeOK

LEMMA OpenCursorKeeps == ASSUME QueryIInv, OpenCursor PROVE QueryIInv'
<1>1. QueryTypeOK'
  BY SameType DEF QueryIInv, OpenCursor, QueryTypeOK
<1>2. Standing'
  BY DEF QueryIInv, OpenCursor, Standing
<1> QED BY <1>1, <1>2, SameResults DEF QueryIInv, OpenCursor

LEMMA NoCursorKeeps == ASSUME QueryIInv, NoCursor PROVE QueryIInv'
<1>1. QueryTypeOK'
  BY SameType DEF QueryIInv, NoCursor, QueryTypeOK, Ends
<1>2. Standing'
  BY DEF QueryIInv, NoCursor, Standing, OnlyNumbersPanic, Ends
<1>3. step' = "over"
  BY DEF NoCursor, Ends
<1> QED BY <1>1, <1>2, <1>3, SameResults DEF QueryIInv, NoCursor

LEMMA DeliverKeeps == ASSUME QueryIInv, Deliver PROVE QueryIInv'
<1> DEFINE k == Len(query.docs)
           l == Len(results)
<1>1. k \in Nat /\ l \in Nat /\ read \in 0..k /\ read < k /\ l = read /\ read' = read + 1
  BY QueryIs DEF QueryIInv, QueryTypeOK, Deliver, Standing
<1>2. query' = query /\ results' = results /\ k' = k /\ l' = l
  BY DEF Deliver
<1> HIDE DEF k, l
<1>3. read' \in 0..k /\ l <= read' /\ l = read' - 1
  BY <1>1
<1>4. QueryTypeOK'
  BY <1>2, <1>3 DEF QueryIInv, Deliver, QueryTypeOK, k, l
<1>5. Standing'
  BY <1>1, <1>2, <1>3 DEF QueryIInv, Deliver, Standing, l
<1> QED BY <1>4, <1>5, SameResults DEF QueryIInv, Deliver

\* A query that returns from its loop, whatever the reason.
LEMMA ReturnKeeps ==
    ASSUME QueryIInv, step = "next", UNCHANGED <<query, read, results, total, summed>>,
           broken' \in BOOLEAN, Return("ok"), AllRead'
    PROVE  QueryIInv'
<1>1. outcome = "running" /\ cursor = "open" /\ Len(results) = read /\ total = 0 /\ summed = 0
      /\ query \in Queries
  BY DEF QueryIInv, Standing, QueryTypeOK
<1>2. step' \in {"sum", "over"} /\ filter' = "destroyed" /\ cursor' = "destroyed"
  BY <1>1 DEF Return
<1>3. QueryTypeOK'
  BY <1>1, <1>2, SameType DEF QueryIInv, Return
<1>4. Standing'
  <2>1. CASE query.call = "find" /\ query.type = ArcadeInfo
    <3>1. SumOf(results)[0] = 0
      <4>1. Len(results) \in Nat
        BY DEF QueryIInv
      <4>2. \A i \in 1..Len(results) : results[i]["arcade_num"] \in Int
        <5> SUFFICES ASSUME NEW i \in 1..Len(results) PROVE results[i]["arcade_num"] \in Int
          OBVIOUS
        <5>1. fromBson(query.type, query.docs[i]) = Ok(results[i])
          BY DEF QueryIInv, Conversions
        <5>2. i \in 1..Len(query.docs)
          <6> DEFINE k == Len(query.docs)
          <6>1. k \in Nat /\ read \in 0..k /\ i \in 1..read
            BY <1>1, QueryIs DEF QueryIInv, QueryTypeOK
          <6> HIDE DEF k
          <6>2. i \in 1..k
            BY <6>1
          <6> QED BY <6>2 DEF k
        <5> QED BY <1>1, <2>1, <5>1, <5>2, QueryIs, PeopleIsNumber
      <4> QED BY <4>1, <4>2, SumIsRun
    <3>2. step' = "sum" /\ outcome' = "running"
      BY <1>1, <2>1 DEF Return
    <3> QED BY <1>1, <1>2, <2>1, <3>1, <3>2 DEF Standing
  <2>2. CASE ~(query.call = "find" /\ query.type = ArcadeInfo)
    <3>1. step' = "over" /\ outcome' = "ok"
      BY <2>2 DEF Return
    <3> QED BY <1>1, <1>2, <3>1 DEF Standing
  <2> QED BY <2>1, <2>2
<1> QED BY <1>2, <1>3, <1>4, SameResults DEF QueryIInv

LEMMA ExhaustedKeeps == ASSUME QueryIInv, Exhausted PROVE QueryIInv'
BY ReturnKeeps DEF QueryIInv, QueryTypeOK, Exhausted, NoMore, AllRead

LEMMA BreaksOffKeeps == ASSUME QueryIInv, BreaksOff PROVE QueryIInv'
BY ReturnKeeps DEF BreaksOff, NoMore, AllRead

\* The document in hand.
LEMMA InHand ==
    ASSUME QueryIInv, step = "convert"
    PROVE  /\ read \in 1..Len(query.docs) /\ Len(results) = read - 1 /\ read \in Nat
           /\ Len(results) \in Nat
           /\ query \in Queries /\ query.type \in Types /\ query.type.kind = "struct"
           /\ outcome = "running" /\ filter = "open" /\ cursor = "open" /\ ~broken
           /\ total = 0 /\ summed = 0
<1> DEFINE k == Len(query.docs)
           l == Len(results)
<1>1. /\ k \in Nat /\ l \in Nat /\ read \in 0..k /\ l = read - 1
  BY QueryIs DEF QueryIInv, QueryTypeOK, Standing
<1>2. read \in 1..k /\ read \in Nat
  <2> HIDE DEF k, l
  <2> QED BY <1>1
<1> QED BY <1>1, <1>2, QueryIs DEF QueryIInv, QueryTypeOK, Standing

LEMMA ConvertsOk ==
    ASSUME QueryIInv, Convert, fromBson(query.type, Doc).is = "ok"
    PROVE  QueryIInv'
<1> DEFINE v == fromBson(query.type, Doc).value
           l == Len(results)
<1>1. /\ read \in 1..Len(query.docs) /\ l = read - 1 /\ read \in Nat /\ l \in Nat
      /\ query \in Queries /\ query.type \in Types /\ query.type.kind = "struct"
      /\ outcome = "running" /\ cursor = "open" /\ filter = "open" /\ ~broken
      /\ total = 0 /\ summed = 0
  BY InHand DEF Convert
<1>2. fromBson(query.type, Doc) = Ok(v) /\ DOMAIN v = NamesOf(query.type)
  BY <1>1, ReadsOk DEF Ok
<1>3. /\ results' = Append(results, v)
      /\ UNCHANGED <<query, read, broken, total, summed>>
  BY DEF Convert
<1>4. v \in Answers
  BY <1>1 DEF Answers, Doc
<1>5. Answers' = Answers
  BY <1>3 DEF Answers
<1> DEFINE a == Answers
<1>6. results \in Seq(a)
  BY DEF QueryIInv
<1> HIDE DEF v, a
<1>7. /\ results' \in Seq(a) /\ Len(results') = l + 1 /\ results'[l + 1] = v
      /\ \A i \in 1..l : results'[i] = results[i]
  BY <1>3, <1>4, <1>6 DEF a
<1> HIDE DEF l
<1>8. Len(results') = read /\ l + 1 = read
  BY <1>1, <1>7
<1>9. \A i \in 1..Len(results') : i \in 1..l \/ i = read
  BY <1>1, <1>8
<1>10. Conversions'
  <2> SUFFICES ASSUME NEW i \in 1..Len(results')
               PROVE  fromBson(query.type, query.docs[i]) = Ok(results'[i])
    BY <1>3 DEF Conversions
  <2>1. CASE i \in 1..l
    BY <1>7, <2>1 DEF QueryIInv, Conversions, l
  <2>2. CASE i = read
    BY <1>2, <1>7, <1>8, <2>2 DEF Doc
  <2> QED BY <1>9, <2>1, <2>2
<1>11. /\ IF query.call = "find"
          THEN step' = "next" /\ filter' = "open" /\ cursor' = "open" /\ outcome' = "running"
          ELSE step' = "over" /\ filter' = "destroyed" /\ cursor' = "destroyed" /\ outcome' = "ok"
  BY <1>1 DEF Convert, Return
<1>12. QueryTypeOK'
  <2>1. \A i \in 1..Len(results') : DOMAIN results'[i] = NamesOf(query.type)
    <3> SUFFICES ASSUME NEW i \in 1..Len(results')
                 PROVE  DOMAIN results'[i] = NamesOf(query.type)
      OBVIOUS
    <3>1. CASE i \in 1..l
      BY <1>7, <3>1 DEF QueryIInv, QueryTypeOK, l
    <3>2. CASE i = read
      BY <1>2, <1>7, <1>8, <3>2
    <3> QED BY <1>9, <3>1, <3>2
  <2>2. Len(results') <= read /\ 0 \in 0..Len(results')
    BY <1>1, <1>8
  <2>3. /\ query \in Queries /\ read \in 0..Len(query.docs) /\ broken \in BOOLEAN
        /\ InRange(total, MaxI32) /\ summed = 0
    BY <1>1 DEF QueryIInv, QueryTypeOK
  <2> QED BY <1>3, <1>11, <2>1, <2>2, <2>3 DEF QueryTypeOK
<1>13. Standing'
  <2>1. CASE query.call = "find"
    BY <1>1, <1>3, <1>8, <1>11, <2>1 DEF Standing
  <2>2. CASE query.call # "find"
    BY <1>1, <1>3, <1>8, <1>11, <2>2 DEF Standing
  <2> QED BY <2>1, <2>2
<1> QED BY <1>1, <1>3, <1>5, <1>7, <1>10, <1>12, <1>13 DEF QueryIInv, a

LEMMA ConvertKeeps == ASSUME QueryIInv, Convert PROVE QueryIInv'
<1> DEFINE r == fromBson(query.type, Doc)
<1>1. /\ read \in 1..Len(query.docs) /\ query \in Queries
      /\ query.type \in Types /\ query.type.kind = "struct"
      /\ outcome = "running" /\ cursor = "open" /\ filter = "open"
  BY InHand DEF Convert
<1>2. CASE r.is = "ok"
  BY <1>2, ConvertsOk
<1>3. CASE r.is = "error"
  <2>1. Return("error") /\ UNCHANGED <<query, read, results, broken, total, summed>>
    BY <1>3 DEF Convert
  <2>2. step' = "over" /\ outcome' = "error" /\ filter' = "destroyed" /\ cursor' = "destroyed"
    BY <1>1, <2>1 DEF Return
  <2>3. QueryTypeOK'
    BY <2>1, <2>2, SameType DEF QueryIInv, QueryTypeOK
  <2>4. Standing'
    BY <2>2 DEF Standing
  <2> QED BY <2>1, <2>2, <2>3, <2>4, SameResults DEF QueryIInv
<1>4. CASE r.is = "panic"
  <2>1. /\ step' = "over" /\ outcome' = "panic"
        /\ UNCHANGED <<query, read, results, broken, total, summed, filter, cursor>>
    BY <1>4 DEF Convert, Ends
  <2>2. QueryTypeOK'
    BY <2>1, SameType DEF QueryIInv, QueryTypeOK
  <2>3. \A n \in DOMAIN Doc : Doc[n] \in Values
    BY <1>1, QueryIs DEF Doc
  <2>4. \E n \in DOMAIN Doc : ~Tame(Doc[n])
    BY <1>1, <1>4, <2>3, RecordPanics
  <2>5. read \in 1..read
    <3> DEFINE k == Len(query.docs)
    <3>1. k \in Nat /\ read \in 1..k
      BY <1>1, QueryIs
    <3> HIDE DEF k
    <3> QED BY <3>1
  <2>6. \E i \in 1..read : \E n \in DOMAIN query.docs[i] : ~Tame(query.docs[i][n])
    BY <2>4, <2>5 DEF Doc
  <2>7. OnlyNumbersPanic'
    BY <2>1, <2>6 DEF OnlyNumbersPanic
  <2>8. Standing'
    BY <2>1, <2>7 DEF Standing
  <2> QED BY <2>1, <2>2, <2>8, SameResults DEF QueryIInv
<1> QED BY <1>2, <1>3, <1>4 DEF Convert

LEMMA OutOfMemoryKeeps == ASSUME QueryIInv, OutOfMemory PROVE QueryIInv'
<1>1. cursor = "open"
  BY InHand DEF OutOfMemory
<1>2. /\ step' = "over" /\ outcome' = "error" /\ filter' = "destroyed" /\ cursor' = "destroyed"
      /\ UNCHANGED <<query, read, results, broken, total, summed>>
  BY <1>1 DEF OutOfMemory, Return
<1>3. QueryTypeOK'
  BY <1>2, SameType DEF QueryIInv, QueryTypeOK
<1>4. Standing'
  BY <1>2 DEF Standing
<1> QED BY <1>2, <1>3, <1>4, SameResults DEF QueryIInv

LEMMA SumKeeps == ASSUME QueryIInv, Sum PROVE QueryIInv'
<1> DEFINE l == Len(results)
           k == Len(query.docs)
           t == total + results[summed + 1]["arcade_num"]
<1>1. /\ outcome = "running" /\ filter = "destroyed" /\ cursor = "destroyed"
      /\ query.call = "find" /\ query.type = ArcadeInfo /\ l = read /\ AllRead
      /\ total = SumOf(results)[summed]
      /\ query \in Queries /\ results \in Seq(Answers) /\ summed \in 0..l /\ summed < l
      /\ read \in 0..k
  BY DEF Sum, QueryIInv, QueryTypeOK, Standing
<1>2. UNCHANGED <<query, filter, cursor, read, broken, results>>
  BY DEF Sum
<1>3. l \in Nat /\ k \in Nat
  BY <1>1, QueryIs
<1>4. \A i \in 1..l : results[i]["arcade_num"] \in Int
  <2> SUFFICES ASSUME NEW i \in 1..l PROVE results[i]["arcade_num"] \in Int
    OBVIOUS
  <2>1. fromBson(query.type, query.docs[i]) = Ok(results[i])
    BY DEF QueryIInv, Conversions
  <2>2. i \in 1..k
    <3> HIDE DEF l, k
    <3> QED BY <1>1, <1>3
  <2> QED BY <1>1, <2>1, <2>2, QueryIs, PeopleIsNumber
<1>5. summed \in 0..l - 1 /\ summed + 1 \in 0..l /\ summed \in Nat
  <2> HIDE DEF l
  <2> QED BY <1>1, <1>3
<1>6. SumOf(results)[summed + 1] = t
  BY <1>1, <1>3, <1>4, <1>5, SumIsRun
<1>7. CASE InRange(t, MaxI32)
  <2>1. total' = t /\ summed' = summed + 1 /\ step' = "sum" /\ outcome' = "running"
    BY <1>1, <1>7 DEF Sum
  <2>2. QueryTypeOK'
    BY <1>1, <1>2, <1>5, <1>7, <2>1 DEF QueryIInv, QueryTypeOK
  <2>3. Standing'
    <3>1. total' = SumOf(results')[summed']
      BY <1>2, <1>6, <2>1
    <3>2. AllRead' /\ Len(results') = read'
      BY <1>1, <1>2 DEF AllRead
    <3> QED BY <1>1, <1>2, <2>1, <3>1, <3>2 DEF Standing
  <2> QED BY <1>2, <2>1, <2>2, <2>3, SameResults DEF QueryIInv
<1>8. CASE ~InRange(t, MaxI32)
  <2>1. step' = "over" /\ outcome' = "panic" /\ UNCHANGED <<total, summed>>
    BY <1>8 DEF Sum, Ends
  <2>2. QueryTypeOK'
    BY <1>2, <2>1, SameType DEF QueryIInv, QueryTypeOK
  <2>3. OnlyNumbersPanic'
    BY <1>1, <1>2, <1>6, <1>8, <2>1 DEF OnlyNumbersPanic
  <2>4. Standing'
    BY <2>1, <2>3 DEF Standing
  <2> QED BY <1>2, <2>1, <2>2, <2>4, SameResults DEF QueryIInv
<1> QED BY <1>7, <1>8

LEMMA AnswerKeeps == ASSUME QueryIInv, Answer PROVE QueryIInv'
<1>1. UNCHANGED <<query, filter, cursor, read, broken, results, total, summed>>
  BY DEF Answer
<1>2. step' = "over" /\ outcome' = "ok"
  BY DEF Answer, Ends
<1>3. /\ filter = "destroyed" /\ cursor = "destroyed" /\ query.call = "find"
      /\ Len(results) = read /\ AllRead
  BY DEF Answer, QueryIInv, Standing
<1>4. QueryTypeOK'
  BY <1>1, <1>2, SameType DEF QueryIInv, QueryTypeOK
<1>5. Standing'
  BY <1>1, <1>2, <1>3 DEF Standing, AllRead
<1> QED BY <1>1, <1>2, <1>4, <1>5, SameResults DEF QueryIInv

LEMMA QueryStutters == ASSUME QueryIInv, UNCHANGED queryVars PROVE QueryIInv'
<1>1. QueryTypeOK'
  BY SameType DEF QueryIInv, QueryTypeOK, queryVars
<1>2. Standing'
  BY DEF QueryIInv, Standing, AllRead, OnlyNumbersPanic, queryVars
<1> QED BY <1>1, <1>2, SameResults DEF QueryIInv, queryVars

\* The invariant holds: a query is well typed and as far as its step says.
THEOREM QueryInvariance == QuerySpec => []QueryIInv
<1>1. ASSUME QueryIInv, [QueryNext]_queryVars PROVE QueryIInv'
  BY <1>1, OpenCursorKeeps, NoCursorKeeps, DeliverKeeps, ExhaustedKeeps, BreaksOffKeeps,
     ConvertKeeps, OutOfMemoryKeeps, SumKeeps, AnswerKeeps, QueryStutters DEF QueryNext
<1> QED BY <1>1, QueryStarts, PTL DEF QuerySpec

-----------------------------------------------------------------------------
(* What the runs check.                                                    *)

\* Whatever way a query ends, its filter and its cursor are destroyed, once
\* the last document has been converted (mongodb.zig:451, 458, 480, 483).
THEOREM NothingIsLeft == QuerySpec => []NothingLeft
<1>1. QueryIInv => NothingLeft
  BY DEF QueryIInv, Standing, NothingLeft
<1> QED BY <1>1, QueryInvariance, PTL

\* An answer is made of all the documents, or of those before the cursor
\* broke off (mongodb.zig:460-466, 485-493).
THEOREM AnswersAreWhole == QuerySpec => []AnswerIsWhole
<1>1. ASSUME QueryIInv PROVE AnswerIsWhole
  <2>1. Conversions
    BY <1>1 DEF QueryIInv
  <2>2. outcome = "ok" =>
            /\ Len(results) = read
            /\ IF query.call = "find" THEN AllRead ELSE Len(results) = 0 => AllRead
    BY <1>1 DEF QueryIInv, Standing
  <2>3. results = <<>> => Len(results) = 0
    OBVIOUS
  <2>4. Len(query.docs) = 0 => query.docs = <<>>
    BY <1>1, QueryIs DEF QueryIInv, QueryTypeOK
  <2> QED BY <2>1, <2>2, <2>3, <2>4 DEF AnswerIsWhole, AllRead, Conversions
<1> QED BY <1>1, QueryInvariance, PTL

\* Of what a document may hold only numbers panic: @intCast, @intFromFloat,
\* and the sum of "jt" (mongodb.zig:97-110, 134; main.zig:137).
THEOREM OnlyNumbersPanicEver == QuerySpec => []OnlyNumbersPanic
<1>1. QueryIInv => OnlyNumbersPanic
  BY DEF QueryIInv, Standing, OnlyNumbersPanic
<1> QED BY <1>1, QueryInvariance, PTL

\* Without structs in its structs a value keeps everything.
LEMMA ShallowKept ==
    ASSUME NEW T \in Types, T.kind = "struct", Shallow(T), NEW v \in Written[T]
    PROVE  Flattened(T, v) = v
<1>1. /\ v = [n \in DOMAIN v |-> v[n]] /\ DOMAIN v = NamesOf(T)
      /\ \A n \in NamesOf(T) : v[n] \in Written[TypeOfField(T, n)]
  BY BsonAssumption DEF WrittenAssumption
<1>2. ASSUME NEW n \in NamesOf(T) PROVE FlattenedField(TypeOfField(T, n), v[n]) = v[n]
  <2> DEFINE F == TypeOfField(T, n)
             S == IF F.kind = "struct" THEN F ELSE F.of
             x == v[n]
  <2>1. F \in Types /\ x \in Written[F]
    BY <1>1, FieldType
  <2>2. HoldsStruct(F) => \A m \in NamesOf(S) : ~HoldsStruct(TypeOfField(S, m))
    <3>1. LET R == IF F.kind = "optional" THEN F.of ELSE F
          IN  HoldsStruct(F) => \A m \in NamesOf(R) : ~HoldsStruct(TypeOfField(R, m))
      BY DEF Shallow
    <3> HIDE DEF F
    <3> QED BY <3>1 DEF HoldsStruct
  <2> HIDE DEF F, x
  <2>3. CASE ~HoldsStruct(F) \/ (F.kind = "optional" /\ x = NULL)
    <3>1. FlattenedField(F, x) = x
      BY <2>3 DEF FlattenedField
    <3> QED BY <3>1 DEF F, x
  <2>4. CASE HoldsStruct(F) /\ ~(F.kind = "optional" /\ x = NULL)
    <3>1. S \in Types /\ S.kind = "struct" /\ x \in Written[S]
      <4>1. F.kind = "optional" => F.of \in Types /\ x \in Written[F.of]
        BY <2>1, <2>4, Shape, BsonAssumption DEF WrittenAssumption, Scalar
      <4> QED BY <2>1, <2>4, <4>1 DEF HoldsStruct
    <3>2. x = [m \in NamesOf(S) |-> x[m]]
      <4> HIDE DEF S
      <4>1. x = [m \in DOMAIN x |-> x[m]] /\ DOMAIN x = NamesOf(S)
        BY <3>1, BsonAssumption DEF WrittenAssumption
      <4> QED BY <4>1
    <3>3. FlattenedField(F, x) = [m \in NamesOf(S) |->
              IF HoldsStruct(TypeOfField(S, m)) THEN setDefaultValue[TypeOfField(S, m)]
              ELSE x[m]]
      BY <2>4 DEF FlattenedField
    <3> HIDE DEF S
    <3>4. FlattenedField(F, x) = [m \in NamesOf(S) |-> x[m]]
      BY <2>2, <2>4, <3>3
    <3>5. FlattenedField(F, x) = x
      BY <3>2, <3>4
    <3> QED BY <3>5 DEF F, x
  <2> QED BY <2>3, <2>4
<1>3. Flattened(T, v) = [n \in NamesOf(T) |-> v[n]]
  BY <1>2 DEF Flattened
<1> QED BY <1>1, <1>3

\* What toBson wrote of a type without structs in its structs comes back from
\* find as it was (mongodb.zig:148-162, 208-247).
THEOREM WrittenComesBack == QuerySpec => []ShallowReadsBack
<1>1. ASSUME QueryIInv PROVE ShallowReadsBack
  <2> SUFFICES ASSUME WholeAnswer, query.written # <<>>, Shallow(query.type)
               PROVE  AsWritten
    BY DEF ShallowReadsBack
  <2>0. outcome = "ok" /\ query.call = "find" /\ ~broken
    BY DEF WholeAnswer
  <2>1. query \in Queries /\ Conversions
    BY <1>1 DEF QueryIInv, QueryTypeOK
  <2>2. /\ Len(query.docs) = Len(query.written)
        /\ \A i \in 1..Len(query.docs) :
               /\ query.written[i] \in Written[query.type]
               /\ query.docs[i] = toBson(query.type, query.written[i])
    BY <2>1, QueriesAssumption
  <2>3. Len(results) = Len(query.docs)
    BY <1>1, <2>0 DEF QueryIInv, Standing, AllRead
  <2>4. ASSUME NEW i \in 1..Len(results) PROVE results[i] = query.written[i]
    <3> DEFINE T == query.type
               v == query.written[i]
    <3>1. i \in 1..Len(query.docs) /\ query.docs[i] = toBson(T, v) /\ v \in Written[T]
      BY <2>2, <2>3
    <3>2. T \in Types /\ T.kind = "struct" /\ \A n \in DOMAIN toBson(T, v) : toBson(T, v)[n] \in Values
      BY <2>1, <3>1, QueryIs
    <3>3. fromBson(T, toBson(T, v)) = Ok(results[i]) /\ Shallow(T)
      BY <2>1, <3>1 DEF Conversions
    <3> HIDE DEF T, v
    <3>4. Ok(results[i]) = Ok(v)
      BY <3>1, <3>2, <3>3, RecordBack, ShallowKept
    <3> QED BY <3>4 DEF Ok, T, v
  <2> QED BY <2>2, <2>3, <2>4 DEF AsWritten
<1> QED BY <1>1, QueryInvariance, PTL

\* A document that can be read can be read without any of its fields
\* (mongodb.zig:63-66).
THEOREM MissingMeansDefault == QuerySpec => []MissingIsDefault
<1>1. ASSUME QueryIInv PROVE MissingIsDefault
  <2> SUFFICES ASSUME step = "convert", fromBson(query.type, Doc).is = "ok",
                      NEW n \in NamesOf(query.type)
               PROVE  fromBson(query.type, [m \in DOMAIN Doc \ {n} |-> Doc[m]])
                          = Ok([fromBson(query.type, Doc).value EXCEPT
                                    ![n] = setDefaultValue[TypeOfField(query.type, n)]])
    BY DEF MissingIsDefault
  <2>1. query.type \in Types /\ query.type.kind = "struct"
    BY <1>1, InHand
  <2> DEFINE T == query.type
             doc == Doc
  <2> HIDE DEF T, doc
  <2>2. fromBson(T, [m \in DOMAIN doc \ {n} |-> doc[m]])
            = Ok([fromBson(T, doc).value EXCEPT ![n] = setDefaultValue[TypeOfField(T, n)]])
    BY <2>1, MissingField DEF T, doc
  <2> QED BY <2>2 DEF T, doc
<1> QED BY <1>1, QueryInvariance, PTL

=============================================================================
