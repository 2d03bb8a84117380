----------------------------- MODULE ArcProofs -----------------------------
(***************************************************************************)
(* The reference counts of Arc, for every finite number of handles and     *)
(* every interleaving of their operations.  IInv says what the code relies *)
(* on without checking it: whoever is past its last decrement of a strong  *)
(* counter found it at 1 and leaves it at 0 for ever, an upgrade swaps     *)
(* only from a count it saw above 0, and whoever deallocates is alone.     *)
(***************************************************************************)
EXTENDS Arc, FiniteSetTheorems, TLAPS

\* The last strong handle on its way out.
Leaving == {"read", "drop"}

\* Before the first handle nothing has happened.
Fresh == memory = "none" => /\ \A h \in Handles : Is(h, "none")
                            /\ strong = 0 /\ weak = 0 /\ taken = 0

\* The value leaves only after the last strong handle, and only once.
LeavesLast == /\ \A h \in Handles : state[h] \in Leaving => strong = 0
              /\ \A h, g \in Handles : state[h] \in Leaving /\ state[g] \in Leaving => h = g
              /\ \A h \in Handles : state[h] \in {"building", "strong", "read"} => taken = 0
              /\ taken \in {0, 1}

\* During initCyclic there are only weak handles besides.
BuildsAlone == \A h, g \in Handles : Is(h, "building") /\ g # h =>
                   state[g] \notin {"building", "strong", "read", "drop", "free"}

\* What an upgrade and a weakCount remember between two accesses.
Remembered ==
    /\ \A h \in Handles : Is(h, "cas") => reg[h] > 0
    /\ \A h \in Handles : Is(h, "count") =>
           /\ reg[h] >= 1
           /\ strong > 0 \/ (\E g \in Handles : Is(g, "building")) => reg[h] >= 2

IInv == /\ TypeOK
        /\ Counted
        /\ LiveWhileReferenced
        /\ FreedByLast
        /\ Fresh
        /\ LeavesLast
        /\ BuildsAlone
        /\ Remembered

-----------------------------------------------------------------------------
(* Lemmas about counting handles. *)

InOf(st, S) == {h \in Handles : st[h] \in S}
Count(st, S) == Cardinality(InOf(st, S))
One(P) == IF P THEN 1 ELSE 0

\* There are finitely many handles in any states.
LEMMA CountType ==
    ASSUME NEW st, NEW S
    PROVE  /\ IsFiniteSet(InOf(st, S)) /\ Count(st, S) \in Nat
           /\ Count(st, S) = 0 <=> InOf(st, S) = {}
           /\ Count(st, S) = 1 <=> \E h : InOf(st, S) = {h}
<1>1. IsFiniteSet(InOf(st, S))
  <2>1. InOf(st, S) \subseteq Handles
    BY DEF InOf
  <2> QED BY <2>1, FS_Subset, ArcAssumption
<1> QED BY <1>1, FS_CardinalityType, FS_EmptySet, FS_Singleton DEF Count

\* What one handle's move does to a count.
LEMMA CountMove ==
    ASSUME NEW st \in [Handles -> States], NEW S, NEW h \in Handles, NEW s
    PROVE  Count([st EXCEPT ![h] = s], S)
               = Count(st, S) + One(s \in S) - One(st[h] \in S)
<1> DEFINE A == InOf(st, S)
           B == InOf([st EXCEPT ![h] = s], S)
<1>1. IsFiniteSet(A) /\ Cardinality(A) \in Nat
  BY CountType DEF Count
<1>2. h \in A <=> st[h] \in S
  BY DEF InOf
<1>3. CASE s \in S
  <2>1. B = A \cup {h}
    BY <1>3 DEF InOf
  <2> HIDE DEF A, B
  <2>2. Cardinality(B) = IF h \in A THEN Cardinality(A) ELSE Cardinality(A) + 1
    BY <1>1, <2>1, FS_AddElement
  <2> QED BY <1>1, <1>2, <1>3, <2>2 DEF Count, A, B, One
<1>4. CASE s \notin S
  <2>1. B = A \ {h}
    BY <1>4 DEF InOf
  <2> HIDE DEF A, B
  <2>2. Cardinality(B) = IF h \in A THEN Cardinality(A) - 1 ELSE Cardinality(A)
    BY <1>1, <2>1, FS_RemoveElement
  <2> QED BY <1>1, <1>2, <1>4, <2>2 DEF Count, A, B, One
<1> QED BY <1>3, <1>4

\* A handle that is counted makes the count positive, and a count of one
\* means that it is the only one.
LEMMA CountedAmong ==
    ASSUME NEW st, NEW S, NEW h \in Handles, st[h] \in S
    PROVE  /\ Count(st, S) \in Nat /\ Count(st, S) > 0
           /\ Count(st, S) = 1 => \A g \in Handles : st[g] \in S => g = h
<1>1. h \in InOf(st, S)
  BY DEF InOf
<1>2. ASSUME Count(st, S) = 1 PROVE \A g \in Handles : st[g] \in S => g = h
  <2>1. PICK k : InOf(st, S) = {k}
    BY <1>2, CountType
  <2> QED BY <1>1, <2>1 DEF InOf
<1> QED BY <1>1, <1>2, CountType

NStrong == Cardinality(HandlesIn({"strong"}))
NOwners == Cardinality(HandlesIn(WeakOwners))

\* What the counters say about the handles.
LEMMA CountersSay ==
    ASSUME IInv
    PROVE  /\ strong \in Nat /\ weak \in Nat
           /\ \A h \in Handles : Is(h, "strong") => strong > 0
           /\ strong > 0 => \E h \in Handles : Is(h, "strong")
           /\ \A h, g \in Handles : strong = 1 /\ Is(h, "strong") /\ Is(g, "strong") => g = h
           /\ \A h \in Handles : state[h] \in WeakOwners => weak > One(strong > 0)
           /\ \A h, g \in Handles : weak = 1 /\ state[h] \in WeakOwners =>
                  strong = 0 /\ (state[g] \in WeakOwners => g = h)
           /\ memory = "live" <=> \E h \in Handles : ~Is(h, "none")
<1>1. /\ strong = Count(state, {"strong"})
      /\ weak = Count(state, WeakOwners) + One(strong > 0)
  BY DEF IInv, Counted, HandlesIn, Count, InOf, One
<1>2. Count(state, {"strong"}) \in Nat /\ Count(state, WeakOwners) \in Nat
  BY CountType
<1>3. \A h \in Handles : Is(h, "strong") =>
          /\ Count(state, {"strong"}) > 0
          /\ Count(state, {"strong"}) = 1 => \A g \in Handles : Is(g, "strong") => g = h
  BY CountedAmong, "strong" \in {"strong"} DEF Is
<1>4. \A h \in Handles : state[h] \in WeakOwners =>
          /\ Count(state, WeakOwners) > 0
          /\ Count(state, WeakOwners) = 1 => \A g \in Handles : state[g] \in WeakOwners => g = h
  BY CountedAmong
<1>5. strong > 0 => \E h \in Handles : Is(h, "strong")
  <2>1. ASSUME strong > 0 PROVE InOf(state, {"strong"}) # {}
    BY <1>1, <2>1, CountType
  <2> QED BY <2>1 DEF InOf, Is
<1>6. memory = "live" <=> \E h \in Handles : ~Is(h, "none")
  BY DEF IInv, TypeOK, LiveWhileReferenced, HandlesIn, Is
<1> QED BY <1>1, <1>2, <1>3, <1>4, <1>5, <1>6 DEF One

\* How the counts of handles change when one handle moves.
LEMMA OneMoves ==
    ASSUME IInv, NEW h \in Handles, NEW s, Become(h, s)
    PROVE  /\ NStrong' = strong + One(s = "strong") - One(state[h] = "strong")
           /\ NOwners' = weak - One(strong > 0) + One(s \in WeakOwners)
                                                - One(state[h] \in WeakOwners)
<1>1. /\ strong = Count(state, {"strong"})
      /\ weak = Count(state, WeakOwners) + One(strong > 0)
  BY DEF IInv, Counted, HandlesIn, Count, InOf, One
<1>0. state \in [Handles -> States]
  BY DEF IInv, TypeOK
<1>2. NStrong' = Count([state EXCEPT ![h] = s], {"strong"})
  BY DEF NStrong, HandlesIn, Count, InOf, Become
<1>3. NOwners' = Count([state EXCEPT ![h] = s], WeakOwners)
  BY DEF NOwners, HandlesIn, Count, InOf, Become, WeakOwners
<1>4. Count([state EXCEPT ![h] = s], {"strong"})
        = Count(state, {"strong"}) + One(s \in {"strong"}) - One(state[h] \in {"strong"})
  BY <1>0, CountMove
<1>5. Count([state EXCEPT ![h] = s], WeakOwners)
        = Count(state, WeakOwners) + One(s \in WeakOwners) - One(state[h] \in WeakOwners)
  BY <1>0, CountMove
<1>6. Count(state, {"strong"}) \in Nat /\ Count(state, WeakOwners) \in Nat
  BY CountType
<1> QED BY <1>1, <1>2, <1>3, <1>4, <1>5, <1>6 DEF One

\* Counted, in these terms.
LEMMA CountedWhen ==
    ASSUME strong' = NStrong', weak' = NOwners' + One(strong' > 0)
    PROVE  Counted'
  BY DEF Counted, NStrong, NOwners, One, HandlesIn, WeakOwners

\* LiveWhileReferenced, in terms of single handles.
LEMMA LiveWhen ==
    ASSUME TypeOK', memory' = "live" <=> \E h \in Handles : state'[h] # "none"
    PROVE  LiveWhileReferenced'
  BY DEF TypeOK, LiveWhileReferenced, HandlesIn

-----------------------------------------------------------------------------
(* IInv is kept by every step: one lemma per action. *)

LEMMA InitIInv == Init => IInv
<1> SUFFICES ASSUME Init PROVE IInv
  OBVIOUS
<1> USE DEF Init, Is
<1>1. TypeOK
  BY DEF TypeOK, States
<1>2. Counted
  <2>1. HandlesIn({"strong"}) = {} /\ HandlesIn(WeakOwners) = {}
    BY DEF HandlesIn, WeakOwners
  <2> QED BY <2>1, FS_EmptySet DEF Counted
<1>3. LiveWhileReferenced
  BY DEF LiveWhileReferenced, HandlesIn
<1>4. FreedByLast /\ Fresh /\ BuildsAlone /\ Remembered
  BY DEF FreedByLast, Fresh, BuildsAlone, Remembered
<1>5. LeavesLast
  BY DEF LeavesLast, Leaving
<1> QED BY <1>1, <1>2, <1>3, <1>4, <1>5 DEF IInv

LEMMA CreateKeeps ==
    ASSUME IInv, NEW h \in Handles, Create(h) \/ CreateCyclic(h)
    PROVE  IInv'
<1>1. /\ \A k \in Handles : state[k] = "none"
      /\ strong = 0 /\ weak = 0 /\ taken = 0
      /\ memory' = "live" /\ weak' = 1 /\ UNCHANGED <<taken, reg>>
      /\ \/ strong' = 1 /\ Become(h, "strong")
         \/ strong' = 0 /\ Become(h, "building")
  BY DEF Create, CreateCyclic, IInv, Fresh, Is
<1>2. /\ state' \in [Handles -> States] /\ state'[h] \in {"strong", "building"}
      /\ \A k \in Handles : k # h => state'[k] = "none"
      /\ state'[h] = "strong" <=> strong' = 1
  BY <1>1 DEF Become, IInv, TypeOK, States
<1>3. TypeOK'
  BY <1>1, <1>2 DEF IInv, TypeOK
<1>4. Counted'
  BY <1>1, OneMoves, CountedWhen DEF One, WeakOwners
<1>5. LiveWhileReferenced'
  BY <1>1, <1>2, <1>3, LiveWhen
<1>6. FreedByLast' /\ Fresh' /\ BuildsAlone' /\ Remembered'
  BY <1>1, <1>2 DEF FreedByLast, Fresh, BuildsAlone, Remembered, Is
<1>7. LeavesLast'
  BY <1>1, <1>2 DEF LeavesLast, Leaving
<1> QED BY <1>3, <1>4, <1>5, <1>6, <1>7 DEF IInv

LEMMA FinishCyclicKeeps ==
    ASSUME IInv, NEW h \in Handles, FinishCyclic(h)
    PROVE  IInv'
<1>1. /\ state[h] = "building" /\ Become(h, "strong") /\ strong' = strong + 1
      /\ UNCHANGED <<weak, memory, taken, reg>>
      /\ state' \in [Handles -> States] /\ state'[h] = "strong"
      /\ \A k \in Handles : k # h => state'[k] = state[k]
  BY DEF FinishCyclic, Become, Is, IInv, TypeOK, States
<1>2. /\ \A k \in Handles : k # h => state[k] \notin {"building", "strong", "read", "drop", "free"}
      /\ strong = 0 /\ weak \in Nat /\ memory = "live"
  BY <1>1, CountersSay DEF IInv, BuildsAlone, Is
<1>3. TypeOK'
  BY <1>1 DEF IInv, TypeOK
<1>4. Counted'
  BY <1>1, <1>2, OneMoves, CountedWhen DEF One, WeakOwners
<1>5. LiveWhileReferenced'
  BY <1>1, <1>2, <1>3, LiveWhen
<1>6. FreedByLast' /\ Fresh' /\ BuildsAlone'
  BY <1>1, <1>2 DEF FreedByLast, Fresh, BuildsAlone, Is
<1>7. LeavesLast'
  BY <1>1, <1>2 DEF IInv, LeavesLast, Leaving
<1>8. Remembered'
  BY <1>1 DEF IInv, Remembered, Is
<1> QED BY <1>3, <1>4, <1>5, <1>6, <1>7, <1>8 DEF IInv

LEMMA RetainKeeps ==
    ASSUME IInv, NEW h \in Handles, NEW g \in Handles, Retain(h, g)
    PROVE  IInv'
<1>1. /\ state[h] = "strong" /\ state[g] = "none" /\ Become(g, "strong") /\ strong' = strong + 1
      /\ UNCHANGED <<weak, memory, taken, reg>>
      /\ state' \in [Handles -> States] /\ state'[g] = "strong"
      /\ \A k \in Handles : k # g => state'[k] = state[k]
  BY DEF Retain, Become, Is, IInv, TypeOK, States
<1>2. strong \in Nat \ {0} /\ weak \in Nat /\ memory = "live"
  BY <1>1, CountersSay DEF Is
<1>3. TypeOK'
  BY <1>1, <1>2 DEF IInv, TypeOK
<1>4. Counted'
  BY <1>1, <1>2, OneMoves, CountedWhen DEF One, WeakOwners
<1>5. LiveWhileReferenced'
  BY <1>1, <1>2, <1>3, LiveWhen
<1>6. FreedByLast' /\ Fresh' /\ BuildsAlone'
  BY <1>1, <1>2 DEF IInv, FreedByLast, Fresh, BuildsAlone, Is
<1>7. LeavesLast'
  BY <1>1, <1>2 DEF IInv, LeavesLast, Leaving
<1>8. Remembered'
  BY <1>1, <1>2 DEF IInv, Remembered, Is
<1> QED BY <1>3, <1>4, <1>5, <1>6, <1>7, <1>8 DEF IInv

LEMMA NewWeakKeeps ==
    ASSUME IInv, NEW h \in Handles, NEW g \in Handles, NewWeak(h, g)
    PROVE  IInv'
<1>1. /\ state[h] \in {"strong", "weak", "building"} /\ state[g] = "none"
      /\ Become(g, "weak") /\ weak' = weak + 1
      /\ UNCHANGED <<strong, memory, taken, reg>>
      /\ state' \in [Handles -> States] /\ state'[g] = "weak"
      /\ \A k \in Handles : k # g => state'[k] = state[k]
  BY DEF NewWeak, Become, Is, IInv, TypeOK, States
<1>2. strong \in Nat /\ weak \in Nat /\ memory = "live"
  BY <1>1, CountersSay DEF Is
<1>3. TypeOK'
  BY <1>1, <1>2 DEF IInv, TypeOK
<1>4. Counted'
  BY <1>1, <1>2, OneMoves, CountedWhen DEF One, WeakOwners
<1>5. LiveWhileReferenced'
  BY <1>1, <1>2, <1>3, LiveWhen
<1>6. FreedByLast' /\ Fresh' /\ BuildsAlone'
  BY <1>1, <1>2 DEF IInv, FreedByLast, Fresh, BuildsAlone, Is
<1>7. LeavesLast'
  BY <1>1 DEF IInv, LeavesLast, Leaving
<1>8. Remembered'
  BY <1>1 DEF IInv, Remembered, Is
<1> QED BY <1>3, <1>4, <1>5, <1>6, <1>7, <1>8 DEF IInv

LEMMA ReleaseKeeps ==
    ASSUME IInv, NEW h \in Handles, NEW onLast \in Leaving, ReleaseStrong(h, onLast)
    PROVE  IInv'
<1> DEFINE s == IF strong = 1 THEN onLast ELSE "none"
<1>1. /\ state[h] = "strong" /\ strong' = strong - 1 /\ Become(h, s)
      /\ UNCHANGED <<weak, memory, taken, reg>>
      /\ state' \in [Handles -> States] /\ state'[h] = s
      /\ \A k \in Handles : k # h => state'[k] = state[k]
  BY DEF ReleaseStrong, Become, Is, IInv, TypeOK, States, Leaving
<1>2. strong \in Nat \ {0} /\ weak \in Nat /\ memory = "live"
  BY <1>1, CountersSay DEF Is
<1>3. /\ \A k \in Handles : state[k] \notin Leaving
      /\ \A k \in Handles : state[k] \notin {"building", "free"}
      /\ taken = 0
  BY <1>1, <1>2 DEF IInv, LeavesLast, BuildsAlone, FreedByLast, Is
<1>4. TypeOK'
  BY <1>1, <1>2 DEF IInv, TypeOK
<1>5. Counted'
  BY <1>1, <1>2, OneMoves, CountedWhen DEF One, WeakOwners, Leaving
<1>6. LiveWhileReferenced'
  <2>1. CASE strong = 1
    BY <1>1, <1>2, <1>4, <2>1, LiveWhen DEF Leaving
  <2>2. CASE strong # 1
    <3>1. PICK k \in Handles : Is(k, "strong")'
      <4>1. strong' > 0 /\ strong' = NStrong'
        BY <1>1, <1>2, <2>2, OneMoves DEF One
      <4>2. InOf(state', {"strong"}) # {}
        <5>1. NStrong' = Count(state', {"strong"})
          BY DEF NStrong, HandlesIn, Count, InOf
        <5> QED BY <1>2, <4>1, <5>1, CountType
      <4> QED BY <4>2 DEF InOf, Is
    <3> QED BY <1>1, <1>2, <1>4, <3>1, LiveWhen DEF Is
  <2> QED BY <2>1, <2>2
<1>7. FreedByLast' /\ Fresh' /\ BuildsAlone'
  BY <1>1, <1>2, <1>3 DEF IInv, FreedByLast, Fresh, BuildsAlone, Is, Leaving
<1>8. LeavesLast'
  BY <1>1, <1>2, <1>3 DEF IInv, LeavesLast, Leaving
<1>9. Remembered'
  BY <1>1, <1>2, <1>3 DEF IInv, Remembered, Is, Leaving
<1> QED BY <1>4, <1>5, <1>6, <1>7, <1>8, <1>9 DEF IInv

LEMMA ReadValueKeeps ==
    ASSUME IInv, NEW h \in Handles, ReadValue(h)
    PROVE  IInv'
<1>1. /\ state[h] = "read" /\ taken' = taken + 1 /\ Become(h, "drop")
      /\ UNCHANGED <<strong, weak, memory, reg>>
      /\ state' \in [Handles -> States] /\ state'[h] = "drop"
      /\ \A k \in Handles : k # h => state'[k] = state[k]
  BY DEF ReadValue, Become, Is, IInv, TypeOK, States
<1>2. strong = 0 /\ taken = 0 /\ weak \in Nat /\ memory = "live"
  BY <1>1, CountersSay DEF IInv, LeavesLast, Leaving, Is
<1>3. \A k \in Handles : state[k] \notin {"building", "strong"} /\ (k # h => state[k] # "read")
  BY <1>1, <1>2, CountersSay DEF IInv, BuildsAlone, LeavesLast, Leaving, Is
<1>4. TypeOK'
  BY <1>1, <1>2 DEF IInv, TypeOK
<1>5. Counted'
  BY <1>1, <1>2, OneMoves, CountedWhen DEF One, WeakOwners
<1>6. LiveWhileReferenced'
  BY <1>1, <1>2, <1>4, LiveWhen
<1>7. FreedByLast' /\ Fresh' /\ BuildsAlone'
  BY <1>1, <1>2, <1>3 DEF IInv, FreedByLast, Fresh, BuildsAlone, Is
<1>8. LeavesLast'
  BY <1>1, <1>2, <1>3 DEF IInv, LeavesLast, Leaving
<1>9. Remembered'
  BY <1>1, <1>3 DEF IInv, Remembered, Is
<1> QED BY <1>4, <1>5, <1>6, <1>7, <1>8, <1>9 DEF IInv

\* Giving up a weak count: the last one to do so is alone.
LEMMA DropWeakKeeps ==
    ASSUME IInv, NEW h \in Handles, DropWeak(h)
    PROVE  IInv'
<1> DEFINE s == IF weak = 1 THEN "free" ELSE "none"
<1>1. /\ state[h] \in {"drop", "fail", "weak"} /\ weak' = weak - 1 /\ Become(h, s)
      /\ UNCHANGED <<strong, memory, taken, reg>>
      /\ state' \in [Handles -> States] /\ state'[h] = s
      /\ \A k \in Handles : k # h => state'[k] = state[k]
  BY DEF DropWeak, Become, Is, IInv, TypeOK, States
<1>2. strong \in Nat /\ weak \in Nat \ {0} /\ memory = "live" /\ state[h] \in WeakOwners
  BY <1>1, CountersSay DEF Is, One, WeakOwners
<1>3. TypeOK'
  BY <1>1, <1>2 DEF IInv, TypeOK
<1>4. Counted'
  BY <1>1, <1>2, OneMoves, CountedWhen DEF One, WeakOwners
<1>5. CASE weak = 1
  <2>1. \A k \in Handles : k # h => state[k] = "none"
    <3>1. \A k \in Handles : k # h => state[k] \notin WeakOwners \cup {"strong"}
      BY <1>2, <1>5, CountersSay DEF Is
    <3>2. \A k \in Handles : state[k] # "free"
      BY <1>1 DEF IInv, FreedByLast, Is
    <3> QED BY <3>1, <3>2 DEF IInv, TypeOK, States, WeakOwners
  <2>2. LiveWhileReferenced'
    BY <1>1, <1>2, <1>3, <1>5, LiveWhen
  <2>3. FreedByLast' /\ Fresh' /\ BuildsAlone' /\ Remembered'
    BY <1>1, <1>2, <1>5, <2>1 DEF FreedByLast, Fresh, BuildsAlone, Remembered, Is
  <2>4. LeavesLast'
    BY <1>1, <1>5, <2>1 DEF IInv, LeavesLast, Leaving
  <2> QED BY <1>3, <1>4, <2>2, <2>3, <2>4 DEF IInv
<1>6. CASE weak # 1
  <2>1. LiveWhileReferenced'
    <3>1. PICK k \in Handles : state'[k] # "none"
      <4>1. /\ NOwners' = weak' - One(strong > 0) /\ NStrong' = strong
        BY <1>1, <1>2, <1>6, OneMoves DEF One, WeakOwners
      <4>2. Count(state', WeakOwners) > 0 \/ Count(state', {"strong"}) > 0
        <5>1. NStrong' = Count(state', {"strong"}) /\ NOwners' = Count(state', WeakOwners)
          BY DEF NStrong, NOwners, HandlesIn, Count, InOf, WeakOwners
        <5> QED BY <1>1, <1>2, <1>6, <4>1, <5>1 DEF One
      <4>3. InOf(state', WeakOwners) # {} \/ InOf(state', {"strong"}) # {}
        <5>1. Count(state', WeakOwners) > 0 => InOf(state', WeakOwners) # {}
          BY CountType
        <5>2. Count(state', {"strong"}) > 0 => InOf(state', {"strong"}) # {}
          BY CountType
        <5> QED BY <4>2, <5>1, <5>2
      <4> QED BY <4>3 DEF InOf, WeakOwners
    <3> QED BY <1>1, <1>2, <1>3, <3>1, LiveWhen
  <2>2. FreedByLast' /\ Fresh' /\ BuildsAlone'
    BY <1>1, <1>2, <1>6 DEF IInv, FreedByLast, Fresh, BuildsAlone, Is
  <2>3. LeavesLast'
    BY <1>1, <1>6 DEF IInv, LeavesLast, Leaving
  <2>4. Remembered'
    BY <1>1, <1>6 DEF IInv, Remembered, Is
  <2> QED BY <1>3, <1>4, <2>1, <2>2, <2>3, <2>4 DEF IInv
<1> QED BY <1>5, <1>6

LEMMA DestroyKeeps ==
    ASSUME IInv, NEW h \in Handles, Destroy(h)
    PROVE  IInv'
<1>1. /\ state[h] = "free" /\ memory' = "freed" /\ Become(h, "none")
      /\ UNCHANGED <<strong, weak, taken, reg>>
      /\ state' \in [Handles -> States] /\ \A k \in Handles : state'[k] = "none"
  BY DEF Destroy, Become, Is, IInv, TypeOK, States, FreedByLast
<1>2. TypeOK'
  BY <1>1 DEF IInv, TypeOK
<1>3. Counted'
  BY <1>1, OneMoves, CountedWhen, CountersSay DEF One, WeakOwners
<1>4. LiveWhileReferenced'
  BY <1>1, <1>2, LiveWhen
<1>5. FreedByLast' /\ Fresh' /\ BuildsAlone' /\ Remembered'
  BY <1>1 DEF FreedByLast, Fresh, BuildsAlone, Remembered, Is
<1>6. LeavesLast'
  BY <1>1 DEF IInv, LeavesLast, Leaving
<1> QED BY <1>2, <1>3, <1>4, <1>5, <1>6 DEF IInv

\* upgrade and weakCount move a weak handle between states that own a count.
LEMMA WeakMovesKeep ==
    ASSUME IInv, NEW h \in Handles,
           UpgradeLoad(h) \/ UpgradeRetry(h) \/ CountLoad(h) \/ CountReturn(h)
    PROVE  IInv'
<1>1. PICK s \in {"load", "cas", "fail", "weak", "count"} :
         /\ state[h] \in {"weak", "load", "cas", "count"} /\ Become(h, s)
         /\ UNCHANGED <<strong, weak, memory, taken>>
         /\ state' \in [Handles -> States] /\ state'[h] = s
         /\ \A k \in Handles : k # h => state'[k] = state[k]
         /\ reg' \in [Handles -> Nat] /\ \A k \in Handles : k # h => reg'[k] = reg[k]
  <2>1. CASE UpgradeLoad(h)
    BY <2>1 DEF UpgradeLoad, Become, Is, IInv, TypeOK, States
  <2>2. CASE UpgradeRetry(h)
    BY <2>2 DEF UpgradeRetry, Become, Is, IInv, TypeOK, States
  <2>3. CASE CountLoad(h)
    BY <2>3 DEF CountLoad, Become, Is, IInv, TypeOK, States
  <2>4. CASE CountReturn(h)
    BY <2>4 DEF CountReturn, Become, Is, IInv, TypeOK, States
  <2> QED BY <2>1, <2>2, <2>3, <2>4
<1>2. strong \in Nat /\ weak \in Nat /\ memory = "live" /\ weak > One(strong > 0)
  BY <1>1, CountersSay DEF Is, WeakOwners
<1>3. TypeOK'
  BY <1>1 DEF IInv, TypeOK
<1>4. Counted'
  BY <1>1, <1>2, OneMoves, CountedWhen DEF One, WeakOwners
<1>5. LiveWhileReferenced'
  BY <1>1, <1>2, <1>3, LiveWhen
<1>6. FreedByLast' /\ Fresh' /\ BuildsAlone'
  BY <1>1, <1>2 DEF IInv, FreedByLast, Fresh, BuildsAlone, Is
<1>7. LeavesLast'
  BY <1>1 DEF IInv, LeavesLast, Leaving
<1>8. Remembered'
  <2>1. state'[h] = "cas" => reg'[h] > 0
    BY <1>1, <1>2 DEF UpgradeLoad, UpgradeRetry, CountLoad, CountReturn, Become, Is, IInv, TypeOK
  <2>2. ASSUME state'[h] = "count"
        PROVE  /\ reg'[h] = weak
               /\ \A g \in Handles : Is(g, "building") => weak >= 2
    <3>1. CountLoad(h)
      BY <1>1, <2>2 DEF UpgradeLoad, UpgradeRetry, CountReturn, Become, Is, IInv, TypeOK
    <3>2. reg'[h] = weak /\ state[h] = "weak"
      BY <3>1 DEF CountLoad, Is, IInv, TypeOK
    <3>3. ASSUME NEW g \in Handles, Is(g, "building") PROVE weak # 1
      BY <3>2, <3>3, CountersSay DEF Is, WeakOwners
    <3> QED BY <1>2, <3>2, <3>3 DEF One
  <2>3. \A g \in Handles : Is(g, "building")' <=> Is(g, "building")
    BY <1>1 DEF Is
  <2>4. ASSUME NEW k \in Handles, state'[k] = "count"
        PROVE  /\ reg'[k] >= 1
               /\ strong > 0 \/ (\E g \in Handles : Is(g, "building")) => reg'[k] >= 2
    <3>1. CASE k = h
      BY <1>2, <2>2, <2>4, <3>1 DEF One
    <3>2. CASE k # h
      BY <1>1, <2>4, <3>2 DEF IInv, Remembered, Is
    <3> QED BY <3>1, <3>2
  <2> QED BY <1>1, <2>1, <2>3, <2>4 DEF IInv, Remembered, Is
<1> QED BY <1>3, <1>4, <1>5, <1>6, <1>7, <1>8 DEF IInv

LEMMA UpgradeCasKeeps ==
    ASSUME IInv, NEW h \in Handles, NEW g \in Handles, UpgradeCas(h, g)
    PROVE  IInv'
<1>1. /\ state[h] = "cas" /\ state[g] = "none" /\ strong = reg[h] /\ strong' = strong + 1
      /\ UNCHANGED <<weak, memory, taken>>
      /\ state' = [state EXCEPT ![h] = "weak", ![g] = "strong"]
      /\ reg' = [reg EXCEPT ![h] = 0]
  BY DEF UpgradeCas, Is
<1>2. strong \in Nat \ {0} /\ weak \in Nat /\ memory = "live"
  BY <1>1, CountersSay DEF IInv, Remembered, Is
<1>3. /\ state \in [Handles -> States] /\ state' \in [Handles -> States]
      /\ state'[h] = "weak" /\ state'[g] = "strong"
      /\ \A k \in Handles : k # h /\ k # g => state'[k] = state[k]
      /\ \A k \in Handles : k # h => reg'[k] = reg[k]
  BY <1>1 DEF IInv, TypeOK, States
<1>4. TypeOK'
  BY <1>1, <1>2, <1>3 DEF IInv, TypeOK
<1>5. Counted'
  <2> DEFINE mid == [state EXCEPT ![h] = "weak"]
  <2>1. mid \in [Handles -> States] /\ mid[g] = "none" /\ state' = [mid EXCEPT ![g] = "strong"]
    BY <1>1, <1>3 DEF States
  <2>2. \A S : Count(mid, S) = Count(state, S) + One("weak" \in S) - One(state[h] \in S)
    BY <1>3, CountMove
  <2>3. \A S : Count(state', S) = Count(mid, S) + One("strong" \in S) - One(mid[g] \in S)
    <3> HIDE DEF mid
    <3>1. \A S : Count([mid EXCEPT ![g] = "strong"], S)
                   = Count(mid, S) + One("strong" \in S) - One(mid[g] \in S)
      BY <2>1, CountMove
    <3> QED BY <2>1, <3>1
  <2>4. /\ strong = Count(state, {"strong"})
        /\ weak = Count(state, WeakOwners) + One(strong > 0)
    BY DEF IInv, Counted, HandlesIn, Count, InOf, One
  <2>5. NStrong' = Count(state', {"strong"}) /\ NOwners' = Count(state', WeakOwners)
    BY DEF NStrong, NOwners, HandlesIn, Count, InOf, WeakOwners
  <2>6. Count(state, {"strong"}) \in Nat /\ Count(state, WeakOwners) \in Nat
    BY CountType
  <2> HIDE DEF mid
  <2>7. Count(state', {"strong"}) = strong + 1
    <3>1. /\ Count(mid, {"strong"})
               = Count(state, {"strong"}) + One("weak" \in {"strong"}) - One(state[h] \in {"strong"})
          /\ Count(state', {"strong"})
               = Count(mid, {"strong"}) + One("strong" \in {"strong"}) - One(mid[g] \in {"strong"})
      BY <2>2, <2>3
    <3> QED BY <1>1, <2>1, <2>4, <2>6, <3>1 DEF One
  <2>8. Count(state', WeakOwners) = Count(state, WeakOwners)
    <3>1. /\ Count(mid, WeakOwners)
               = Count(state, WeakOwners) + One("weak" \in WeakOwners) - One(state[h] \in WeakOwners)
          /\ Count(state', WeakOwners)
               = Count(mid, WeakOwners) + One("strong" \in WeakOwners) - One(mid[g] \in WeakOwners)
      BY <2>2, <2>3
    <3>2. /\ "weak" \in WeakOwners /\ state[h] \in WeakOwners
          /\ "strong" \notin WeakOwners /\ mid[g] \notin WeakOwners
      BY <1>1, <2>1 DEF WeakOwners
    <3> QED BY <2>6, <3>1, <3>2 DEF One
  <2> QED BY <1>1, <1>2, <2>4, <2>5, <2>7, <2>8, CountedWhen DEF One
<1>6. LiveWhileReferenced'
  BY <1>1, <1>2, <1>3, <1>4, LiveWhen
<1>7. FreedByLast' /\ Fresh' /\ BuildsAlone'
  <2>1. \A k \in Handles : ~Is(k, "building")
    BY <1>2, CountersSay DEF IInv, BuildsAlone, Is
  <2>2. \A k \in Handles : ~Is(k, "free")
    BY <1>1 DEF IInv, FreedByLast, Is
  <2> QED BY <1>1, <1>2, <1>3, <2>1, <2>2 DEF FreedByLast, Fresh, BuildsAlone, Is
<1>8. LeavesLast'
  <2>1. \E k \in Handles : Is(k, "strong")
    BY <1>2, CountersSay
  <2> QED BY <1>1, <1>2, <1>3, <2>1 DEF IInv, LeavesLast, Leaving, Is
<1>9. Remembered'
  BY <1>1, <1>2, <1>3 DEF IInv, Remembered, Is
<1> QED BY <1>4, <1>5, <1>6, <1>7, <1>8, <1>9 DEF IInv

-----------------------------------------------------------------------------
(* Theorems *)

(* In every interleaving of any finite number of handles the counters      *)
(* count, the memory outlives every access, and the value has one owner.   *)
THEOREM Invariance == Spec => []IInv
<1>1. Init => IInv
  BY InitIInv
<1>2. IInv /\ [Next]_vars => IInv'
  <2> SUFFICES ASSUME IInv, [Next]_vars PROVE IInv'
    OBVIOUS
  <2>1. ASSUME NEW h \in Handles, Step(h) PROVE IInv'
    <3>1. CASE Create(h) \/ CreateCyclic(h) \/ FinishCyclic(h)
      BY <3>1, CreateKeeps, FinishCyclicKeeps
    <3>2. CASE Release(h) \/ ReleaseUnwrap(h) \/ TryUnwrap(h)
      <4>1. PICK onLast \in Leaving : ReleaseStrong(h, onLast)
        BY <3>2 DEF Release, ReleaseUnwrap, TryUnwrap, Leaving
      <4> QED BY <4>1, ReleaseKeeps
    <3>3. CASE ReadValue(h) \/ DropWeak(h) \/ Destroy(h)
      BY <3>3, ReadValueKeeps, DropWeakKeeps, DestroyKeeps
    <3>4. CASE UpgradeLoad(h) \/ UpgradeRetry(h) \/ CountLoad(h) \/ CountReturn(h)
      BY <3>4, WeakMovesKeep
    <3>5. CASE \E g \in Handles : Retain(h, g) \/ NewWeak(h, g) \/ UpgradeCas(h, g)
      BY <3>5, RetainKeeps, NewWeakKeeps, UpgradeCasKeeps
    <3> QED BY <2>1, <3>1, <3>2, <3>3, <3>4, <3>5 DEF Step
  <2>2. CASE UNCHANGED vars
    BY <2>2 DEF vars, IInv, TypeOK, Counted, LiveWhileReferenced, FreedByLast, Fresh, LeavesLast,
       BuildsAlone, Remembered, HandlesIn, Is
  <2> QED BY <2>1, <2>2 DEF Next
<1> QED BY <1>1, <1>2, PTL DEF Spec

(* Counters, handles and memory stay in their types; no counter wraps      *)
(* below zero.                                                             *)
THEOREM TypeCorrect == Spec => []TypeOK
<1>1. IInv => TypeOK
  BY DEF IInv
<1> QED BY <1>1, Invariance, PTL

(* The counters equal the numbers of references between any two accesses.  *)
THEOREM CountersCount == Spec => []Counted
<1>1. IInv => Counted
  BY DEF IInv
<1> QED BY <1>1, Invariance, PTL

(* No use after free and no leak: the memory is live exactly as long as    *)
(* somebody has a reference or an access ahead.                            *)
THEOREM NoUseAfterFree == Spec => []LiveWhileReferenced
<1>1. IInv => LiveWhileReferenced
  BY DEF IInv
<1> QED BY <1>1, Invariance, PTL

(* The thread that deallocates is the last one to touch the memory.        *)
THEOREM LastOneFrees == Spec => []FreedByLast
<1>1. IInv => FreedByLast
  BY DEF IInv
<1> QED BY <1>1, Invariance, PTL

(* The value, the arena of a message in the bot, is handed out at most     *)
(* once, however the releases of its owners interleave.                    *)
THEOREM ValueTakenOnce == Spec => []TakenOnce
<1>1. IInv => TakenOnce
  <2> SUFFICES ASSUME IInv PROVE TakenOnce
    OBVIOUS
  <2>1. Cardinality(HandlesIn({"read"})) = Count(state, {"read"})
    BY DEF HandlesIn, Count, InOf
  <2>2. CASE \E h \in Handles : state[h] = "read"
    <3>1. PICK h \in Handles : state[h] = "read"
      BY <2>2
    <3>2. taken = 0 /\ \A g \in Handles : state[g] = "read" => g = h
      BY <3>1 DEF IInv, LeavesLast, Leaving
    <3>3. InOf(state, {"read"}) = {h}
      BY <3>1, <3>2 DEF InOf
    <3>4. Count(state, {"read"}) = 1
      BY <3>3, FS_Singleton DEF Count
    <3> QED BY <2>1, <3>2, <3>4 DEF TakenOnce
  <2>3. CASE ~\E h \in Handles : state[h] = "read"
    <3>1. InOf(state, {"read"}) = {}
      BY <2>3 DEF InOf
    <3>2. Count(state, {"read"}) = 0
      BY <3>1, FS_EmptySet DEF Count
    <3> QED BY <2>1, <3>2 DEF TakenOnce, IInv, LeavesLast
  <2> QED BY <2>2, <2>3
<1> QED BY <1>1, Invariance, PTL

(* Weak.weakCount, which loads the two counters at different times, never  *)
(* wraps around.                                                           *)
THEOREM WeakCountNeverWraps == Spec => []WeakCountPositive
<1>1. IInv => WeakCountPositive
  BY DEF IInv, TypeOK, Remembered, WeakCountPositive, Is
<1> QED BY <1>1, Invariance, PTL

(* The assertion that ends initCyclic holds: no copy of the weak pointer   *)
(* is upgraded before the value exists.                                    *)
THEOREM CyclicAssertHolds == Spec => []CyclicAssert
<1>1. IInv => CyclicAssert
  BY CountersSay DEF IInv, BuildsAlone, CyclicAssert, HandlesIn, Is
<1> QED BY <1>1, Invariance, PTL

(* A dropped value never comes back, whatever upgrades race with the last  *)
(* release.                                                                *)
THEOREM DroppedForGood == Spec => NoResurrection
<1>1. IInv /\ [Next]_vars => [Dropped => strong' = 0]_vars
  <2> SUFFICES ASSUME IInv, Dropped, NEW h \in Handles, Step(h) PROVE strong' = 0
    BY DEF Next
  <2>1. strong = 0 /\ memory # "none" /\ \A k \in Handles : ~Is(k, "building")
    BY DEF Dropped, HandlesIn, Is
  <2>2. \A k \in Handles : ~Is(k, "strong") /\ (Is(k, "cas") => reg[k] # strong)
    BY <2>1, CountersSay DEF IInv, Remembered
  <2> QED BY <2>1, <2>2 DEF Step, Create, CreateCyclic, FinishCyclic, Retain, NewWeak, Release,
         ReleaseUnwrap, TryUnwrap, ReleaseStrong, ReadValue, DropWeak, Destroy, UpgradeLoad,
         UpgradeCas, UpgradeRetry, CountLoad, CountReturn
<1> QED BY <1>1, Invariance, PTL DEF Spec, NoResurrection

-----------------------------------------------------------------------------
(* Arc implements Rc, for every finite number of handles: threads that     *)
(* share a reference-counted value see what a single thread sees with the  *)
(* plain counters.  An operation takes effect when it changes the strong   *)
(* counter (through a weak handle, the weak one) or finds no strong        *)
(* reference left; its other accesses change nothing that anybody sees.    *)

\* What Rc sees of the state.
Seen == [h \in Handles |-> Outside[state[h]]]
SeenWeak == Cardinality(Holders) + (IF strong > 0 THEN 1 ELSE 0)
SeenMemory == IF memory = "none" THEN "none"
              ELSE IF strong > 0 \/ Holders # {} THEN "live" ELSE "freed"
SeenTaken == taken + Cardinality(HandlesIn({"read"}))

HolderStates == {"weak", "load", "cas", "count", "building"}

\* The states of a handle, seen from outside.
LEMMA OutsideIs ==
    \A s \in States :
        /\ Outside[s] = "none" <=> s \in {"none", "fail", "read", "drop", "free"}
        /\ Outside[s] = "building" <=> s = "building"
        /\ Outside[s] = "strong" <=> s = "strong"
        /\ Outside[s] = "weak" <=> s \in {"weak", "load", "cas", "count"}
  BY DEF States, Outside

\* Which counts there are to see, and that the memory is seen to live as
\* long as the weak counter is seen above 0.
LEMMA SeenIs ==
    IInv => /\ Cardinality(Holders) \in Nat /\ Cardinality(HandlesIn({"read"})) \in Nat
            /\ strong \in Nat /\ taken \in Nat
            /\ SeenWeak = Cardinality(Holders) + One(strong > 0)
            /\ memory # "none" => SeenMemory = IF SeenWeak > 0 THEN "live" ELSE "freed"
<1> SUFFICES ASSUME IInv
             PROVE  /\ Cardinality(Holders) \in Nat /\ Cardinality(HandlesIn({"read"})) \in Nat
                    /\ strong \in Nat /\ taken \in Nat
                    /\ SeenWeak = Cardinality(Holders) + One(strong > 0)
                    /\ memory # "none" => SeenMemory = IF SeenWeak > 0 THEN "live" ELSE "freed"
  OBVIOUS
<1>1. Holders = InOf(state, HolderStates) /\ HandlesIn({"read"}) = InOf(state, {"read"})
  BY DEF Holders, HandlesIn, InOf, HolderStates
<1>2. /\ Cardinality(Holders) \in Nat /\ Cardinality(HandlesIn({"read"})) \in Nat
      /\ Cardinality(Holders) = 0 <=> Holders = {}
  BY <1>1, CountType DEF Count
<1>3. strong \in Nat /\ taken \in Nat
  BY DEF IInv, TypeOK
<1> QED BY <1>2, <1>3 DEF SeenWeak, SeenMemory, One

LEMMA SeenIsNext ==
    IInv' => /\ SeenWeak' = Cardinality(Holders)' + One(strong' > 0)
             /\ memory' # "none" => SeenMemory' = IF SeenWeak' > 0 THEN "live" ELSE "freed"
<1>1. IInv => /\ SeenWeak = Cardinality(Holders) + One(strong > 0)
              /\ memory # "none" => SeenMemory = IF SeenWeak > 0 THEN "live" ELSE "freed"
  BY SeenIs
<1>2. (IInv => /\ SeenWeak = Cardinality(Holders) + One(strong > 0)
               /\ memory # "none" => SeenMemory = IF SeenWeak > 0 THEN "live" ELSE "freed")'
  BY <1>1, PTL
<1> QED BY <1>2 DEF One

\* A handle in use means that there is memory, one that holds a weak count
\* that it is counted.
LEMMA InUse ==
    ASSUME IInv, NEW h \in Handles, ~Is(h, "none")
    PROVE  memory = "live" /\ (state[h] \in HolderStates => Cardinality(Holders) > 0)
<1>1. memory = "live"
  BY CountersSay
<1>2. Holders = InOf(state, HolderStates)
  BY DEF Holders, HandlesIn, InOf, HolderStates
<1> QED BY <1>1, <1>2, CountedAmong DEF Count

\* How the move of one handle is seen.
LEMMA MoveSeen ==
    ASSUME IInv, NEW h \in Handles, NEW s \in States, Become(h, s)
    PROVE  /\ Seen' = [Seen EXCEPT ![h] = Outside[s]]
           /\ Cardinality(Holders)' = Cardinality(Holders) + One(s \in HolderStates)
                                                           - One(state[h] \in HolderStates)
           /\ Cardinality(HandlesIn({"read"}))'
                  = Cardinality(HandlesIn({"read"})) + One(s = "read") - One(Is(h, "read"))
<1>1. state \in [Handles -> States] /\ state' = [state EXCEPT ![h] = s]
  BY DEF IInv, TypeOK, Become
<1>2. Seen' = [Seen EXCEPT ![h] = Outside[s]]
  BY <1>1 DEF Seen
<1>3. \A S : Count(state', S) = Count(state, S) + One(s \in S) - One(state[h] \in S)
  BY <1>1, CountMove
<1>4. /\ Cardinality(Holders) = Count(state, HolderStates)
      /\ Cardinality(Holders)' = Count(state', HolderStates)
      /\ Cardinality(HandlesIn({"read"})) = Count(state, {"read"})
      /\ Cardinality(HandlesIn({"read"}))' = Count(state', {"read"})
  BY DEF Holders, HandlesIn, Count, InOf, HolderStates
<1>5. /\ Count(state', HolderStates)
           = Count(state, HolderStates) + One(s \in HolderStates) - One(state[h] \in HolderStates)
      /\ Count(state', {"read"})
           = Count(state, {"read"}) + One(s \in {"read"}) - One(state[h] \in {"read"})
  BY <1>3
<1> QED BY <1>2, <1>4, <1>5 DEF One, Is

\* A step within an operation, or between two states that look the same.
LEMMA Unseen ==
    ASSUME IInv, IInv', NEW h \in Handles, NEW s \in States, Become(h, s),
           Outside[s] = Outside[state[h]],
           s \in HolderStates <=> state[h] \in HolderStates,
           UNCHANGED strong, memory = "live", memory' # "none",
           taken' = taken + One(Is(h, "read")) - One(s = "read")
    PROVE  UNCHANGED Sequential!vars
<1>1. /\ strong \in Nat /\ taken \in Nat
      /\ Cardinality(Holders) \in Nat /\ Cardinality(HandlesIn({"read"})) \in Nat
  BY SeenIs
<1>2. UNCHANGED Seen
  <2>1. Seen' = [Seen EXCEPT ![h] = Outside[s]]
    BY MoveSeen
  <2>2. Seen[h] = Outside[s]
    BY DEF Seen
  <2>3. DOMAIN Seen = Handles /\ Seen = [k \in DOMAIN Seen |-> Seen[k]]
    BY DEF Seen
  <2> QED BY <2>1, <2>2, <2>3
<1>3. UNCHANGED SeenWeak
  <2>1. Cardinality(Holders)' = Cardinality(Holders)
    BY <1>1, MoveSeen DEF One
  <2> QED BY <2>1 DEF SeenWeak
<1>4. UNCHANGED SeenMemory
  BY <1>3, SeenIs, SeenIsNext
<1>5. UNCHANGED SeenTaken
  BY <1>1, MoveSeen DEF SeenTaken, One
<1> QED BY <1>2, <1>3, <1>4, <1>5
        DEF Sequential!vars, Seen, SeenWeak, SeenMemory, SeenTaken

-----------------------------------------------------------------------------
(* Each action: a step of Rc, or none that anybody sees. *)

LEMMA InitImplements == Init => Sequential!Init
<1> SUFFICES ASSUME Init PROVE Sequential!Init
  OBVIOUS
<1>1. Holders = {} /\ HandlesIn({"read"}) = {}
  BY DEF Init, Holders, HandlesIn
<1>2. [h \in Handles |-> Outside[state[h]]] = [h \in Handles |-> "none"]
  BY DEF Init, Outside
<1> QED BY <1>1, <1>2, FS_EmptySet DEF Init, Sequential!Init

LEMMA CreateImplements ==
    ASSUME IInv, IInv', NEW h \in Handles, Create(h) \/ CreateCyclic(h)
    PROVE  Sequential!Create(h) \/ Sequential!CreateCyclic(h)
<1>1. /\ \A k \in Handles : state[k] = "none"
      /\ strong = 0 /\ UNCHANGED taken /\ memory = "none" /\ memory' = "live"
      /\ \/ Create(h) /\ strong' = 1 /\ Become(h, "strong")
         \/ CreateCyclic(h) /\ strong' = 0 /\ Become(h, "building")
  BY DEF Create, CreateCyclic, IInv, Fresh, Is
<1>2. Cardinality(Holders) = 0 /\ Cardinality(HandlesIn({"read"})) = 0
  <2>1. Holders = {} /\ HandlesIn({"read"}) = {}
    BY <1>1 DEF Holders, HandlesIn
  <2> QED BY <2>1, FS_EmptySet
<1>3. SeenMemory = "none"
  BY <1>1 DEF SeenMemory
<1>4. taken \in Nat
  BY SeenIs
<1>5. CASE Create(h) /\ strong' = 1 /\ Become(h, "strong")
  <2>1. Seen' = [Seen EXCEPT ![h] = "strong"] /\ Cardinality(Holders)' = 0
    BY <1>1, <1>2, <1>5, MoveSeen DEF States, Outside, One, HolderStates
  <2>2. UNCHANGED SeenTaken
    BY <1>1, <1>2, <1>4, <1>5, MoveSeen DEF States, One, SeenTaken, Is
  <2>3. SeenWeak' = 1 /\ SeenMemory' = "live"
    BY <1>1, <1>5, <2>1, SeenIsNext DEF One
  <2> QED BY <1>3, <1>5, <2>1, <2>2, <2>3
          DEF Sequential!Create, Sequential!Become, Seen, SeenWeak, SeenMemory, SeenTaken
<1>6. CASE CreateCyclic(h) /\ strong' = 0 /\ Become(h, "building")
  <2>1. Seen' = [Seen EXCEPT ![h] = "building"] /\ Cardinality(Holders)' = 1
    BY <1>1, <1>2, <1>6, MoveSeen DEF States, Outside, One, HolderStates
  <2>2. UNCHANGED SeenTaken
    BY <1>1, <1>2, <1>4, <1>6, MoveSeen DEF States, One, SeenTaken, Is
  <2>3. SeenWeak' = 1 /\ SeenMemory' = "live"
    BY <1>1, <1>6, <2>1, SeenIsNext DEF One
  <2> QED BY <1>3, <1>6, <2>1, <2>2, <2>3
          DEF Sequential!CreateCyclic, Sequential!Become, Seen, SeenWeak, SeenMemory, SeenTaken
<1> QED BY <1>1, <1>5, <1>6

LEMMA FinishCyclicImplements ==
    ASSUME IInv, IInv', NEW h \in Handles, FinishCyclic(h)
    PROVE  Sequential!FinishCyclic(h)
<1>1. /\ state[h] = "building" /\ Become(h, "strong") /\ strong' = strong + 1
      /\ UNCHANGED memory /\ UNCHANGED taken /\ memory = "live"
      /\ Cardinality(Holders) > 0
  BY InUse DEF FinishCyclic, Is, HolderStates
<1>2. /\ strong = 0 /\ taken \in Nat
      /\ Cardinality(Holders) \in Nat /\ Cardinality(HandlesIn({"read"})) \in Nat
  BY <1>1, SeenIs, CountersSay DEF IInv, BuildsAlone, Is
<1>0. Seen[h] = "building"
  BY <1>1 DEF Seen, Outside
<1>3. /\ Seen' = [Seen EXCEPT ![h] = "strong"]
      /\ Cardinality(Holders)' = Cardinality(Holders) - 1
  BY <1>1, <1>2, MoveSeen DEF States, Outside, One, HolderStates
<1>4. UNCHANGED SeenTaken
  BY <1>1, <1>2, MoveSeen DEF States, One, SeenTaken, Is
<1>5. UNCHANGED SeenWeak /\ UNCHANGED SeenMemory
  BY <1>1, <1>2, <1>3, SeenIs, SeenIsNext DEF One
<1> QED BY <1>0, <1>1, <1>3, <1>4, <1>5
        DEF Sequential!FinishCyclic, Sequential!Become, Sequential!Is,
            Seen, SeenWeak, SeenMemory, SeenTaken

LEMMA RetainImplements ==
    ASSUME IInv, IInv', NEW h \in Handles, NEW g \in Handles, Retain(h, g)
    PROVE  Sequential!Retain(h, g)
<1>1. /\ state[h] = "strong" /\ state[g] = "none" /\ Become(g, "strong") /\ strong' = strong + 1
      /\ UNCHANGED memory /\ UNCHANGED taken /\ memory = "live" /\ strong > 0
  BY InUse, CountersSay DEF Retain, Is
<1>2. /\ strong \in Nat /\ taken \in Nat
      /\ Cardinality(Holders) \in Nat /\ Cardinality(HandlesIn({"read"})) \in Nat
  BY SeenIs
<1>0. Seen[h] = "strong" /\ Seen[g] = "none"
  BY <1>1 DEF Seen, Outside
<1>3. /\ Seen' = [Seen EXCEPT ![g] = "strong"]
      /\ Cardinality(Holders)' = Cardinality(Holders)
  BY <1>1, <1>2, MoveSeen DEF States, Outside, One, HolderStates
<1>4. UNCHANGED SeenTaken
  BY <1>1, <1>2, MoveSeen DEF States, One, SeenTaken, Is
<1>5. UNCHANGED SeenWeak /\ UNCHANGED SeenMemory
  BY <1>1, <1>2, <1>3, SeenIs, SeenIsNext DEF One
<1> QED BY <1>0, <1>1, <1>3, <1>4, <1>5
        DEF Sequential!Retain, Sequential!Become, Sequential!Is,
            Seen, SeenWeak, SeenMemory, SeenTaken

LEMMA NewWeakImplements ==
    ASSUME IInv, IInv', NEW h \in Handles, NEW g \in Handles, NewWeak(h, g)
    PROVE  Sequential!NewWeak(h, g)
<1>1. /\ state[h] \in {"strong", "weak", "building"} /\ state[g] = "none" /\ Become(g, "weak")
      /\ UNCHANGED strong /\ UNCHANGED memory /\ UNCHANGED taken /\ memory = "live"
      /\ strong > 0 \/ Cardinality(Holders) > 0
  BY InUse, CountersSay DEF NewWeak, Is, HolderStates
<1>2. /\ strong \in Nat /\ taken \in Nat
      /\ Cardinality(Holders) \in Nat /\ Cardinality(HandlesIn({"read"})) \in Nat
  BY SeenIs
<1>0. Seen[g] = "none" /\ Seen[h] \in {"strong", "weak", "building"}
  BY <1>1 DEF Seen, Outside
<1>3. /\ Seen' = [Seen EXCEPT ![g] = "weak"]
      /\ Cardinality(Holders)' = Cardinality(Holders) + 1
  BY <1>1, <1>2, MoveSeen DEF States, Outside, One, HolderStates
<1>4. UNCHANGED SeenTaken
  BY <1>1, <1>2, MoveSeen DEF States, One, SeenTaken, Is
<1>5. SeenWeak' = SeenWeak + 1 /\ UNCHANGED SeenMemory
  BY <1>1, <1>2, <1>3, SeenIs, SeenIsNext DEF One
<1> QED BY <1>0, <1>1, <1>3, <1>4, <1>5
        DEF Sequential!NewWeak, Sequential!Become, Sequential!Is,
            Seen, SeenWeak, SeenMemory, SeenTaken

\* release, releaseUnwrap and tryUnwrap; the value that will be read counts
\* as taken from here on.
LEMMA ReleaseImplements ==
    ASSUME IInv, IInv', NEW h \in Handles, NEW onLast \in Leaving, ReleaseStrong(h, onLast)
    PROVE  Sequential!ReleaseShared(h)
             \/ Sequential!ReleaseLast(h, IF onLast = "read" THEN 1 ELSE 0)
<1>1. /\ state[h] = "strong" /\ strong' = strong - 1
      /\ Become(h, IF strong = 1 THEN onLast ELSE "none")
      /\ UNCHANGED memory /\ UNCHANGED taken /\ memory = "live" /\ strong > 0
  BY InUse, CountersSay DEF ReleaseStrong, Is
<1>2. /\ strong \in Nat /\ taken \in Nat
      /\ Cardinality(Holders) \in Nat /\ Cardinality(HandlesIn({"read"})) \in Nat
  BY SeenIs
<1>3. onLast \in States /\ Seen[h] = "strong"
  BY <1>1 DEF States, Leaving, Seen, Outside
<1>4. CASE strong > 1
  <2>1. Become(h, "none")
    BY <1>1, <1>4
  <2>2. /\ Seen' = [Seen EXCEPT ![h] = "none"]
        /\ Cardinality(Holders)' = Cardinality(Holders)
    BY <1>1, <1>2, <2>1, MoveSeen DEF States, Outside, One, HolderStates
  <2>3. UNCHANGED SeenTaken
    BY <1>1, <1>2, <2>1, MoveSeen DEF States, One, SeenTaken, Is
  <2>4. UNCHANGED SeenWeak /\ UNCHANGED SeenMemory
    BY <1>1, <1>2, <1>4, <2>2, SeenIs, SeenIsNext DEF One
  <2>5. Sequential!ReleaseShared(h)
    BY <1>1, <1>3, <1>4, <2>2, <2>3, <2>4
       DEF Sequential!ReleaseShared, Sequential!Become, Sequential!Is,
           Seen, SeenWeak, SeenMemory, SeenTaken
  <2> QED BY <2>5
<1>5. CASE strong = 1
  <2> DEFINE moved == IF onLast = "read" THEN 1 ELSE 0
  <2>1. Become(h, onLast) /\ strong' = 0
    BY <1>1, <1>5
  <2>2. /\ Seen' = [Seen EXCEPT ![h] = "none"]
        /\ Cardinality(Holders)' = Cardinality(Holders)
    BY <1>1, <1>2, <1>3, <2>1, MoveSeen DEF Leaving, Outside, One, HolderStates
  <2>3. SeenTaken' = SeenTaken + moved
    BY <1>1, <1>2, <1>3, <2>1, MoveSeen DEF One, SeenTaken, Is, Leaving
  <2>4. /\ SeenWeak' = SeenWeak - 1
        /\ SeenMemory' = IF SeenWeak = 1 THEN "freed" ELSE SeenMemory
    BY <1>1, <1>2, <1>5, <2>1, <2>2, SeenIs, SeenIsNext DEF One
  <2> HIDE DEF moved
  <2>5. Sequential!ReleaseLast(h, moved)
    BY <1>3, <1>5, <2>1, <2>2, <2>3, <2>4
       DEF Sequential!ReleaseLast, Sequential!DropWeak, Sequential!Become, Sequential!Is,
           Seen, SeenWeak, SeenMemory, SeenTaken
  <2> QED BY <2>5 DEF moved
<1> QED BY <1>2, <1>1, <1>4, <1>5

\* A weak handle gives up its count: its release, or an upgrade that finds no
\* strong reference.
LEMMA DropWeakImplements ==
    ASSUME IInv, IInv', NEW h \in Handles, NEW s \in {"none", "free", "fail"}, Become(h, s),
           state[h] \in {"weak", "load"}, UNCHANGED <<strong, memory, taken>>
    PROVE  /\ Sequential!Is(h, "weak") /\ Sequential!DropWeak /\ Sequential!Become(h, "none")
           /\ UNCHANGED SeenTaken
<1>1. /\ UNCHANGED strong /\ UNCHANGED memory /\ UNCHANGED taken
      /\ memory = "live" /\ Cardinality(Holders) > 0
  BY InUse DEF Is, HolderStates
<1>2. /\ strong \in Nat /\ taken \in Nat
      /\ Cardinality(Holders) \in Nat /\ Cardinality(HandlesIn({"read"})) \in Nat
  BY SeenIs
<1>3. s \in States /\ Seen[h] = "weak"
  BY DEF States, Seen, Outside
<1>4. /\ Seen' = [Seen EXCEPT ![h] = "none"]
      /\ Cardinality(Holders)' = Cardinality(Holders) - 1
  BY <1>2, <1>3, MoveSeen DEF Outside, One, HolderStates
<1>5. UNCHANGED SeenTaken
  BY <1>1, <1>2, <1>3, MoveSeen DEF One, SeenTaken, Is
<1>6. /\ SeenWeak' = SeenWeak - 1
      /\ SeenMemory' = IF SeenWeak = 1 THEN "freed" ELSE SeenMemory
  BY <1>1, <1>2, <1>4, SeenIs, SeenIsNext DEF One
<1> QED BY <1>3, <1>4, <1>5, <1>6
        DEF Sequential!DropWeak, Sequential!Become, Sequential!Is, Seen, SeenWeak, SeenMemory

LEMMA UpgradeImplements ==
    ASSUME IInv, IInv', NEW h \in Handles, NEW g \in Handles, UpgradeCas(h, g)
    PROVE  Sequential!Upgrade(h, g)
<1>1. /\ state[h] = "cas" /\ state[g] = "none" /\ strong' = strong + 1 /\ strong > 0
      /\ UNCHANGED memory /\ UNCHANGED taken /\ memory = "live"
      /\ state' = [state EXCEPT ![h] = "weak", ![g] = "strong"]
  BY InUse DEF UpgradeCas, Is, IInv, Remembered
<1>2. /\ strong \in Nat /\ taken \in Nat /\ state \in [Handles -> States]
      /\ Cardinality(Holders) \in Nat /\ Cardinality(HandlesIn({"read"})) \in Nat
  BY SeenIs DEF IInv, TypeOK
<1>3. /\ Seen' = [Seen EXCEPT ![g] = "strong"] /\ Seen[h] = "weak" /\ Seen[g] = "none"
  <2>1. \A k \in Handles : state'[k] = IF k = g THEN "strong" ELSE IF k = h THEN "weak" ELSE state[k]
    BY <1>1, <1>2
  <2>2. Outside["cas"] = "weak" /\ Outside["weak"] = "weak"
        /\ Outside["strong"] = "strong" /\ Outside["none"] = "none"
    BY DEF Outside
  <2>3. \A k \in Handles : Outside[state'[k]] = IF k = g THEN "strong" ELSE Outside[state[k]]
    <3> SUFFICES ASSUME NEW k \in Handles
                 PROVE  Outside[state'[k]] = IF k = g THEN "strong" ELSE Outside[state[k]]
      OBVIOUS
    <3>1. CASE k = g
      <4>1. state'[k] = "strong"
        BY <2>1, <3>1
      <4> QED BY <2>2, <3>1, <4>1
    <3>2. CASE k # g /\ k = h
      <4>1. state'[k] = "weak" /\ state[k] = "cas"
        BY <1>1, <2>1, <3>2
      <4> QED BY <2>2, <3>2, <4>1
    <3>3. CASE k # g /\ k # h
      <4>1. state'[k] = state[k]
        BY <2>1, <3>3
      <4> QED BY <3>3, <4>1
    <3> QED BY <3>1, <3>2, <3>3
  <2>4. /\ Seen = [k \in Handles |-> Outside[state[k]]]
        /\ Seen' = [k \in Handles |-> Outside[state'[k]]]
    BY DEF Seen
  <2>5. \A k \in Handles : Seen'[k] = IF k = g THEN "strong" ELSE Seen[k]
    BY <2>3, <2>4
  <2>6. Seen' = [Seen EXCEPT ![g] = "strong"]
    BY <2>4, <2>5
  <2> QED BY <1>1, <2>2, <2>6 DEF Seen
<1>4. Holders' = Holders /\ HandlesIn({"read"})' = HandlesIn({"read"})
  BY <1>1, <1>2 DEF Holders, HandlesIn
<1>5. UNCHANGED SeenWeak /\ UNCHANGED SeenMemory /\ UNCHANGED SeenTaken
  BY <1>1, <1>2, <1>4, SeenIs, SeenIsNext DEF One, SeenTaken
<1> QED BY <1>1, <1>3, <1>5
        DEF Sequential!Upgrade, Sequential!Become, Sequential!Is,
            Seen, SeenWeak, SeenMemory, SeenTaken

-----------------------------------------------------------------------------
(* Threads that use the atomic counters see the sequential ones: every     *)
(* behaviour of ArcAlignedUnmanaged is one of RcAlignedUnmanaged, for any  *)
(* number of handles.                                                      *)
THEOREM ImplementsRc == Spec => Refinement
<1>1. Init => Sequential!Init
  BY InitImplements
<1>2. IInv /\ IInv' /\ [Next]_vars => [Sequential!Next]_(Sequential!vars)
  <2> SUFFICES ASSUME IInv, IInv', [Next]_vars
               PROVE  [Sequential!Next]_(Sequential!vars)
    OBVIOUS
  <2>1. CASE UNCHANGED vars
    BY <2>1 DEF vars, Sequential!vars, Holders, HandlesIn
  <2>2. ASSUME NEW h \in Handles, Step(h)
        PROVE  Sequential!Step(h) \/ UNCHANGED Sequential!vars
    <3>0. /\ strong \in Nat /\ taken \in Nat /\ state \in [Handles -> States]
          /\ memory' \in {"none", "live", "freed"}
      BY DEF IInv, TypeOK
    <3>1. CASE Create(h) \/ CreateCyclic(h)
      BY <3>1, CreateImplements DEF Sequential!Step
    <3>2. CASE FinishCyclic(h)
      BY <3>2, FinishCyclicImplements DEF Sequential!Step
    <3>3. CASE Release(h) \/ ReleaseUnwrap(h) \/ TryUnwrap(h)
      <4>1. CASE ReleaseStrong(h, "drop")
        BY <4>1, ReleaseImplements DEF Leaving, Sequential!Step, Sequential!Release
      <4>2. CASE ReleaseStrong(h, "read")
        BY <4>2, ReleaseImplements DEF Leaving, Sequential!Step, Sequential!ReleaseUnwrap
      <4> QED BY <3>3, <4>1, <4>2 DEF Release, ReleaseUnwrap, TryUnwrap
    <3>4. CASE ReadValue(h)
      <4>1. /\ Is(h, "read") /\ Become(h, "drop") /\ UNCHANGED strong /\ UNCHANGED memory
            /\ memory = "live" /\ taken' = taken + 1
        BY <3>4, InUse DEF ReadValue, Is
      <4>2. taken' = taken + One(Is(h, "read")) - One("drop" = "read")
        BY <3>0, <4>1 DEF One
      <4>3. Outside["drop"] = Outside[state[h]] /\ "drop" \in States
        BY <4>1 DEF Outside, Is, States
      <4>4. "drop" \in HolderStates <=> state[h] \in HolderStates
        BY <4>1 DEF HolderStates, Is
      <4> QED BY <4>1, <4>2, <4>3, <4>4, Unseen
    <3>5. CASE DropWeak(h)
      <4> DEFINE s == IF weak = 1 THEN "free" ELSE "none"
      <4>1. /\ UNCHANGED strong /\ UNCHANGED memory /\ UNCHANGED taken /\ memory = "live"
            /\ Become(h, s) /\ state[h] \in {"drop", "fail", "weak"}
        BY <3>5, InUse DEF DropWeak, Is
      <4>2. s \in {"none", "free"}
        OBVIOUS
      <4> HIDE DEF s
      <4>3. CASE state[h] = "weak"
        <5>1. /\ Sequential!Is(h, "weak") /\ Sequential!DropWeak /\ Sequential!Become(h, "none")
              /\ UNCHANGED SeenTaken
          BY <4>1, <4>2, <4>3, DropWeakImplements
        <5>2. Sequential!WeakRelease(h)
          BY <4>1, <5>1 DEF Sequential!WeakRelease, SeenTaken
        <5> QED BY <5>2 DEF Sequential!Step
      <4>4. CASE state[h] \in {"drop", "fail"}
        <5>1. Outside[s] = Outside[state[h]] /\ s \in States
          BY <4>2, <4>4 DEF Outside, States
        <5>2. s \notin HolderStates /\ state[h] \notin HolderStates
          BY <4>2, <4>4 DEF HolderStates
        <5>3. taken' = taken + One(Is(h, "read")) - One(s = "read")
          BY <3>0, <4>1, <4>2, <4>4 DEF One, Is
        <5> QED BY <4>1, <5>1, <5>2, <5>3, Unseen
      <4> QED BY <4>1, <4>3, <4>4
    <3>6. CASE Destroy(h)
      <4>1. /\ Is(h, "free") /\ Become(h, "none") /\ UNCHANGED strong /\ memory' = "freed"
            /\ memory = "live" /\ UNCHANGED taken
        BY <3>6, InUse DEF Destroy, Is
      <4>2. taken' = taken + One(Is(h, "read")) - One("none" = "read")
        BY <3>0, <4>1 DEF One, Is
      <4>3. Outside["none"] = Outside[state[h]] /\ "none" \in States
        BY <4>1 DEF Outside, Is, States
      <4>4. "none" \in HolderStates <=> state[h] \in HolderStates
        BY <4>1 DEF HolderStates, Is
      <4> QED BY <4>1, <4>2, <4>3, <4>4, Unseen
    <3>7. CASE UpgradeLoad(h)
      <4>1. /\ state[h] \in {"weak", "load"} /\ Become(h, IF strong = 0 THEN "fail" ELSE "cas")
            /\ UNCHANGED strong /\ UNCHANGED memory /\ UNCHANGED taken /\ memory = "live"
        BY <3>7, InUse DEF UpgradeLoad, Is
      <4>2. CASE strong = 0
        <5>1. /\ Sequential!Is(h, "weak") /\ Sequential!DropWeak /\ Sequential!Become(h, "none")
              /\ UNCHANGED SeenTaken
          BY <4>1, <4>2, DropWeakImplements
        <5>2. Sequential!UpgradeFails(h)
          BY <4>1, <4>2, <5>1 DEF Sequential!UpgradeFails, SeenTaken
        <5> QED BY <5>2 DEF Sequential!Step
      <4>3. CASE strong # 0
        <5>1. Become(h, "cas") /\ taken' = taken + One(Is(h, "read")) - One("cas" = "read")
          BY <3>0, <4>1, <4>3 DEF One, Is
        <5>2. Outside["cas"] = Outside[state[h]] /\ "cas" \in States
          BY <4>1 DEF Outside, States
        <5>3. "cas" \in HolderStates <=> state[h] \in HolderStates
          BY <4>1 DEF HolderStates
        <5> QED BY <4>1, <5>1, <5>2, <5>3, Unseen
      <4> QED BY <4>2, <4>3
    <3>8. CASE UpgradeRetry(h) \/ CountLoad(h) \/ CountReturn(h)
      <4>1. PICK s \in {"load", "count", "weak"} : Become(h, s)
        BY <3>8 DEF UpgradeRetry, CountLoad, CountReturn
      <4>2. /\ state[h] \in {"cas", "weak", "count"}
            /\ UNCHANGED strong /\ UNCHANGED memory /\ UNCHANGED taken /\ memory = "live"
        BY <3>8, InUse DEF UpgradeRetry, CountLoad, CountReturn, Is
      <4>3. taken' = taken + One(Is(h, "read")) - One(s = "read")
        BY <3>0, <4>1, <4>2 DEF One, Is
      <4>4. Outside[s] = Outside[state[h]] /\ s \in States
        BY <4>2 DEF Outside, States
      <4>5. s \in HolderStates /\ state[h] \in HolderStates
        BY <4>2 DEF HolderStates
      <4> QED BY <4>1, <4>2, <4>3, <4>4, <4>5, Unseen
    <3>9. ASSUME NEW g \in Handles, Retain(h, g) \/ NewWeak(h, g) \/ UpgradeCas(h, g)
          PROVE  Sequential!Step(h)
      BY <3>9, RetainImplements, NewWeakImplements, UpgradeImplements DEF Sequential!Step
    <3> QED BY <2>2, <3>1, <3>2, <3>3, <3>4, <3>5, <3>6, <3>7, <3>8, <3>9 DEF Step
  <2> QED BY <2>1, <2>2 DEF Next, Sequential!Next
<1> QED BY <1>1, <1>2, Invariance, PTL DEF Spec, Refinement, Sequential!Spec

=============================================================================
