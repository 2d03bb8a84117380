------------------------------ MODULE RcProofs ------------------------------
(***************************************************************************)
(* The reference counts of Rc, for every finite number of handles.  The    *)
(* code frees the memory when the weak counter reaches 0 and never looks   *)
(* at the handles; IInv says why that is right: the counters count, so a   *)
(* weak counter above 0 is the same as somebody holding a reference.       *)
(***************************************************************************)
EXTENDS Rc, FiniteSetTheorems, TLAPS

\* The memory is there as long as the weak counter is not 0.
LiveWhileCounted == memory = "live" <=> weak > 0

\* Before the first handle nothing has happened.
Fresh == memory = "none" => strong = 0 /\ weak = 0 /\ taken = 0

\* During initCyclic there is no strong handle, and no second construction.
BuildsAlone == \A h, g \in Handles : Is(h, "building") /\ g # h =>
                   state[g] \notin {"building", "strong"}

\* The value leaves only with the last strong handle.
LeavesLast == /\ taken \in {0, 1}
              /\ \A h \in Handles : state[h] \in {"building", "strong"} => taken = 0

IInv == /\ TypeOK
        /\ Counted
        /\ LiveWhileCounted
        /\ Fresh
        /\ BuildsAlone
        /\ LeavesLast

-----------------------------------------------------------------------------
(* Lemmas about counting handles. *)

InOf(st, S) == {h \in Handles : st[h] \in S}
Count(st, S) == Cardinality(InOf(st, S))
One(P) == IF P THEN 1 ELSE 0

\* There are finitely many handles in any states, none only if the count is 0.
LEMMA CountType ==
    ASSUME NEW st, NEW S
    PROVE  /\ IsFiniteSet(InOf(st, S)) /\ Count(st, S) \in Nat
           /\ Count(st, S) = 0 <=> \A h \in Handles : st[h] \notin S
<1>1. InOf(st, S) \subseteq Handles
  BY DEF InOf
<1>2. IsFiniteSet(InOf(st, S))
  BY <1>1, FS_Subset, RcAssumption
<1>3. InOf(st, S) = {} <=> \A h \in Handles : st[h] \notin S
  BY DEF InOf
<1> QED BY <1>2, <1>3, FS_CardinalityType, FS_EmptySet DEF Count

\* What the move of one handle does to a count.
LEMMA CountMove ==
    ASSUME NEW st, DOMAIN st = Handles, st = [k \in Handles |-> st[k]],
           NEW S, NEW h \in Handles, NEW s
    PROVE  Count([st EXCEPT ![h] = s], S)
               = Count(st, S) + One(s \in S) - One(st[h] \in S)
<1> DEFINE A == InOf(st, S)
           B == InOf([st EXCEPT ![h] = s], S)
<1>1. IsFiniteSet(A) /\ Cardinality(A) \in Nat
  BY CountType DEF Count
<1>2. h \in A <=> st[h] \in S
  BY DEF InOf
<1>3. s \in S => B = A \cup {h}
  BY DEF InOf
<1>4. s \notin S => B = A \ {h}
  BY DEF InOf
<1>5. Count(st, S) = Cardinality(A) /\ Count([st EXCEPT ![h] = s], S) = Cardinality(B)
  BY DEF Count
<1> HIDE DEF A, B
<1>6. /\ Cardinality(A \cup {h}) = IF h \in A THEN Cardinality(A) ELSE Cardinality(A) + 1
      /\ Cardinality(A \ {h}) = IF h \in A THEN Cardinality(A) - 1 ELSE Cardinality(A)
  BY <1>1, FS_AddElement, FS_RemoveElement
<1>7. CASE s \in S
  <2>1. Cardinality(B) = IF h \in A THEN Cardinality(A) ELSE Cardinality(A) + 1
    BY <1>3, <1>6, <1>7
  <2> QED BY <1>1, <1>2, <1>5, <1>7, <2>1 DEF One
<1>8. CASE s \notin S
  <2>1. Cardinality(B) = IF h \in A THEN Cardinality(A) - 1 ELSE Cardinality(A)
    BY <1>4, <1>6, <1>8
  <2> QED BY <1>1, <1>2, <1>5, <1>8, <2>1 DEF One
<1> QED BY <1>7, <1>8

Owners == {"weak", "building"}

\* What the counters say about the handles.
LEMMA CountersSay ==
    ASSUME TypeOK, Counted
    PROVE  /\ strong > 0 <=> \E h \in Handles : Is(h, "strong")
           /\ weak > 0 <=> \E h \in Handles : state[h] \in {"strong", "weak", "building"}
           /\ \A h \in Handles : state[h] \in Owners => weak > One(strong > 0)
           /\ \A h, g \in Handles : strong = 1 /\ Is(h, "strong") /\ Is(g, "strong") => g = h
<1>1. /\ strong = Count(state, {"strong"})
      /\ weak = Count(state, Owners) + One(strong > 0)
  BY DEF Counted, HandlesIn, Count, InOf, One, Owners
<1>2. /\ Count(state, {"strong"}) \in Nat /\ Count(state, Owners) \in Nat
      /\ Count(state, {"strong"}) = 0 <=> \A h \in Handles : state[h] \notin {"strong"}
      /\ Count(state, Owners) = 0 <=> \A h \in Handles : state[h] \notin Owners
  BY CountType
<1>3. ASSUME strong = 1, NEW h \in Handles, NEW g \in Handles, Is(h, "strong"), Is(g, "strong")
      PROVE  g = h
  <2>1. PICK k : InOf(state, {"strong"}) = {k}
    BY <1>1, <1>3, CountType, FS_Singleton DEF Count
  <2>2. h \in InOf(state, {"strong"}) /\ g \in InOf(state, {"strong"})
    BY <1>3 DEF InOf, Is
  <2> QED BY <2>1, <2>2
<1> QED BY <1>1, <1>2, <1>3 DEF One, Is, Owners

\* Counted after the move of one handle, given what it does to the counters.
LEMMA OneMoves ==
    ASSUME TypeOK, Counted, NEW h \in Handles, NEW s, Become(h, s),
           strong' = strong + One(s = "strong") - One(Is(h, "strong")),
           weak' = weak - One(strong > 0) + One(strong' > 0)
                       + One(s \in Owners) - One(state[h] \in Owners)
    PROVE  Counted'
<1>1. /\ strong = Count(state, {"strong"})
      /\ weak = Count(state, Owners) + One(strong > 0)
  BY DEF Counted, HandlesIn, Count, InOf, One, Owners
<1>2. DOMAIN state = Handles /\ state = [k \in Handles |-> state[k]]
  BY DEF TypeOK
<1>3. /\ Count(state', {"strong"}) = strong + One(s \in {"strong"}) - One(state[h] \in {"strong"})
      /\ Count(state', Owners) = weak - One(strong > 0) + One(s \in Owners) - One(state[h] \in Owners)
  <2>1. state' = [state EXCEPT ![h] = s]
    BY DEF Become
  <2>2. Count(state, Owners) \in Nat /\ Count(state, {"strong"}) \in Nat
    BY CountType
  <2>3. /\ Count(state', {"strong"})
             = Count(state, {"strong"}) + One(s \in {"strong"}) - One(state[h] \in {"strong"})
        /\ Count(state', Owners) = Count(state, Owners) + One(s \in Owners) - One(state[h] \in Owners)
    BY <1>2, <2>1, CountMove
  <2> QED BY <1>1, <2>2, <2>3 DEF One
<1>4. strong' = Count(state', {"strong"})
  BY <1>3 DEF One, Is
<1>5. weak' = Count(state', Owners) + One(strong' > 0)
  <2>1. Count(state', Owners) \in Nat /\ weak \in Nat
    BY CountType DEF TypeOK
  <2> QED BY <1>3, <2>1 DEF One
<1> QED BY <1>4, <1>5 DEF Counted, HandlesIn, Count, InOf, One, Owners

-----------------------------------------------------------------------------
(* IInv is kept by every step: one lemma per action. *)

LEMMA InitIInv == Init => IInv
<1> SUFFICES ASSUME Init PROVE IInv
  OBVIOUS
<1>1. Counted
  <2>1. HandlesIn({"strong"}) = {} /\ HandlesIn({"weak", "building"}) = {}
    BY DEF Init, HandlesIn
  <2> QED BY <2>1, FS_EmptySet DEF Counted, Init
<1>2. TypeOK /\ LiveWhileCounted /\ Fresh /\ BuildsAlone /\ LeavesLast
  BY DEF Init, TypeOK, LiveWhileCounted, Fresh, BuildsAlone, LeavesLast, Is
<1> QED BY <1>1, <1>2 DEF IInv

LEMMA CreateKeeps ==
    ASSUME IInv, NEW h \in Handles, Create(h) \/ CreateCyclic(h)
    PROVE  IInv'
<1>1. /\ strong = 0 /\ weak = 0 /\ taken = 0
      /\ memory' = "live" /\ weak' = 1 /\ taken' = 0
      /\ \/ strong' = 1 /\ Become(h, "strong")
         \/ strong' = 0 /\ Become(h, "building")
  BY DEF Create, CreateCyclic, IInv, Fresh
<1>2. \A k \in Handles : state[k] = "none"
  BY <1>1, CountersSay DEF IInv, TypeOK
<1>3. /\ state' \in [Handles -> {"none", "building", "strong", "weak"}]
      /\ \A k \in Handles : k # h => state'[k] = "none"
  BY <1>1, <1>2 DEF Become, IInv, TypeOK
<1>4. Counted'
  BY <1>1, <1>2, OneMoves DEF IInv, One, Owners, Is
<1>5. TypeOK' /\ LiveWhileCounted' /\ Fresh' /\ BuildsAlone' /\ LeavesLast'
  BY <1>1, <1>3 DEF TypeOK, LiveWhileCounted, Fresh, BuildsAlone, LeavesLast, Is
<1> QED BY <1>4, <1>5 DEF IInv

\* One more strong handle where there is one, or at the end of initCyclic.
LEMMA MoreStrongKeeps ==
    ASSUME IInv, NEW h \in Handles,
           strong' = strong + 1, Become(h, "strong"), UNCHANGED <<weak, memory, taken>>,
           \/ state[h] = "none" /\ strong > 0
           \/ state[h] = "building"
    PROVE  IInv'
<1>1. /\ strong \in Nat /\ weak \in Nat /\ weak > 0 /\ UNCHANGED weak
      /\ UNCHANGED memory /\ UNCHANGED taken
  BY CountersSay DEF IInv, TypeOK, Is
<1>2. state[h] = "building" => strong = 0 /\ \A g \in Handles : state[g] # "strong"
  BY CountersSay DEF IInv, TypeOK, BuildsAlone, Is
<1>3. state[h] = "none" => \A g \in Handles : state[g] # "building"
  BY CountersSay DEF IInv, TypeOK, BuildsAlone, Is
<1>4. taken = 0
  BY CountersSay DEF IInv, LeavesLast, Is
<1>5. /\ state' \in [Handles -> {"none", "building", "strong", "weak"}] /\ state'[h] = "strong"
      /\ \A k \in Handles : k # h => state'[k] = state[k]
  BY DEF Become, IInv, TypeOK
<1>6. Counted'
  BY <1>1, <1>2, OneMoves DEF IInv, One, Owners, Is
<1>7. TypeOK' /\ LiveWhileCounted' /\ Fresh' /\ LeavesLast'
  BY <1>1, <1>4, <1>5 DEF IInv, TypeOK, LiveWhileCounted, Fresh, LeavesLast
<1>8. BuildsAlone'
  BY <1>3, <1>5 DEF IInv, BuildsAlone, Is
<1> QED BY <1>6, <1>7, <1>8 DEF IInv

LEMMA NewWeakKeeps ==
    ASSUME IInv, NEW h \in Handles, NEW g \in Handles, NewWeak(h, g)
    PROVE  IInv'
<1>1. /\ strong \in Nat /\ weak \in Nat /\ weak > 0 /\ weak' = weak + 1
      /\ UNCHANGED strong /\ UNCHANGED memory /\ UNCHANGED taken
      /\ state[g] = "none" /\ Become(g, "weak")
  BY CountersSay DEF IInv, TypeOK, NewWeak, Is
<1>2. /\ state' \in [Handles -> {"none", "building", "strong", "weak"}] /\ state'[g] = "weak"
      /\ \A k \in Handles : k # g => state'[k] = state[k]
  BY <1>1 DEF Become, IInv, TypeOK
<1>3. Counted'
  BY <1>1, OneMoves DEF IInv, One, Owners, Is
<1>4. TypeOK' /\ LiveWhileCounted' /\ Fresh' /\ BuildsAlone' /\ LeavesLast'
  BY <1>1, <1>2 DEF IInv, TypeOK, LiveWhileCounted, Fresh, BuildsAlone, LeavesLast, Is
<1> QED BY <1>3, <1>4 DEF IInv

LEMMA ReleaseSharedKeeps ==
    ASSUME IInv, NEW h \in Handles, ReleaseShared(h)
    PROVE  IInv'
<1>1. /\ strong \in Nat /\ strong > 1 /\ strong' = strong - 1 /\ weak \in Nat /\ weak > 0
      /\ UNCHANGED weak /\ UNCHANGED memory /\ UNCHANGED taken
      /\ state[h] = "strong" /\ Become(h, "none")
  BY CountersSay DEF IInv, TypeOK, ReleaseShared, Is
<1>2. /\ state' \in [Handles -> {"none", "building", "strong", "weak"}] /\ state'[h] = "none"
      /\ \A k \in Handles : k # h => state'[k] = state[k]
  BY <1>1 DEF Become, IInv, TypeOK
<1>3. Counted'
  BY <1>1, OneMoves DEF IInv, One, Owners, Is
<1>4. TypeOK' /\ LiveWhileCounted' /\ Fresh' /\ BuildsAlone' /\ LeavesLast'
  BY <1>1, <1>2 DEF IInv, TypeOK, LiveWhileCounted, Fresh, BuildsAlone, LeavesLast, Is
<1> QED BY <1>3, <1>4 DEF IInv

\* The last strong handle or a weak one gives up its weak count.
LEMMA DropWeakKeeps ==
    ASSUME IInv, NEW h \in Handles, NEW moved \in {0, 1},
           DropWeak, Become(h, "none"), taken' = taken + moved,
           \/ Is(h, "strong") /\ strong = 1 /\ strong' = 0
           \/ Is(h, "weak") /\ UNCHANGED strong /\ moved = 0
    PROVE  IInv'
<1>1. /\ strong \in Nat /\ strong' \in Nat /\ weak \in Nat /\ weak > 0 /\ weak' = weak - 1
      /\ memory' = IF weak = 1 THEN "freed" ELSE memory
      /\ memory = "live" /\ taken \in Nat
  BY CountersSay DEF IInv, TypeOK, LiveWhileCounted, DropWeak, Is
<1>2. /\ state' \in [Handles -> {"none", "building", "strong", "weak"}] /\ state'[h] = "none"
      /\ \A k \in Handles : k # h => state'[k] = state[k]
  BY DEF Become, IInv, TypeOK
<1>3. Counted'
  BY <1>1, OneMoves DEF IInv, One, Owners, Is
<1>4. TypeOK' /\ LiveWhileCounted' /\ Fresh'
  BY <1>1, <1>2 DEF TypeOK, LiveWhileCounted, Fresh
<1>5. BuildsAlone'
  BY <1>2 DEF IInv, BuildsAlone, Is
<1>6. LeavesLast'
  <2>1. CASE Is(h, "strong") /\ strong = 1
    <3>1. taken = 0 /\ \A k \in Handles : k # h => state[k] \notin {"strong", "building"}
      BY <2>1, CountersSay DEF IInv, LeavesLast, BuildsAlone, Is
    <3> QED BY <1>2, <3>1 DEF LeavesLast
  <2>2. CASE Is(h, "weak") /\ moved = 0
    BY <1>1, <1>2, <2>2 DEF IInv, LeavesLast
  <2> QED BY <2>1, <2>2 DEF Is
<1> QED BY <1>3, <1>4, <1>5, <1>6 DEF IInv

LEMMA NextIInv == IInv /\ [Next]_vars => IInv'
<1> SUFFICES ASSUME IInv, [Next]_vars PROVE IInv'
  OBVIOUS
<1>1. CASE UNCHANGED vars
  BY <1>1 DEF vars, IInv, TypeOK, Counted, HandlesIn, LiveWhileCounted, Fresh, BuildsAlone,
              LeavesLast, Is
<1>2. ASSUME NEW h \in Handles, Step(h) PROVE IInv'
  <2>1. CASE Create(h) \/ CreateCyclic(h)
    BY <2>1, CreateKeeps
  <2>2. CASE FinishCyclic(h)
    BY <2>2, MoreStrongKeeps DEF FinishCyclic, Is
  <2>3. CASE Release(h) \/ ReleaseUnwrap(h) \/ TryUnwrap(h)
    <3>1. CASE ReleaseShared(h)
      BY <3>1, ReleaseSharedKeeps
    <3>2. CASE ReleaseLast(h, 0) \/ ReleaseLast(h, 1)
      BY <3>2, DropWeakKeeps DEF ReleaseLast
    <3> QED BY <2>3, <3>1, <3>2 DEF Release, ReleaseUnwrap, TryUnwrap
  <2>4. CASE UpgradeFails(h) \/ WeakRelease(h)
    <3>1. taken \in Nat
      BY DEF IInv, TypeOK
    <3>2. /\ Is(h, "weak") /\ DropWeak /\ Become(h, "none")
          /\ UNCHANGED strong /\ taken' = taken + 0
      BY <2>4, <3>1 DEF UpgradeFails, WeakRelease
    <3> QED BY <3>2, DropWeakKeeps
  <2>5. ASSUME NEW g \in Handles, Retain(h, g) \/ Upgrade(h, g) PROVE IInv'
    <3>1. strong > 0 /\ state[g] = "none" /\ strong' = strong + 1 /\ Become(g, "strong")
          /\ UNCHANGED <<weak, memory, taken>>
      BY <2>5, CountersSay DEF IInv, Retain, Upgrade, Is
    <3> QED BY <3>1, MoreStrongKeeps
  <2>6. ASSUME NEW g \in Handles, NewWeak(h, g) PROVE IInv'
    BY <2>6, NewWeakKeeps
  <2> QED BY <1>2, <2>1, <2>2, <2>3, <2>4, <2>5, <2>6 DEF Step
<1> QED BY <1>1, <1>2 DEF Next

LEMMA Invariance == Spec => []IInv
<1> QED BY InitIInv, NextIInv, PTL DEF Spec

-----------------------------------------------------------------------------
(* Every reachable state is well-typed; in particular no counter goes      *)
(* below 0, where the usize of the code would wrap around (rc.zig:377).    *)
THEOREM TypeCorrect == Spec => []TypeOK
<1>1. IInv => TypeOK
  BY DEF IInv
<1> QED BY <1>1, Invariance, PTL

(* The counters of a single-threaded allocation count its references after *)
(* every operation, however many there are.                                *)
THEOREM CountersCount == Spec => []Counted
<1>1. IInv => Counted
  BY DEF IInv
<1> QED BY <1>1, Invariance, PTL

(* The memory is freed with the last reference, neither earlier nor never. *)
THEOREM FreedWithLast == Spec => []LiveWhileReferenced
<1>1. IInv => LiveWhileReferenced
  BY CountersSay DEF IInv, LiveWhileCounted, LiveWhileReferenced, HandlesIn
<1> QED BY <1>1, Invariance, PTL

(* The value is moved out at most once, and never while it is shared.      *)
THEOREM ValueTakenOnce == Spec => []TakenOnce
<1>1. IInv => TakenOnce
  BY CountersSay DEF IInv, TypeOK, LeavesLast, TakenOnce, Is
<1> QED BY <1>1, Invariance, PTL

=============================================================================
