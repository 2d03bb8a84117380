--------------------------------- MODULE Rc ---------------------------------
(***************************************************************************)
(* One allocation of src/rc.zig in a single thread (RcAlignedUnmanaged and *)
(* its managed wrapper Rc): every operation is one step.  A handle is one  *)
(* Rc or Weak value that somebody owns.  The strong handles together hold  *)
(* one weak count, so the memory outlives the value while weak handles     *)
(* remain.  Arc.tla, where the counters are updated one at a time, is      *)
(* shown to implement this module.                                         *)
(* (Faulty_X: X with a bug, to see that the properties notice it.)         *)
(***************************************************************************)
EXTENDS Integers, FiniteSets

CONSTANT Handles  \* how many references can exist at once

ASSUME RcAssumption == IsFiniteSet(Handles)

VARIABLES state,   \* what each handle is
          strong,  \* the strong counter
          weak,    \* the weak counter
          memory,  \* of the value and its counters
          taken    \* how often the value has been moved out to a caller

vars == <<state, strong, weak, memory, taken>>

TypeOK == /\ state \in [Handles -> {"none", "building", "strong", "weak"}]
          /\ strong \in Nat /\ weak \in Nat /\ taken \in Nat
          /\ memory \in {"none", "live", "freed"}

Init == /\ state = [h \in Handles |-> "none"]
        /\ strong = 0 /\ weak = 0 /\ taken = 0
        /\ memory = "none"

Is(h, s) == state[h] = s
Become(h, s) == state' = [state EXCEPT ![h] = s]

Create(h) == /\ memory = "none"
             /\ memory' = "live" /\ strong' = 1 /\ weak' = 1
             /\ Become(h, "strong")
             /\ UNCHANGED taken

\* initCyclic: data_fn runs with a weak pointer, before the value exists.
CreateCyclic(h) == /\ memory = "none"
                   /\ memory' = "live" /\ strong' = 0 /\ weak' = 1
                   /\ Become(h, "building")
                   /\ UNCHANGED taken

FinishCyclic(h) == /\ Is(h, "building")
                   /\ strong' = strong + 1
                   /\ Become(h, "strong")
                   /\ UNCHANGED <<weak, memory, taken>>

Retain(h, g) == /\ Is(h, "strong") /\ Is(g, "none")
                /\ strong' = strong + 1
                /\ Become(g, "strong")
                /\ UNCHANGED <<weak, memory, taken>>

\* Rc.downgrade, Weak.retain, and data_fn copying its weak pointer.
NewWeak(h, g) == /\ state[h] \in {"strong", "weak", "building"} /\ Is(g, "none")
                 /\ weak' = weak + 1
                 /\ Become(g, "weak")
                 /\ UNCHANGED <<strong, memory, taken>>

Faulty_DropWeak == weak' = weak - 1 /\ memory' = "freed"   \* weak handles or not

\* One weak count less; the last one frees the memory.
DropWeak == /\ weak' = weak - 1
            /\ memory' = IF weak = 1 THEN "freed" ELSE memory

\* release, and releaseUnwrap while other strong references remain.
ReleaseShared(h) == /\ Is(h, "strong") /\ strong > 1
                    /\ strong' = strong - 1
                    /\ Become(h, "none")
                    /\ UNCHANGED <<weak, memory, taken>>

\* The last release; moved is 1 when the caller gets the value.
ReleaseLast(h, moved) == /\ Is(h, "strong") /\ strong = 1
                         /\ strong' = 0
                         /\ taken' = taken + moved
                         /\ DropWeak
                         /\ Become(h, "none")

Release(h)       == ReleaseShared(h) \/ ReleaseLast(h, 0)
ReleaseUnwrap(h) == ReleaseShared(h) \/ ReleaseLast(h, 1)
TryUnwrap(h)     == ReleaseLast(h, 1)   \* otherwise null, and nothing changes

Faulty_UpgradeUncounted(h, g) == /\ Is(h, "weak") /\ Is(g, "none") /\ strong > 0
                                 /\ Become(g, "strong")
                                 /\ UNCHANGED <<strong, weak, memory, taken>>

Upgrade(h, g) == /\ Is(h, "weak") /\ Is(g, "none") /\ strong > 0
                 /\ strong' = strong + 1
                 /\ Become(g, "strong")
                 /\ UNCHANGED <<weak, memory, taken>>

\* A failed upgrade gives the weak count back; the caller must not use the
\* handle again.
UpgradeFails(h) == /\ Is(h, "weak") /\ strong = 0
                   /\ DropWeak
                   /\ Become(h, "none")
                   /\ UNCHANGED <<strong, taken>>

WeakRelease(h) == /\ Is(h, "weak")
                  /\ DropWeak
                  /\ Become(h, "none")
                  /\ UNCHANGED <<strong, taken>>

\* Each public operation.
Step(h) == \/ Create(h) \/ CreateCyclic(h) \/ FinishCyclic(h)
           \/ Release(h) \/ ReleaseUnwrap(h) \/ TryUnwrap(h)
           \/ UpgradeFails(h) \/ WeakRelease(h)
           \/ \E g \in Handles : Retain(h, g) \/ NewWeak(h, g) \/ Upgrade(h, g)

Next == \E h \in Handles : Step(h)

Spec == Init /\ [][Next]_vars

-----------------------------------------------------------------------------
HandlesIn(S) == {h \in Handles : state[h] \in S}

(* The counters count: strong the strong handles, weak the weak ones plus  *)
(* one for all the strong handles together, or for the one under           *)
(* construction (rc.zig:324-340, 365, 377-385, 488-515).                   *)
Counted == /\ strong = Cardinality(HandlesIn({"strong"}))
           /\ weak = Cardinality(HandlesIn({"weak", "building"}))
                         + (IF strong > 0 THEN 1 ELSE 0)

(* The memory is freed exactly when the last handle is gone: no handle     *)
(* points to freed memory and none is leaked.                              *)
LiveWhileReferenced == memory = "live" <=> HandlesIn({"strong", "weak", "building"}) # {}

(* The value is moved out at most once, and never while it is shared.      *)
TakenOnce == taken <= 1 /\ (taken = 1 => strong = 0)

=============================================================================
