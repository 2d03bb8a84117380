-------------------------------- MODULE Arc ---------------------------------
(***************************************************************************)
(* One allocation of src/rc.zig shared by threads (ArcAlignedUnmanaged and *)
(* its managed wrapper Arc): every atomic access to a counter is a step of *)
(* its own.  Each handle is used by one thread at a time, but different    *)
(* handles by different threads, so the steps of different handles         *)
(* interleave; a handle's state says how far the operation on it has got.  *)
(* The counters are usize; they stay below the number of handles + 2.      *)
(* (Faulty_X: X with a bug, to see that the properties notice it.)         *)
(***************************************************************************)
EXTENDS Integers, FiniteSets

CONSTANT Handles

ASSUME ArcAssumption == IsFiniteSet(Handles)

VARIABLES state, strong, weak, memory, taken,
          reg      \* what an upgrade or a weakCount has loaded, else 0

vars == <<state, strong, weak, memory, taken, reg>>

(* load, cas: in upgrade's loop.  fail: upgrade saw no strong reference.   *)
(* read: last releaseUnwrap, about to copy the value.  drop: about to give *)
(* up the weak count of the strong handles.  free: it was the last weak    *)
(* count, about to deallocate.  count: between weakCount's two loads.      *)
States == {"none", "building", "strong", "weak",
           "load", "cas", "fail", "read", "drop", "free", "count"}

TypeOK == /\ state \in [Handles -> States]
          /\ strong \in Nat /\ weak \in Nat /\ taken \in Nat
          /\ memory \in {"none", "live", "freed"}
          /\ reg \in [Handles -> Nat]

Init == /\ state = [h \in Handles |-> "none"]
        /\ strong = 0 /\ weak = 0 /\ taken = 0
        /\ memory = "none"
        /\ reg = [h \in Handles |-> 0]

Is(h, s) == state[h] = s
Become(h, s) == state' = [state EXCEPT ![h] = s]

\* Nobody else can have the pointer yet: both stores are one step.
Create(h) == /\ memory = "none"
             /\ memory' = "live" /\ strong' = 1 /\ weak' = 1
             /\ Become(h, "strong")
             /\ UNCHANGED <<taken, reg>>

CreateCyclic(h) == /\ memory = "none"
                   /\ memory' = "live" /\ strong' = 0 /\ weak' = 1
                   /\ Become(h, "building")
                   /\ UNCHANGED <<taken, reg>>

FinishCyclic(h) == /\ Is(h, "building")
                   /\ strong' = strong + 1
                   /\ Become(h, "strong")
                   /\ UNCHANGED <<weak, memory, taken, reg>>

Retain(h, g) == /\ Is(h, "strong") /\ Is(g, "none")
                /\ strong' = strong + 1
                /\ Become(g, "strong")
                /\ UNCHANGED <<weak, memory, taken, reg>>

\* downgrade, Weak.retain, and data_fn copying its weak pointer.
NewWeak(h, g) == /\ state[h] \in {"strong", "weak", "building"} /\ Is(g, "none")
                 /\ weak' = weak + 1
                 /\ Become(g, "weak")
                 /\ UNCHANGED <<strong, memory, taken, reg>>

Faulty_ReleaseStrong(h, onLast) == /\ Is(h, "strong")    \* deallocates at once
                                   /\ strong' = strong - 1
                                   /\ Become(h, IF strong = 1 THEN "free" ELSE "none")
                                   /\ UNCHANGED <<weak, memory, taken, reg>>

\* release and releaseUnwrap: whoever takes the count from 1 to 0 goes on.
ReleaseStrong(h, onLast) == /\ Is(h, "strong")
                            /\ strong' = strong - 1
                            /\ Become(h, IF strong = 1 THEN onLast ELSE "none")
                            /\ UNCHANGED <<weak, memory, taken, reg>>

Faulty_TryUnwrap(h) == /\ Is(h, "strong")               \* no check for 1
                       /\ strong' = strong - 1
                       /\ Become(h, "read")
                       /\ UNCHANGED <<weak, memory, taken, reg>>

Release(h)       == ReleaseStrong(h, "drop")
ReleaseUnwrap(h) == ReleaseStrong(h, "read")
TryUnwrap(h)     == strong = 1 /\ ReleaseStrong(h, "read")  \* cmpxchg 1 -> 0

ReadValue(h) == /\ Is(h, "read")
                /\ taken' = taken + 1
                /\ Become(h, "drop")
                /\ UNCHANGED <<strong, weak, memory, reg>>

\* The fetch-and-sub on the weak counter at the end of release, of
\* Weak.release and of a failed upgrade.
DropWeak(h) == /\ state[h] \in {"drop", "fail", "weak"}
               /\ weak' = weak - 1
               /\ Become(h, IF weak = 1 THEN "free" ELSE "none")
               /\ UNCHANGED <<strong, memory, taken, reg>>

Destroy(h) == /\ Is(h, "free")
              /\ memory' = "freed"
              /\ Become(h, "none")
              /\ UNCHANGED <<strong, weak, taken, reg>>

Faulty_UpgradeLoad(h) == /\ state[h] \in {"weak", "load"}  \* no check for 0
                         /\ reg' = [reg EXCEPT ![h] = strong]
                         /\ Become(h, "cas")
                         /\ UNCHANGED <<strong, weak, memory, taken>>

UpgradeLoad(h) == /\ state[h] \in {"weak", "load"}
                  /\ reg' = [reg EXCEPT ![h] = strong]
                  /\ Become(h, IF strong = 0 THEN "fail" ELSE "cas")
                  /\ UNCHANGED <<strong, weak, memory, taken>>

Faulty_UpgradeCas(h, g) == /\ Is(h, "cas") /\ Is(g, "none")  \* a store, no cmpxchg
                           /\ strong' = reg[h] + 1
                           /\ state' = [state EXCEPT ![h] = "weak", ![g] = "strong"]
                           /\ reg' = [reg EXCEPT ![h] = 0]
                           /\ UNCHANGED <<weak, memory, taken>>

UpgradeCas(h, g) == /\ Is(h, "cas") /\ Is(g, "none") /\ strong = reg[h]
                    /\ strong' = strong + 1
                    /\ state' = [state EXCEPT ![h] = "weak", ![g] = "strong"]
                    /\ reg' = [reg EXCEPT ![h] = 0]
                    /\ UNCHANGED <<weak, memory, taken>>

UpgradeRetry(h) == /\ Is(h, "cas") /\ strong # reg[h]
                   /\ Become(h, "load")
                   /\ reg' = [reg EXCEPT ![h] = 0]
                   /\ UNCHANGED <<strong, weak, memory, taken>>

Faulty_CountLoad(h) == /\ Is(h, "weak")           \* ptrToStrong for ptrToWeak
                       /\ reg' = [reg EXCEPT ![h] = strong]
                       /\ Become(h, "count")
                       /\ UNCHANGED <<strong, weak, memory, taken>>

\* Weak.weakCount loads the weak counter first and the strong one later.
CountLoad(h) == /\ Is(h, "weak")
                /\ reg' = [reg EXCEPT ![h] = weak]
                /\ Become(h, "count")
                /\ UNCHANGED <<strong, weak, memory, taken>>

CountReturn(h) == /\ Is(h, "count")
                  /\ Become(h, "weak")
                  /\ reg' = [reg EXCEPT ![h] = 0]
                  /\ UNCHANGED <<strong, weak, memory, taken>>

Step(h) == \/ Create(h) \/ CreateCyclic(h) \/ FinishCyclic(h)
           \/ Release(h) \/ ReleaseUnwrap(h) \/ TryUnwrap(h) \/ ReadValue(h)
           \/ DropWeak(h) \/ Destroy(h)
           \/ UpgradeLoad(h) \/ UpgradeRetry(h) \/ CountLoad(h) \/ CountReturn(h)
           \/ \E g \in Handles : Retain(h, g) \/ NewWeak(h, g) \/ UpgradeCas(h, g)

Next == \E h \in Handles : Step(h)

Spec == Init /\ [][Next]_vars

-----------------------------------------------------------------------------
HandlesIn(S) == {h \in Handles : state[h] \in S}

\* Handles that still own a weak count (the last strong one until it drops it).
WeakOwners == {"weak", "load", "cas", "count", "building", "fail", "read", "drop"}

(* The counters count at every moment between two atomic accesses.  In     *)
(* particular the weak counter is the "number of weak references to this   *)
(* value" (rc.zig:592, 677) plus the share of the strong ones.             *)
Counted == /\ strong = Cardinality(HandlesIn({"strong"}))
           /\ weak = Cardinality(HandlesIn(WeakOwners)) + (IF strong > 0 THEN 1 ELSE 0)

(* No operation touches freed memory: as long as any operation has an      *)
(* access ahead of it, or anybody a reference, the memory is there; and    *)
(* once nobody has, it has been freed.                                     *)
LiveWhileReferenced == memory = "live" <=> HandlesIn(States \ {"none"}) # {}

(* Whoever deallocates is the last one: nobody else is in an operation.    *)
FreedByLast == \A h, g \in Handles : Is(h, "free") /\ g # h => Is(g, "none")

(* The value is moved out once: the arena of a message is deinited by one  *)
(* of its owners (main.zig:96, 194, 217), never by two.                    *)
TakenOnce == taken + Cardinality(HandlesIn({"read"})) <= 1

(* A Weak never counts itself out: weakCount, which loads the two counters *)
(* at different times, returns at least 1 and does not wrap around.        *)
WeakCountPositive ==
    \A h \in Handles : Is(h, "count") => (IF strong = 0 THEN reg[h] ELSE reg[h] - 1) >= 1

(* The fetch-and-add that ends initCyclic asserts that it finds 0          *)
(* (rc.zig:583): no copy of the weak pointer data_fn was given can be      *)
(* upgraded before the value exists.                                       *)
CyclicAssert == HandlesIn({"building"}) # {} => strong = 0

(* "Returns null if the inner value has since been dropped": no upgrade    *)
(* brings a dropped value back (the compare-and-swap of rc.zig:712).       *)
Dropped == memory # "none" /\ strong = 0 /\ HandlesIn({"building"}) = {}
NoResurrection == [][Dropped => strong' = 0]_vars

-----------------------------------------------------------------------------
(* Seen from outside, an operation takes effect with its access to the     *)
(* strong counter, or the weak one for a weak handle; the rest of it is    *)
(* invisible.                                                              *)
Outside == [none |-> "none", building |-> "building", strong |-> "strong",
            weak |-> "weak", load |-> "weak", cas |-> "weak", count |-> "weak",
            fail |-> "none", read |-> "none", drop |-> "none", free |-> "none"]

Holders == HandlesIn({"weak", "load", "cas", "count", "building"})

Sequential == INSTANCE Rc WITH
    state  <- [h \in Handles |-> Outside[state[h]]],
    strong <- strong,
    weak   <- Cardinality(Holders) + (IF strong > 0 THEN 1 ELSE 0),
    memory <- IF memory = "none" THEN "none"
              ELSE IF strong > 0 \/ Holders # {} THEN "live" ELSE "freed",
    taken  <- taken + Cardinality(HandlesIn({"read"}))

(* The threads cannot tell the atomic counters from the plain ones.        *)
Refinement == Sequential!Spec

-----------------------------------------------------------------------------
(* The docs forbid the use of a Weak only after release.  After a failed   *)
(* upgrade self.inner is null only if the memory was freed; otherwise the  *)
(* Weak looks as good as before but no longer owns a weak count.  (A value *)
(* still under construction in initCyclic is left aside here.)             *)

KeepAfterFail(h) == /\ Is(h, "fail") /\ weak > 1 /\ Dropped
                    /\ weak' = weak - 1
                    /\ Become(h, "weak")
                    /\ UNCHANGED <<strong, memory, taken, reg>>

KeepNext == Next \/ \E h \in Handles : KeepAfterFail(h)

KeepSpec == Init /\ [][KeepNext]_vars

=============================================================================
