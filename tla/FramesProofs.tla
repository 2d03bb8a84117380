---------------------------- MODULE FramesProofs ----------------------------
(***************************************************************************)
(* The arenas of the frames are counted right, read only while they live   *)
(* and lost only by a failed hand-over, for every number of frames and     *)
(* whatever the peer sends.  The count alone says nothing about the other  *)
(* side: that a release by one task does not take the reference of another *)
(* needs that a reply is received by one task only (OneReceiver), and that *)
(* no task takes an event for a reply (Placed).                            *)
(***************************************************************************)
EXTENDS Frames, TLAPS

(* Where the second reference is, given how far the reader is.             *)
Placed == \A m \in Ids :
    /\ reader[m] \in {"none", "parse"} => other[m] = "none" /\ m \notin leaked
    /\ reader[m] = "pass" => other[m] = "made" /\ m \notin leaked
    /\ other[m] = "made" => reader[m] = "pass"
    /\ reader[m] = "blocked" => other[m] = "passed" /\ Meaning(frame[m]) = "reply"
    /\ m \in leaked => other[m] = "done"
    /\ other[m] = "done" \/ other[m] = "used" => reader[m] \notin {"none", "parse", "pass", "blocked"}
    /\ at[m] # "none" => other[m] = "used" /\ Meaning(frame[m]) = "message"

(* A reply that has been received is held by its receiver, and by no other. *)
OneReceiver ==
    /\ \A t \in Ids : IF at[t] \in {"read", "drop"}
                      THEN /\ reply[t] \in Ids /\ other[reply[t]] = "used"
                           /\ Meaning(frame[reply[t]]) = "reply"
                      ELSE reply[t] = NULL
    /\ \A t, u \in Ids : reply[t] = reply[u] /\ reply[t] # NULL => t = u

(* An arena is live exactly while it is counted.                           *)
LiveCounted == \A m \in Ids :
    /\ arena[m] = "live" <=> refs[m] > 0
    /\ arena[m] = "none" <=> reader[m] = "none"

(* A task at work has a request left.                                      *)
RequestLeft == \A t \in Ids : at[t] \in {"write", "wait", "read"} => step[t] <= Len(Plan(t))

IInv == /\ TypeOK
        /\ Counted
        /\ Placed
        /\ OneReceiver
        /\ LiveCounted
        /\ RequestLeft

USE DEF Become

\* No command costs more than two requests.
LEMMA PlanLength == ASSUME NEW t PROVE Len(Plan(t)) \in 0..2
  BY DEF Plan, Requests

\* The request a task is at is one of its plan.
LEMMA StepInRange ==
    ASSUME IInv, NEW t \in Ids, at[t] \in {"write", "wait", "read"}
    PROVE  step[t] \in Steps /\ step[t] <= Len(Plan(t))
<1>1. step[t] \in 1..3
  BY DEF IInv, TypeOK
<1> DEFINE n == Len(Plan(t))
<1>2. step[t] <= n
  BY DEF IInv, RequestLeft
<1>3. n \in 0..2
  BY PlanLength
<1> HIDE DEF n
<1>4. step[t] \in Steps
  BY <1>1, <1>2, <1>3 DEF Steps
<1> QED BY <1>2, <1>4 DEF n

LEMMA InitIInv == Init => IInv
<1> SUFFICES ASSUME Init PROVE IInv
  OBVIOUS
<1> USE DEF Init
<1>1. TypeOK
  BY DEF TypeOK
<1>2. Counted
  BY DEF Counted, One, ReaderHolds, OtherHolds
<1>3. Placed /\ OneReceiver /\ LiveCounted /\ RequestLeft
  BY DEF Placed, OneReceiver, LiveCounted, RequestLeft
<1> QED BY <1>1, <1>2, <1>3 DEF IInv

LEMMA ReceiveKeeps ==
    ASSUME IInv, process = "up", NEW m \in Ids, NEW f \in Inputs,
           NEW r \in asked \cup {NULL}, Receive(m, f, r)
    PROVE  IInv'
<1> USE DEF Receive, task
<1>1. TypeOK'
  BY DEF IInv, TypeOK
<1>2. Counted'
  BY DEF IInv, TypeOK, Counted, One, ReaderHolds, OtherHolds, Placed
<1>3. Placed'
  BY DEF IInv, TypeOK, Placed
<1>4. OneReceiver'
  BY DEF IInv, TypeOK, OneReceiver, Placed
<1>5. LiveCounted'
  BY DEF IInv, TypeOK, LiveCounted
<1>6. RequestLeft'
  BY DEF IInv, TypeOK, RequestLeft, Plan, Placed
<1> QED BY <1>1, <1>2, <1>3, <1>4, <1>5, <1>6 DEF IInv

LEMMA ParseFailsKeeps ==
    ASSUME IInv, process = "up", NEW m \in Ids, ParseFails(m)
    PROVE  IInv'
<1> USE DEF ParseFails, task
<1>1. TypeOK'
  BY PlanLength DEF IInv, TypeOK, Counted, One, ReaderHolds, OtherHolds, Placed, OneReceiver,
         RequestLeft, Steps
<1>2. Counted'
  BY DEF IInv, TypeOK, Counted, One, ReaderHolds, OtherHolds, Placed, OneReceiver
<1>3. Placed'
  BY DEF IInv, TypeOK, Placed, OneReceiver
<1>4. OneReceiver'
  BY DEF IInv, TypeOK, OneReceiver, Placed
<1>5. LiveCounted'
  BY DEF IInv, TypeOK, LiveCounted, Counted, One, ReaderHolds, OtherHolds, Placed, OneReceiver
<1>6. RequestLeft'
  BY DEF IInv, TypeOK, RequestLeft, Plan, Placed
<1> QED BY <1>1, <1>2, <1>3, <1>4, <1>5, <1>6 DEF IInv

LEMMA IgnoreKeeps ==
    ASSUME IInv, process = "up", NEW m \in Ids, Ignore(m)
    PROVE  IInv'
<1> USE DEF Ignore, task
<1>1. TypeOK'
  BY PlanLength DEF IInv, TypeOK, Counted, One, ReaderHolds, OtherHolds, Placed, OneReceiver,
         RequestLeft, Steps
<1>2. Counted'
  BY DEF IInv, TypeOK, Counted, One, ReaderHolds, OtherHolds, Placed, OneReceiver
<1>3. Placed'
  BY DEF IInv, TypeOK, Placed, OneReceiver
<1>4. OneReceiver'
  BY DEF IInv, TypeOK, OneReceiver, Placed
<1>5. LiveCounted'
  BY DEF IInv, TypeOK, LiveCounted, Counted, One, ReaderHolds, OtherHolds, Placed, OneReceiver
<1>6. RequestLeft'
  BY DEF IInv, TypeOK, RequestLeft, Plan, Placed
<1> QED BY <1>1, <1>2, <1>3, <1>4, <1>5, <1>6 DEF IInv

LEMMA RetainKeeps ==
    ASSUME IInv, process = "up", NEW m \in Ids, Retain(m)
    PROVE  IInv'
<1> USE DEF Retain, task
<1>1. TypeOK'
  BY PlanLength DEF IInv, TypeOK, Counted, One, ReaderHolds, OtherHolds, Placed, OneReceiver,
         RequestLeft, Steps
<1>2. Counted'
  BY DEF IInv, TypeOK, Counted, One, ReaderHolds, OtherHolds, Placed, OneReceiver
<1>3. Placed'
  BY DEF IInv, TypeOK, Placed, OneReceiver
<1>4. OneReceiver'
  BY DEF IInv, TypeOK, OneReceiver, Placed
<1>5. LiveCounted'
  BY DEF IInv, TypeOK, LiveCounted, Counted, One, ReaderHolds, OtherHolds, Placed, OneReceiver
<1>6. RequestLeft'
  BY DEF IInv, TypeOK, RequestLeft, Plan, Placed
<1> QED BY <1>1, <1>2, <1>3, <1>4, <1>5, <1>6 DEF IInv

LEMMA HandOverKeeps ==
    ASSUME IInv, process = "up", NEW m \in Ids, HandOver(m)
    PROVE  IInv'
<1> USE DEF HandOver, task
<1>1. TypeOK'
  BY PlanLength DEF IInv, TypeOK, Counted, One, ReaderHolds, OtherHolds, Placed, OneReceiver,
         RequestLeft, Steps
<1>2. Counted'
  BY DEF IInv, TypeOK, Counted, One, ReaderHolds, OtherHolds, Placed, OneReceiver
<1>3. Placed'
  BY DEF IInv, TypeOK, Placed, OneReceiver
<1>4. OneReceiver'
  BY DEF IInv, TypeOK, OneReceiver, Placed
<1>5. LiveCounted'
  BY DEF IInv, TypeOK, LiveCounted, Counted, One, ReaderHolds, OtherHolds, Placed, OneReceiver
<1>6. RequestLeft'
  BY DEF IInv, TypeOK, RequestLeft, Plan, Placed
<1> QED BY <1>1, <1>2, <1>3, <1>4, <1>5, <1>6 DEF IInv

LEMMA HandOverFailsKeeps ==
    ASSUME IInv, process = "up", NEW m \in Ids, HandOverFails(m)
    PROVE  IInv'
<1> USE DEF HandOverFails, task
<1>1. TypeOK'
  BY PlanLength DEF IInv, TypeOK, Counted, One, ReaderHolds, OtherHolds, Placed, OneReceiver,
         RequestLeft, Steps
<1>2. Counted'
  BY DEF IInv, TypeOK, Counted, One, ReaderHolds, OtherHolds, Placed, OneReceiver
<1>3. Placed'
  BY DEF IInv, TypeOK, Placed, OneReceiver
<1>4. OneReceiver'
  BY DEF IInv, TypeOK, OneReceiver, Placed
<1>5. LiveCounted'
  BY DEF IInv, TypeOK, LiveCounted, Counted, One, ReaderHolds, OtherHolds, Placed, OneReceiver
<1>6. RequestLeft'
  BY DEF IInv, TypeOK, RequestLeft, Plan, Placed
<1> QED BY <1>1, <1>2, <1>3, <1>4, <1>5, <1>6 DEF IInv

LEMMA ReaderReleasesKeeps ==
    ASSUME IInv, process = "up", NEW m \in Ids, ReaderReleases(m)
    PROVE  IInv'
<1> USE DEF ReaderReleases, task, Release
<1>0. refs[m] \in Nat \ {0}
  BY DEF IInv, TypeOK, Counted, One, ReaderHolds, OtherHolds, Placed
<1>1. TypeOK'
  BY <1>0 DEF IInv, TypeOK
<1>2. Counted'
  BY DEF IInv, TypeOK, Counted, One, ReaderHolds, OtherHolds, Placed, OneReceiver
<1>3. Placed'
  BY DEF IInv, TypeOK, Placed, OneReceiver
<1>4. OneReceiver'
  BY DEF IInv, TypeOK, OneReceiver, Placed
<1>5. LiveCounted'
  BY DEF IInv, TypeOK, LiveCounted, Counted, One, ReaderHolds, OtherHolds, Placed, OneReceiver
<1>6. RequestLeft'
  BY DEF IInv, TypeOK, RequestLeft, Plan, Placed
<1> QED BY <1>1, <1>2, <1>3, <1>4, <1>5, <1>6 DEF IInv

LEMMA StartKeeps ==
    ASSUME IInv, process = "up", NEW m \in Ids, Start(m)
    PROVE  IInv'
<1> USE DEF Start, task, WriteOrEnd
<1>1. TypeOK'
  BY PlanLength DEF IInv, TypeOK, Counted, One, ReaderHolds, OtherHolds, Placed, OneReceiver,
         RequestLeft, Steps
<1>2. Counted'
  BY DEF IInv, TypeOK, Counted, One, ReaderHolds, OtherHolds, Placed, OneReceiver
<1>3. Placed'
  BY DEF IInv, TypeOK, Placed, OneReceiver
<1>4. OneReceiver'
  BY DEF IInv, TypeOK, OneReceiver, Placed
<1>5. LiveCounted'
  BY DEF IInv, TypeOK, LiveCounted, Counted, One, ReaderHolds, OtherHolds, Placed, OneReceiver
<1>6. RequestLeft'
  BY DEF IInv, TypeOK, RequestLeft, Plan, Placed
<1> QED BY <1>1, <1>2, <1>3, <1>4, <1>5, <1>6 DEF IInv

LEMMA WriteKeeps ==
    ASSUME IInv, process = "up", NEW m \in Ids, Write(m)
    PROVE  IInv'
<1> USE DEF Write, task
<1>0. step[m] \in Steps
  BY StepInRange
<1>1. TypeOK'
  BY <1>0 DEF IInv, TypeOK
<1>2. Counted'
  BY DEF IInv, TypeOK, Counted, One, ReaderHolds, OtherHolds, Placed, OneReceiver
<1>3. Placed'
  BY DEF IInv, TypeOK, Placed, OneReceiver
<1>4. OneReceiver'
  BY DEF IInv, TypeOK, OneReceiver, Placed
<1>5. LiveCounted'
  BY DEF IInv, TypeOK, LiveCounted, Counted, One, ReaderHolds, OtherHolds, Placed, OneReceiver
<1>6. RequestLeft'
  BY DEF IInv, TypeOK, RequestLeft, Plan, Placed
<1> QED BY <1>1, <1>2, <1>3, <1>4, <1>5, <1>6 DEF IInv

LEMMA FailKeeps ==
    ASSUME IInv, process = "up", NEW m \in Ids, Fail(m)
    PROVE  IInv'
<1> USE DEF Fail, task
<1>1. TypeOK'
  BY PlanLength DEF IInv, TypeOK, Counted, One, ReaderHolds, OtherHolds, Placed, OneReceiver,
         RequestLeft, Steps
<1>2. Counted'
  BY DEF IInv, TypeOK, Counted, One, ReaderHolds, OtherHolds, Placed, OneReceiver
<1>3. Placed'
  BY DEF IInv, TypeOK, Placed, OneReceiver
<1>4. OneReceiver'
  BY DEF IInv, TypeOK, OneReceiver, Placed
<1>5. LiveCounted'
  BY DEF IInv, TypeOK, LiveCounted, Counted, One, ReaderHolds, OtherHolds, Placed, OneReceiver
<1>6. RequestLeft'
  BY DEF IInv, TypeOK, RequestLeft, Plan, Placed
<1> QED BY <1>1, <1>2, <1>3, <1>4, <1>5, <1>6 DEF IInv

LEMMA DropKeeps ==
    ASSUME IInv, process = "up", NEW m \in Ids, Drop(m)
    PROVE  IInv'
<1> DEFINE r == reply[m]
<1> USE DEF Drop, task, Release, WriteOrEnd
<1>d. r \in Ids /\ other[r] = "used" /\ Meaning(frame[r]) = "reply"
  BY DEF IInv, OneReceiver
<1>e. Meaning(frame[m]) = "message"
  BY DEF IInv, Placed
<1>f. r # NULL /\ r # m
  BY <1>d, <1>e, FramesAssumption
<1>a. /\ r \in Ids /\ r # m /\ other[r] = "used"
      /\ \A u \in Ids : u # m => reply[u] # r
      /\ r # NULL
  BY <1>d, <1>f DEF IInv, OneReceiver
<1> HIDE DEF r
<1>g. r \notin leaked
  BY <1>d DEF IInv, Placed
<1>b. refs[r] = One(ReaderHolds(r)) + 1
  BY <1>d, <1>g DEF IInv, Counted, One, OtherHolds
<1>c. /\ refs' = [refs EXCEPT ![r] = refs[r] - 1]
      /\ arena' = IF refs[r] = 1 THEN [arena EXCEPT ![r] = "freed"] ELSE arena
      /\ other' = [other EXCEPT ![r] = "done"]
  BY DEF r
<1>1. TypeOK'
  BY <1>a, <1>b, <1>c DEF IInv, TypeOK, One
<1>2. Counted'
  <2> SUFFICES ASSUME NEW n \in Ids
               PROVE  refs'[n] = One(ReaderHolds(n)') + One(OtherHolds(n)') + One(n \in leaked')
    BY DEF Counted
  <2>1. CASE n = r
    BY <2>1, <1>a, <1>b, <1>c, <1>g DEF IInv, TypeOK, One, ReaderHolds, OtherHolds
  <2>2. CASE n # r
    BY <2>2, <1>a, <1>c DEF IInv, TypeOK, Counted, One, ReaderHolds, OtherHolds
  <2> QED BY <2>1, <2>2
<1>3. Placed'
  BY <1>a, <1>c, <1>d, <1>g DEF IInv, TypeOK, Placed
<1>4. OneReceiver'
  BY <1>a, <1>c DEF IInv, TypeOK, OneReceiver
<1>5. LiveCounted'
  BY <1>a, <1>b, <1>c DEF IInv, TypeOK, LiveCounted, One
<1>6. RequestLeft'
  BY DEF IInv, TypeOK, RequestLeft, Plan
<1> QED BY <1>1, <1>2, <1>3, <1>4, <1>5, <1>6 DEF IInv

LEMMA EndKeeps ==
    ASSUME IInv, process = "up", NEW m \in Ids, End(m)
    PROVE  IInv'
<1> USE DEF End, task, Release
<1>0. refs[m] \in Nat \ {0}
  BY DEF IInv, TypeOK, Counted, One, ReaderHolds, OtherHolds, Placed
<1>1. TypeOK'
  BY <1>0 DEF IInv, TypeOK
<1>2. Counted'
  BY DEF IInv, TypeOK, Counted, One, ReaderHolds, OtherHolds, Placed, OneReceiver
<1>3. Placed'
  BY DEF IInv, TypeOK, Placed, OneReceiver
<1>4. OneReceiver'
  BY DEF IInv, TypeOK, OneReceiver, Placed
<1>5. LiveCounted'
  BY DEF IInv, TypeOK, LiveCounted, Counted, One, ReaderHolds, OtherHolds, Placed, OneReceiver
<1>6. RequestLeft'
  BY DEF IInv, TypeOK, RequestLeft, Plan, Placed
<1> QED BY <1>1, <1>2, <1>3, <1>4, <1>5, <1>6 DEF IInv

LEMMA DeliverKeeps ==
    ASSUME IInv, process = "up", NEW m \in Ids, NEW t \in Ids, Deliver(m, t)
    PROVE  IInv'
<1> USE DEF Deliver, task
<1>1. TypeOK'
  BY DEF IInv, TypeOK
<1>2. Counted'
  BY DEF IInv, TypeOK, Counted, One, ReaderHolds, OtherHolds, Placed
<1>3. Placed'
  BY DEF IInv, TypeOK, Placed
<1>4. OneReceiver'
  BY FramesAssumption DEF IInv, TypeOK, OneReceiver, Placed
<1>5. LiveCounted'
  BY DEF IInv, TypeOK, LiveCounted
<1>6. RequestLeft'
  BY DEF IInv, TypeOK, RequestLeft, Plan
<1> QED BY <1>1, <1>2, <1>3, <1>4, <1>5, <1>6 DEF IInv

LEMMA ReadKeeps ==
    ASSUME IInv, process = "up", NEW m \in Ids, Read(m)
    PROVE  IInv'
<1> USE DEF Read
<1>0. step[m] \in Steps /\ step[m] <= Len(Plan(m)) /\ reply[m] \in Ids
  BY StepInRange DEF IInv, OneReceiver
<1>1. CASE Mine(m) /\ Outcome(m) = "panic"
  <2>1. /\ process' = reply[m]
        /\ UNCHANGED <<frame, answers, reader, other, refs, arena, leaked, at, step, asked, reply>>
    <3>1. process' = reply[m] /\ UNCHANGED task
      BY <1>1
    <3>2. UNCHANGED <<at, step, asked, reply>>
      BY <3>1 DEF task
    <3>3. UNCHANGED <<frame, answers, reader, other, refs, arena, leaked>>
      OBVIOUS
    <3> QED BY <3>1, <3>2, <3>3
  <2>2. TypeOK'
    BY <1>0, <2>1 DEF IInv, TypeOK
  <2>3. Counted' /\ LiveCounted'
    BY <2>1 DEF IInv, Counted, One, ReaderHolds, OtherHolds, LiveCounted
  <2>4. Placed' /\ OneReceiver' /\ RequestLeft'
    BY <2>1 DEF IInv, Placed, OneReceiver, RequestLeft, Plan
  <2> QED BY <2>2, <2>3, <2>4 DEF IInv
<1>2. CASE ~(Mine(m) /\ Outcome(m) = "panic")
  <2>1. /\ at' = [at EXCEPT ![m] = "drop"]
        /\ step' = [step EXCEPT ![m] = IF Mine(m) /\ Outcome(m) = "ok" THEN step[m] + 1 ELSE 3]
        /\ UNCHANGED <<frame, answers, reader, other, refs, arena, leaked, asked, reply, process>>
    BY <1>2
  <2>2. TypeOK'
    BY <1>0, <2>1 DEF IInv, TypeOK, Steps
  <2>3. Counted' /\ LiveCounted'
    BY <2>1 DEF IInv, Counted, One, ReaderHolds, OtherHolds, LiveCounted
  <2>4. Placed' /\ OneReceiver' /\ RequestLeft'
    BY <2>1 DEF IInv, TypeOK, Placed, OneReceiver, RequestLeft, Plan
  <2> QED BY <2>2, <2>3, <2>4 DEF IInv
<1> QED BY <1>1, <1>2

LEMMA ReaderPanicsKeeps ==
    ASSUME IInv, process = "up", NEW m \in Ids, ReaderPanics(m)
    PROVE  IInv'
<1> USE DEF ReaderPanics, task
<1>1. TypeOK'
  BY DEF IInv, TypeOK
<1>2. Counted' /\ LiveCounted'
  BY DEF IInv, Counted, One, ReaderHolds, OtherHolds, LiveCounted
<1>3. Placed' /\ OneReceiver' /\ RequestLeft'
  BY DEF IInv, Placed, OneReceiver, RequestLeft, Plan
<1> QED BY <1>1, <1>2, <1>3 DEF IInv

LEMMA AppendFailsKeeps ==
    ASSUME IInv, process = "up", NEW m \in Ids, AppendFails(m)
    PROVE  IInv'
<1> USE DEF AppendFails, task
<1>1. TypeOK'
  BY DEF IInv, TypeOK
<1>2. Counted' /\ LiveCounted'
  BY DEF IInv, Counted, One, ReaderHolds, OtherHolds, LiveCounted
<1>3. Placed' /\ OneReceiver' /\ RequestLeft'
  BY DEF IInv, Placed, OneReceiver, RequestLeft, Plan
<1> QED BY <1>1, <1>2, <1>3 DEF IInv

LEMMA StartPanicsKeeps ==
    ASSUME IInv, process = "up", NEW m \in Ids, StartPanics(m)
    PROVE  IInv'
<1> USE DEF StartPanics, task
<1>1. TypeOK'
  BY DEF IInv, TypeOK
<1>2. Counted' /\ LiveCounted'
  BY DEF IInv, Counted, One, ReaderHolds, OtherHolds, LiveCounted
<1>3. Placed' /\ OneReceiver' /\ RequestLeft'
  BY DEF IInv, Placed, OneReceiver, RequestLeft, Plan
<1> QED BY <1>1, <1>2, <1>3 DEF IInv

LEMMA NextIInv == IInv /\ [Next]_vars => IInv'
<1> SUFFICES ASSUME IInv, [Next]_vars PROVE IInv'
  OBVIOUS
<1>1. CASE UNCHANGED vars
  BY <1>1 DEF vars, task, IInv, TypeOK, Counted, One, ReaderHolds, OtherHolds, Placed,
              OneReceiver, LiveCounted, RequestLeft, Plan
<1>2. CASE Next
  <2>1. PICK m \in Ids : process = "up" /\ (ReaderStep(m) \/ TaskStep(m))
    BY <1>2 DEF Next
  <2>2. CASE ReaderStep(m)
    BY <2>1, <2>2, ReceiveKeeps, ParseFailsKeeps, IgnoreKeeps, RetainKeeps, ReaderPanicsKeeps,
       AppendFailsKeeps, HandOverKeeps, HandOverFailsKeeps, ReaderReleasesKeeps DEF ReaderStep
  <2>3. CASE TaskStep(m)
    BY <2>1, <2>3, StartKeeps, StartPanicsKeeps, WriteKeeps, FailKeeps, DeliverKeeps, ReadKeeps,
       DropKeeps, EndKeeps DEF TaskStep
  <2> QED BY <2>1, <2>2, <2>3
<1> QED BY <1>1, <1>2 DEF vars

-----------------------------------------------------------------------------
(* The results. *)

(* IInv holds in every reachable state of Frames, whatever arrives in      *)
(* clientMessage and however its tasks interleave.                         *)
THEOREM Invariance == Spec => []IInv
  BY InitIInv, NextIInv, PTL DEF Spec

(* The state of readers, tasks and arenas stays in its types; no count     *)
(* becomes negative.                                                       *)
THEOREM TypeCorrect == Spec => []TypeOK
<1>1. IInv => TypeOK
  BY DEF IInv
<1> QED BY <1>1, Invariance, PTL

(* The strong count of each arena is the number of its holders, plus one   *)
(* for each send or spawn that failed.                                     *)
THEOREM ArenasCounted == Spec => []Counted
<1>1. IInv => Counted
  BY DEF IInv
<1> QED BY <1>1, Invariance, PTL

(* Reader and tasks read only arenas that are live.                        *)
THEOREM NothingReadAfterFree == Spec => []ReadsLive
<1>1. IInv => ReadsLive
  BY DEF IInv, TypeOK, ReadsLive, Counted, One, ReaderHolds, OtherHolds, Placed, OneReceiver,
         LiveCounted
<1> QED BY <1>1, Invariance, PTL

(* Only a frame whose send or spawn failed leaves its arena behind.        *)
THEOREM LeaksAreFailures == Spec => []OnlyFailuresLeak
<1>1. IInv => OnlyFailuresLeak
  BY DEF IInv, TypeOK, OnlyFailuresLeak, Counted, One, ReaderHolds, OtherHolds, LiveCounted
<1> QED BY <1>1, Invariance, PTL

-----------------------------------------------------------------------------
(* Frames implements Rc, once for each arena: reader and task are its two  *)
(* handles, and what a failed hand-over leaves behind is one that nobody   *)
(* releases.  A step changes the share of one side of one arena, or of     *)
(* none; that it is the share of the side that takes the step is in        *)
(* Placed and OneReceiver.                                                 *)

Theirs(k) == OtherHolds(k) \/ k \in leaked

Share(b) == IF b THEN "strong" ELSE "none"

\* The handles of the arena of k, as Rc sees them.
Shares(k) == [h \in {"reader", "other"} |->
                 Share(IF h = "reader" THEN ReaderHolds(k) ELSE Theirs(k))]

LEMMA SharesAre ==
    ASSUME NEW k \in Ids, NEW h \in {"reader", "other"}, NEW s
    PROVE  /\ Memory(k)!Is(h, s) <=> Shares(k)[h] = s
           /\ Shares(k)' = [Shares(k) EXCEPT ![h] = s] => Memory(k)!Become(h, s)
  BY DEF Memory!Is, Memory!Become, Shares, Theirs, Share

\* A step that touches neither share, nor count, nor memory.
LEMMA Apart ==
    ASSUME NEW k \in Ids,
           ReaderHolds(k)' <=> ReaderHolds(k), Theirs(k)' <=> Theirs(k),
           refs'[k] = refs[k], arena'[k] = arena[k]
    PROVE  [Memory(k)!Next]_(Memory(k)!vars)
<1>1. UNCHANGED Memory(k)!vars
  BY DEF Memory!vars, Theirs
<1> QED BY <1>1

LEMMA CreateImplements ==
    ASSUME NEW k \in Ids, ~ReaderHolds(k), ReaderHolds(k)', ~Theirs(k), ~Theirs(k)',
           arena[k] = "none", arena'[k] = "live", refs'[k] = 1
    PROVE  Memory(k)!Next
<1>1. Shares(k)' = [Shares(k) EXCEPT !["reader"] = "strong"]
  BY DEF Shares, Share
<1>2. Memory(k)!Become("reader", "strong")
  BY <1>1, SharesAre
<1>3. One(arena[k] = "freed")' = One(arena[k] = "freed") /\ One(refs[k] > 0)' = 1
  BY DEF One
<1>4. Memory(k)!Create("reader")
  BY <1>2, <1>3 DEF Memory!Create
<1> QED BY <1>4 DEF Memory!Next, Memory!Step

LEMMA RetainImplements ==
    ASSUME NEW k \in Ids, ReaderHolds(k), ReaderHolds(k)', ~Theirs(k), Theirs(k)',
           refs[k] \in Nat, refs[k] > 0, refs'[k] = refs[k] + 1, arena'[k] = arena[k]
    PROVE  Memory(k)!Next
<1>1. /\ Shares(k)["reader"] = "strong" /\ Shares(k)["other"] = "none"
      /\ Shares(k)' = [Shares(k) EXCEPT !["other"] = "strong"]
  BY DEF Shares, Share
<1>2. /\ Memory(k)!Is("reader", "strong") /\ Memory(k)!Is("other", "none")
      /\ Memory(k)!Become("other", "strong")
  BY <1>1, SharesAre
<1>3. One(refs[k] > 0)' = One(refs[k] > 0) /\ One(arena[k] = "freed")' = One(arena[k] = "freed")
  BY DEF One
<1>4. Memory(k)!Retain("reader", "other")
  BY <1>2, <1>3 DEF Memory!Retain
<1> QED BY <1>4 DEF Memory!Next, Memory!Step

LEMMA ReleaseImplements ==
    ASSUME NEW k \in Ids, NEW h \in {"reader", "other"},
           Shares(k)[h] = "strong", Shares(k)' = [Shares(k) EXCEPT ![h] = "none"],
           refs[k] \in Nat, refs[k] > 0, arena[k] = "live", refs'[k] = refs[k] - 1,
           arena'[k] = IF refs[k] = 1 THEN "freed" ELSE "live"
    PROVE  Memory(k)!Next
<1>1. Memory(k)!Is(h, "strong") /\ Memory(k)!Become(h, "none")
  BY SharesAre
<1>2. CASE refs[k] > 1
  <2>1. One(refs[k] > 0)' = One(refs[k] > 0)
    BY <1>2 DEF One
  <2>2. One(arena[k] = "freed")' = One(arena[k] = "freed") /\ arena'[k] = arena[k]
    BY <1>2 DEF One
  <2>3. Memory(k)!ReleaseShared(h)
    BY <1>1, <1>2, <2>1, <2>2 DEF Memory!ReleaseShared
  <2> QED BY <2>3 DEF Memory!Next, Memory!Step, Memory!Release
<1>3. CASE refs[k] = 1
  <2>1. One(refs[k] > 0) = 1 /\ One(refs[k] > 0)' = 0
    BY <1>3 DEF One
  <2>2. One(arena[k] = "freed") = 0 /\ One(arena[k] = "freed")' = 1 /\ arena'[k] = "freed"
    BY <1>3 DEF One
  <2>3. Memory(k)!ReleaseLast(h, 1)
    BY <1>1, <1>3, <2>1, <2>2 DEF Memory!ReleaseLast, Memory!DropWeak
  <2> QED BY <2>3 DEF Memory!Next, Memory!Step, Memory!ReleaseUnwrap
<1> QED BY <1>2, <1>3

\* What IInv says of one arena.
LEMMA ArenaSays ==
    ASSUME IInv, NEW k \in Ids
    PROVE  /\ refs[k] \in Nat /\ (arena[k] = "live" <=> refs[k] > 0)
           /\ ReaderHolds(k) \/ Theirs(k) => refs[k] > 0
           /\ OtherHolds(k) => k \notin leaked
           /\ reader[k] = "none" => ~Theirs(k) /\ arena[k] = "none"
           /\ reader[k] = "parse" => ~Theirs(k)
  BY DEF IInv, TypeOK, Counted, One, Placed, LiveCounted, ReaderHolds, OtherHolds, Theirs

(* Each step that gives back a reference, for the arena it is about.       *)

LEMMA ReaderReleasesOwn ==
    ASSUME IInv, NEW m \in Ids, ReaderReleases(m), NEW k \in Ids
    PROVE  [Memory(k)!Next]_(Memory(k)!vars)
<1> USE DEF IInv, TypeOK, ReaderReleases, Release
<1>1. CASE k = m
  <2>1. ReaderHolds(k) /\ ~ReaderHolds(k)' /\ (Theirs(k)' <=> Theirs(k))
    BY <1>1 DEF ReaderHolds, OtherHolds, Theirs
  <2>2. Shares(k)["reader"] = "strong" /\ Shares(k)' = [Shares(k) EXCEPT !["reader"] = "none"]
    BY <2>1 DEF Shares, Share
  <2>3. refs[k] \in Nat /\ refs[k] > 0 /\ arena[k] = "live"
    BY <2>1, ArenaSays
  <2>4. refs'[k] = refs[k] - 1 /\ arena'[k] = IF refs[k] = 1 THEN "freed" ELSE "live"
    BY <1>1, <2>3
  <2> QED BY <2>2, <2>3, <2>4, ReleaseImplements
<1>2. CASE k # m
  <2>1. refs'[k] = refs[k] /\ arena'[k] = arena[k]
    BY <1>2
  <2>2. (ReaderHolds(k)' <=> ReaderHolds(k)) /\ (Theirs(k)' <=> Theirs(k))
    BY <1>2 DEF ReaderHolds, OtherHolds, Theirs
  <2> QED BY <2>1, <2>2, Apart
<1> QED BY <1>1, <1>2

LEMMA OtherReleasesOwn ==
    ASSUME IInv, NEW m \in Ids, NEW k \in Ids,
           other[m] = "used", Release(m), other' = [other EXCEPT ![m] = "done"],
           UNCHANGED <<reader, leaked>>
    PROVE  [Memory(k)!Next]_(Memory(k)!vars)
<1> USE DEF IInv, TypeOK, Release
<1>1. CASE k = m
  <2>1. k \notin leaked /\ Theirs(k) /\ ~Theirs(k)' /\ (ReaderHolds(k)' <=> ReaderHolds(k))
    BY <1>1, ArenaSays DEF ReaderHolds, OtherHolds, Theirs
  <2>2. Shares(k)["other"] = "strong" /\ Shares(k)' = [Shares(k) EXCEPT !["other"] = "none"]
    BY <2>1 DEF Shares, Share
  <2>3. refs[k] \in Nat /\ refs[k] > 0 /\ arena[k] = "live"
    BY <2>1, ArenaSays
  <2>4. refs'[k] = refs[k] - 1 /\ arena'[k] = IF refs[k] = 1 THEN "freed" ELSE "live"
    BY <1>1, <2>3
  <2> QED BY <2>2, <2>3, <2>4, ReleaseImplements
<1>2. CASE k # m
  <2>1. refs'[k] = refs[k] /\ arena'[k] = arena[k]
    BY <1>2
  <2>2. (ReaderHolds(k)' <=> ReaderHolds(k)) /\ (Theirs(k)' <=> Theirs(k))
    BY <1>2 DEF ReaderHolds, OtherHolds, Theirs
  <2> QED BY <2>1, <2>2, Apart
<1> QED BY <1>1, <1>2

LEMMA ReaderImplements ==
    ASSUME IInv, NEW m \in Ids, ReaderStep(m), NEW k \in Ids
    PROVE  [Memory(k)!Next]_(Memory(k)!vars)
<1> USE DEF IInv, TypeOK
<1>1. ASSUME NEW f \in Inputs, NEW r \in asked \cup {NULL}, Receive(m, f, r)
      PROVE  [Memory(k)!Next]_(Memory(k)!vars)
  <2> USE <1>1 DEF Receive
  <2>1. CASE k = m
    <3>1. ~ReaderHolds(k) /\ ReaderHolds(k)' /\ ~Theirs(k) /\ ~Theirs(k)' /\ arena[k] = "none"
      BY <2>1, ArenaSays DEF ReaderHolds, OtherHolds, Theirs
    <3> QED BY <2>1, <3>1, CreateImplements
  <2>2. CASE k # m
    <3>1. (ReaderHolds(k)' <=> ReaderHolds(k)) /\ (Theirs(k)' <=> Theirs(k))
      BY <2>2 DEF ReaderHolds, OtherHolds, Theirs
    <3> QED BY <2>2, <3>1, Apart
  <2> QED BY <2>1, <2>2
<1>2. CASE Retain(m)
  <2> USE <1>2 DEF Retain
  <2>1. CASE k = m
    <3>1. ReaderHolds(k) /\ ReaderHolds(k)' /\ ~Theirs(k) /\ Theirs(k)' /\ refs[k] > 0
      BY <2>1, ArenaSays DEF ReaderHolds, OtherHolds, Theirs
    <3> QED BY <2>1, <3>1, RetainImplements
  <2>2. CASE k # m
    <3>1. (ReaderHolds(k)' <=> ReaderHolds(k)) /\ (Theirs(k)' <=> Theirs(k))
      BY <2>2 DEF ReaderHolds, OtherHolds, Theirs
    <3> QED BY <2>2, <3>1, Apart
  <2> QED BY <2>1, <2>2
<1>3. CASE ParseFails(m) \/ Ignore(m) \/ ReaderPanics(m) \/ AppendFails(m)
  <2>1. (ReaderHolds(k)' <=> ReaderHolds(k)) /\ (Theirs(k)' <=> Theirs(k))
    BY <1>3 DEF ParseFails, Ignore, ReaderPanics, AppendFails, ReaderHolds, OtherHolds, Theirs
  <2>2. refs' = refs /\ arena' = arena
    BY <1>3 DEF ParseFails, Ignore, ReaderPanics, AppendFails
  <2> QED BY <2>1, <2>2, Apart
<1>4. CASE HandOver(m) \/ HandOverFails(m)
  <2>1. other[m] = "made"
    BY <1>4 DEF HandOver, HandOverFails, Placed
  <2>2. (ReaderHolds(k)' <=> ReaderHolds(k)) /\ (Theirs(k)' <=> Theirs(k))
    BY <1>4, <2>1 DEF HandOver, HandOverFails, ReaderHolds, OtherHolds, Theirs
  <2>3. refs' = refs /\ arena' = arena
    BY <1>4 DEF HandOver, HandOverFails
  <2> QED BY <2>2, <2>3, Apart
<1>5. CASE ReaderReleases(m)
  BY <1>5, ReaderReleasesOwn
<1> QED BY <1>1, <1>2, <1>3, <1>4, <1>5 DEF ReaderStep

LEMMA TaskImplements ==
    ASSUME IInv, NEW t \in Ids, TaskStep(t), NEW k \in Ids
    PROVE  [Memory(k)!Next]_(Memory(k)!vars)
<1> USE DEF IInv, TypeOK
<1>1. CASE Start(t) \/ StartPanics(t) \/ Write(t) \/ Fail(t) \/ Read(t)
  <2>1. (ReaderHolds(k)' <=> ReaderHolds(k)) /\ (Theirs(k)' <=> Theirs(k))
    BY <1>1 DEF Start, StartPanics, Write, Fail, Read, ReaderHolds, OtherHolds, Theirs
  <2>2. refs' = refs /\ arena' = arena
    BY <1>1 DEF Start, StartPanics, Write, Fail, Read
  <2> QED BY <2>1, <2>2, Apart
<1>2. ASSUME NEW m \in Ids, Deliver(m, t) PROVE [Memory(k)!Next]_(Memory(k)!vars)
  <2>1. other[m] = "passed"
    BY <1>2 DEF Deliver, Placed
  <2>2. (ReaderHolds(k)' <=> ReaderHolds(k)) /\ (Theirs(k)' <=> Theirs(k))
    BY <1>2, <2>1 DEF Deliver, ReaderHolds, OtherHolds, Theirs
  <2>3. refs' = refs /\ arena' = arena
    BY <1>2 DEF Deliver
  <2> QED BY <2>2, <2>3, Apart
<1>3. CASE Drop(t)
  <2>1. reply[t] \in Ids /\ other[reply[t]] = "used"
    BY <1>3 DEF Drop, OneReceiver
  <2> QED BY <1>3, <2>1, OtherReleasesOwn DEF Drop
<1>4. CASE End(t)
  <2>1. other[t] = "used"
    BY <1>4 DEF End, Placed
  <2> QED BY <1>4, <2>1, OtherReleasesOwn DEF End
<1> QED BY <1>1, <1>2, <1>3, <1>4 DEF TaskStep

(* The arena of each frame is a reference count as Rc describes it: each   *)
(* side of clientMessage, and of a failed hand-over nobody, releases its   *)
(* own reference, once, and retains only from one it holds.                *)
THEOREM ArenasImplementRc == Spec => ImplementsRc
<1>1. Init => NoReferences
  <2> SUFFICES ASSUME Init, NEW k \in Ids PROVE Memory(k)!Init
    BY DEF NoReferences
  <2>1. ~ReaderHolds(k) /\ ~OtherHolds(k) /\ k \notin leaked
    BY DEF Init, ReaderHolds, OtherHolds
  <2>2. refs[k] = 0 /\ arena[k] = "none" /\ One(refs[k] > 0) = 0 /\ One(arena[k] = "freed") = 0
    BY DEF Init, One
  <2> QED BY <2>1, <2>2 DEF Memory!Init
<1>2. IInv /\ [Next]_vars => [ReferenceStep]_vars
  BY ReaderImplements, TaskImplements DEF Next, ReferenceStep
<1> QED BY <1>1, <1>2, Invariance, PTL DEF Spec, ImplementsRc

=============================================================================
