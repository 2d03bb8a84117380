-------------------------------- MODULE Chan --------------------------------
(***************************************************************************)
(* BufferedChan of src/chanz.zig, thread by thread: one mutex, an array of *)
(* optional slots, and two lists of pointers to the stack frames of the    *)
(* threads that wait, each with a condition variable of its own.           *)
(*                                                                         *)
(* Everything a call does between lock and unlock is one step: all the     *)
(* state it touches is read and written by the holder of the mutex only,   *)
(* except a waiter's frame, which the waiter does not read before it is    *)
(* signalled.  What is NOT atomic with it is the wait: the mutex is        *)
(* released first (chanz.zig:124, 177) and cond.wait comes later (127,     *)
(* 180).  The signalling thread does not hold the mutex of the frame, so a *)
(* signal in between finds nobody asleep and is lost.                      *)
(*                                                                         *)
(* A Faulty_X is X with a bug a maintainer could introduce; each property  *)
(* fails when some Faulty_X takes the place of X.                          *)
(***************************************************************************)
EXTENDS Integers, Sequences

CONSTANTS Threads, Values, BufSize, NULL

ASSUME ChanAssumption ==
    /\ BufSize \in 0..255          \* comptime bufSize: u8
    /\ NULL \notin Values \cup Threads

VARIABLES op,      \* the call each thread is in
          pc,      \* where in that call it is
          data,    \* Sender.data, Receiver.data or recv's result
          mut,     \* owner of self.mut, NULL when free
          buf,     \* the slots, NULL when empty
          recvQ,   \* receivers waiting, oldest first
          sendQ,   \* senders waiting, oldest first
          closed

vars == <<op, pc, data, mut, buf, recvQ, sendQ, closed>>

Ops == {"none", "send", "recv"}

(* lock: about to lock self.mut.  body: holds it, nothing done yet.        *)
(* unlock: done, `defer self.mut.unlock` is next.  refused: append failed, *)
(* errdefer is next.  queued: frame in the list, self.mut still held.      *)
(* towait: self.mut released, cond.wait not reached.  asleep: in it.       *)
(* woken: cond.wait has returned.                                          *)
Pcs == {"idle", "lock", "body", "unlock", "refused",
        "queued", "towait", "asleep", "woken"}

Slots == 0..(BufSize - 1)
ElementsOf(q) == {q[i] : i \in 1..Len(q)}

TypeOK == /\ op \in [Threads -> Ops]
          /\ pc \in [Threads -> Pcs]
          /\ data \in [Threads -> Values \cup {NULL}]
          /\ mut \in Threads \cup {NULL}
          /\ buf \in [Slots -> Values \cup {NULL}]
          /\ recvQ \in Seq(Threads)
          /\ sendQ \in Seq(Threads)
          /\ closed \in BOOLEAN

Init == /\ op = [t \in Threads |-> "none"]
        /\ pc = [t \in Threads |-> "idle"]
        /\ data = [t \in Threads |-> NULL]
        /\ mut = NULL
        /\ buf = [i \in Slots |-> NULL]
        /\ recvQ = <<>> /\ sendQ = <<>>
        /\ closed = FALSE

\* len(): the number of leading slots that are filled.
BufLen == CHOOSE n \in 0..BufSize :
              /\ \A i \in 0..(n - 1) : buf[i] # NULL
              /\ n < BufSize => buf[n] = NULL

\* orderedRemove(0): what it leaves of a list.
Faulty_NotRemoved(q) == q                                  \* items[0] only read
Faulty_SwapRemoved(q) == IF Len(q) < 3 THEN Tail(q)        \* swapRemove(0)
                         ELSE <<q[Len(q)]>> \o SubSeq(q, 2, Len(q) - 1)
Removed(q) == Tail(q)

\* getDataAndSignal and putDataAndSignal: what they read, and their signal.
Faulty_Pointer(s) == s
DataOf(s) == data[s]

\* cond.signal() on the frame of thread w: only a sleeper notices.
Signalled(w) == IF pc[w] = "asleep" THEN "woken" ELSE pc[w]

At(t, o, p) == op[t] = o /\ pc[t] = p

-----------------------------------------------------------------------------
(* The two calls, up to their first wait. *)

CallSend(t, v) == /\ pc[t] = "idle" /\ ~closed
                  /\ op' = [op EXCEPT ![t] = "send"]
                  /\ pc' = [pc EXCEPT ![t] = "lock"]
                  /\ data' = [data EXCEPT ![t] = v]
                  /\ UNCHANGED <<mut, buf, recvQ, sendQ, closed>>

CallRecv(t) == /\ pc[t] = "idle" /\ ~closed
               /\ op' = [op EXCEPT ![t] = "recv"]
               /\ pc' = [pc EXCEPT ![t] = "lock"]
               /\ UNCHANGED <<data, mut, buf, recvQ, sendQ, closed>>

Lock(t) == /\ pc[t] = "lock" /\ mut = NULL
           /\ mut' = t
           /\ pc' = [pc EXCEPT ![t] = "body"]
           /\ UNCHANGED <<op, data, buf, recvQ, sendQ, closed>>

Faulty_SendToReceiver(t) ==     \* signals, but stores no data
    /\ At(t, "send", "body") /\ recvQ # <<>>
    /\ recvQ' = Removed(recvQ)
    /\ pc' = [pc EXCEPT ![Head(recvQ)] = Signalled(Head(recvQ)), ![t] = "unlock"]
    /\ UNCHANGED <<op, data, mut, buf, sendQ, closed>>

\* send, a receiver is waiting: put the data in its frame and signal it.
SendToReceiver(t) ==
    /\ At(t, "send", "body") /\ recvQ # <<>>
    /\ LET r == Head(recvQ) IN
       /\ recvQ' = Removed(recvQ)
       /\ data' = [data EXCEPT ![r] = data[t]]
       /\ pc' = [pc EXCEPT ![r] = Signalled(r), ![t] = "unlock"]
    /\ UNCHANGED <<op, mut, buf, sendQ, closed>>

Faulty_SendToBuffer(t) ==       \* before looking for a receiver
    /\ At(t, "send", "body") /\ BufLen < BufSize
    /\ buf' = [buf EXCEPT ![BufLen] = data[t]]
    /\ pc' = [pc EXCEPT ![t] = "unlock"]
    /\ UNCHANGED <<op, data, mut, recvQ, sendQ, closed>>

\* send, room in the buffer: fill the first empty slot.
SendToBuffer(t) ==
    /\ At(t, "send", "body") /\ recvQ = <<>> /\ BufLen < BufSize
    /\ buf' = [buf EXCEPT ![BufLen] = data[t]]
    /\ pc' = [pc EXCEPT ![t] = "unlock"]
    /\ UNCHANGED <<op, data, mut, recvQ, sendQ, closed>>

SendMustWait(t) == At(t, "send", "body") /\ recvQ = <<>> /\ BufLen = BufSize

Faulty_SendEnqueue(t) ==        \* insert(0, &sender)
    /\ SendMustWait(t)
    /\ sendQ' = <<t>> \o sendQ
    /\ pc' = [pc EXCEPT ![t] = "queued"]
    /\ UNCHANGED <<op, data, mut, buf, recvQ, closed>>

SendEnqueue(t) ==
    /\ SendMustWait(t)
    /\ sendQ' = Append(sendQ, t)
    /\ pc' = [pc EXCEPT ![t] = "queued"]
    /\ UNCHANGED <<op, data, mut, buf, recvQ, closed>>

Faulty_Shifted(last) == [i \in Slots |-> IF i = 0 THEN last ELSE buf[i]]   \* no shift

\* The slots once the oldest of the BufLen values is gone and `last` has
\* been stored behind the others: the shift, the null and the top-up.
Shifted(last) == [i \in Slots |-> CASE i < BufLen - 1 -> buf[i + 1]
                                    [] i = BufLen - 1 -> last
                                    [] OTHER          -> buf[i]]

\* recv, a value in the buffer: take it, and move a waiting sender's value in.
RecvFromBuffer(t) ==
    /\ At(t, "recv", "body") /\ BufLen > 0
    /\ data' = [data EXCEPT ![t] = buf[0]]
    /\ \/ /\ sendQ = <<>>
          /\ buf' = Shifted(NULL)
          /\ pc' = [pc EXCEPT ![t] = "unlock"]
          /\ UNCHANGED sendQ
       \/ /\ sendQ # <<>>
          /\ buf' = Shifted(DataOf(Head(sendQ)))
          /\ pc' = [pc EXCEPT ![Head(sendQ)] = Signalled(Head(sendQ)), ![t] = "unlock"]
          /\ sendQ' = Removed(sendQ)
    /\ UNCHANGED <<op, mut, recvQ, closed>>

\* recv, no buffered value but a sender is waiting: take its data.
RecvFromSender(t) ==
    /\ At(t, "recv", "body") /\ BufLen = 0 /\ sendQ # <<>>
    /\ LET s == Head(sendQ) IN
       /\ sendQ' = Removed(sendQ)
       /\ data' = [data EXCEPT ![t] = DataOf(s)]
       /\ pc' = [pc EXCEPT ![s] = Signalled(s), ![t] = "unlock"]
    /\ UNCHANGED <<op, mut, buf, recvQ, closed>>

RecvMustWait(t) == At(t, "recv", "body") /\ BufLen = 0 /\ sendQ = <<>>

RecvEnqueue(t) ==
    /\ RecvMustWait(t)
    /\ recvQ' = Append(recvQ, t)
    /\ pc' = [pc EXCEPT ![t] = "queued"]
    /\ UNCHANGED <<op, data, mut, buf, sendQ, closed>>

\* append is out of memory: error.OutOfMemory through the errdefer.
EnqueueFails(t) ==
    /\ SendMustWait(t) \/ RecvMustWait(t)
    /\ pc' = [pc EXCEPT ![t] = "refused"]
    /\ UNCHANGED <<op, data, mut, buf, recvQ, sendQ, closed>>

-----------------------------------------------------------------------------
(* Leaving: a call that did not have to wait unlocks and returns; one that *)
(* did unlocks, waits on its own condition variable, then returns.         *)

Return(t) == /\ op' = [op EXCEPT ![t] = "none"]
             /\ pc' = [pc EXCEPT ![t] = "idle"]
             /\ data' = [data EXCEPT ![t] = NULL]
             /\ UNCHANGED <<buf, recvQ, sendQ, closed>>

Faulty_UnlockReturn(t) == /\ pc[t] \in {"unlock", "refused"}    \* no errdefer
                          /\ mut' = IF pc[t] = "refused" THEN mut ELSE NULL
                          /\ Return(t)

UnlockReturn(t) == /\ pc[t] \in {"unlock", "refused"}
                   /\ mut' = NULL
                   /\ Return(t)

Unlock(t) == /\ pc[t] = "queued"
             /\ mut' = NULL
             /\ pc' = [pc EXCEPT ![t] = "towait"]
             /\ UNCHANGED <<op, data, buf, recvQ, sendQ, closed>>

Wait(t) == /\ pc[t] = "towait"
           /\ pc' = [pc EXCEPT ![t] = "asleep"]
           /\ UNCHANGED <<op, data, mut, buf, recvQ, sendQ, closed>>

\* After the wait.  recv hands out receiver.data only if there is some.
WakeReturn(t) == /\ pc[t] = "woken"
                 /\ op[t] = "recv" => data[t] # NULL
                 /\ Return(t)
                 /\ UNCHANGED mut

\* close() sets the flag without the mutex and wakes nobody.
Close == /\ closed' = TRUE
         /\ UNCHANGED <<op, pc, data, mut, buf, recvQ, sendQ>>

Body(t) == \/ SendToReceiver(t) \/ SendToBuffer(t) \/ SendEnqueue(t)
           \/ RecvFromBuffer(t) \/ RecvFromSender(t) \/ RecvEnqueue(t)
           \/ EnqueueFails(t)

Progress(t) == \/ Lock(t) \/ Body(t)
               \/ UnlockReturn(t) \/ Unlock(t) \/ Wait(t) \/ WakeReturn(t)

Call(t) == (\E v \in Values : CallSend(t, v)) \/ CallRecv(t)

Next == Close \/ \E t \in Threads : Call(t) \/ Progress(t)

Spec == Init /\ [][Next]_vars

\* A thread inside a call keeps running; nobody has to start a call.
FairSpec == Spec /\ \A t \in Threads : WF_vars(Progress(t))

-----------------------------------------------------------------------------
(* Safety *)

Holding == {"body", "unlock", "refused", "queued"}
Parked  == {"queued", "towait", "asleep"}

(* The mutex is held by exactly the thread that is between its lock and    *)
(* its unlock, on every path out of send and recv (errdefer and defer of   *)
(* chanz.zig:95, 100, 109, 134, 138, 163 and the explicit unlocks).        *)
LockOwner == \A t \in Threads : pc[t] \in Holding <=> mut = t

(* No holes: the filled slots are a prefix, so that len() counts them all  *)
(* and the shift in recv loses and duplicates nothing.                     *)
BufferPacked == \E n \in 0..BufSize : \A i \in Slots : buf[i] # NULL <=> i < n

(* Whoever waits has to: receivers wait only while there is nothing to     *)
(* receive, senders only while every slot is taken.                        *)
QueueDiscipline ==
    /\ recvQ # <<>> => sendQ = <<>> /\ \A i \in Slots : buf[i] = NULL
    /\ sendQ # <<>> => \A i \in Slots : buf[i] # NULL

(* A pointer in recvQ or sendQ points to the frame of a call that has not  *)
(* returned, each frame is queued at most once, and a receiver's frame is  *)
(* still empty: nobody writes to or reads from a dead stack frame.         *)
QueuedFramesLive ==
    /\ \A i \in 1..Len(recvQ) : /\ op[recvQ[i]] = "recv"
                                /\ pc[recvQ[i]] \in Parked
                                /\ data[recvQ[i]] = NULL
    /\ \A i \in 1..Len(sendQ) : /\ op[sendQ[i]] = "send"
                                /\ pc[sendQ[i]] \in Parked
    /\ \A i, j \in 1..Len(recvQ) : recvQ[i] = recvQ[j] => i = j
    /\ \A i, j \in 1..Len(sendQ) : sendQ[i] = sendQ[j] => i = j

(* recv comes back from its wait with data in its frame: "sender should    *)
(* have put data in .data" (chanz.zig:181), the DataCorruption branch      *)
(* below it is dead code.                                                  *)
WokenHasData == \A t \in Threads : At(t, "recv", "woken") => data[t] # NULL

-----------------------------------------------------------------------------
(* The channel its callers see. *)

Phase(t) ==
    LET of(start, parked, done, queue) ==
            IF pc[t] \in {"lock", "body"} THEN start
            ELSE IF t \in ElementsOf(queue) THEN parked ELSE done
    IN  IF pc[t] = "refused"   THEN "refused"
        ELSE IF op[t] = "none" THEN "idle"
        ELSE IF op[t] = "send" THEN of("sending", "blocked", "sent", sendQ)
                               ELSE of("receiving", "waiting", "received", recvQ)

\* The values sent and not received: the buffered ones, then those of the
\* waiting senders.
Queue == [i \in 1..(BufLen + Len(sendQ)) |->
             IF i <= BufLen THEN buf[i - 1] ELSE data[sendQ[i - BufLen]]]

Phases == [t \in Threads |-> Phase(t)]

Abstract == INSTANCE BoundedChannel WITH
    queue <- Queue, blocked <- sendQ, waiting <- recvQ, phase <- Phases, val <- data

(* The code, with its mutex, its shifting array and its parked frames,     *)
(* does only what the first-in first-out channel allows.                   *)
Refinement == Abstract!Spec

-----------------------------------------------------------------------------
(* Liveness *)

(* Whatever path a call takes, it gives the mutex back.                    *)
LockReleased == \A t \in Threads : mut = t ~> mut # t

(* No sender starves: as long as values keep being taken from waiting      *)
(* senders, each of them is reached (orderedRemove(0), chanz.zig:152, 164).*)
TakesFromSender == sendQ # <<>> /\ \E t \in Threads : RecvFromBuffer(t) \/ RecvFromSender(t)
QueuedSenderServed ==
    \A t \in Threads : []<><<TakesFromSender>>_vars
                         => (t \in ElementsOf(sendQ) ~> t \notin ElementsOf(sendQ))

(* A waiter that has been served and signalled returns: "Signal receiver   *)
(* that it's done waiting" (chanz.zig:98, 161).  The code does not keep    *)
(* this promise: see the lost wakeup above.                                *)
Served(t) == /\ pc[t] \in Parked \cup {"woken"}
             /\ t \notin ElementsOf(recvQ) \cup ElementsOf(sendQ)
ServedReturns == \A t \in Threads : Served(t) ~> ~Served(t)

-----------------------------------------------------------------------------
(* std.Thread.Condition allows cond.wait to return without a signal, and   *)
(* SleepConditionVariableSRW, which it is on the target of build.zig, does *)
(* so.  Neither wait is in a loop.  The model ends where a queued pointer  *)
(* outlives its frame: what the code does from there on is undefined.      *)

SpuriousWake(t) == /\ pc[t] = "asleep"
                   /\ pc' = [pc EXCEPT ![t] = "woken"]
                   /\ UNCHANGED <<op, data, mut, buf, recvQ, sendQ, closed>>

\* A receiver woken without data: error.DataCorruption, and the errdefer
\* unlocks self.mut a second time, whoever owns it.
RecvCorrupt(t) == /\ At(t, "recv", "woken") /\ data[t] = NULL
                  /\ mut' = NULL
                  /\ Return(t)

FramesQueued == \A t \in ElementsOf(recvQ) \cup ElementsOf(sendQ) :
                    pc[t] \in Parked \cup {"woken"}

SpuriousNext ==
    /\ FramesQueued
    /\ Next \/ \E t \in Threads : SpuriousWake(t) \/ RecvCorrupt(t)

SpuriousSpec == Init /\ [][SpuriousNext]_vars

(* A call comes back from its wait only when it has been served: recv with *)
(* data in its frame ("sender should have put data in .data", chanz.zig:   *)
(* 181), send with its value taken ("Signal sender that it's done          *)
(* waiting", 161), and neither with its frame still in a list.  The code   *)
(* keeps this promise only as long as no wakeup is spurious: otherwise     *)
(* recv returns DataCorruption, send reports success (127) for a value     *)
(* that is read later from its dead frame.                                 *)
WokenIsServed == \A t \in Threads :
    pc[t] = "woken" => t \notin ElementsOf(recvQ) \cup ElementsOf(sendQ)

=============================================================================
