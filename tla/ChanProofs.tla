----------------------------- MODULE ChanProofs -----------------------------
(***************************************************************************)
(* The safety invariants of Chan hold for every set of threads and values  *)
(* and every buffer size.  None of them is inductive alone: that a served  *)
(* receiver has data needs every sender to carry a value, that a queued    *)
(* frame is live needs each thread to be queued at most once, and the      *)
(* queue discipline needs the slots to be packed.  IInv is their           *)
(* conjunction with what a thread's data is at each point of its call.     *)
(***************************************************************************)
EXTENDS Chan, TLAPS

(* What a thread's frame holds where: nothing outside a call and before a  *)
(* recv has found a value, the value to send throughout a send.            *)
FrameData == \A t \in Threads :
    /\ op[t] = "none" <=> pc[t] = "idle"
    /\ op[t] = "none" => data[t] = NULL
    /\ op[t] = "send" => data[t] # NULL
    /\ op[t] = "recv" /\ pc[t] \in {"lock", "body"} => data[t] = NULL

IInv == /\ TypeOK
        /\ LockOwner
        /\ BufferPacked
        /\ QueueDiscipline
        /\ QueuedFramesLive
        /\ WokenHasData
        /\ FrameData

-----------------------------------------------------------------------------
(* Lemmas *)

\* The head and the tail of a nonempty list of frames.
LEMMA HeadTail ==
    ASSUME NEW q \in Seq(Threads), q # <<>>
    PROVE  /\ Len(q) \in Nat \ {0}
           /\ Head(q) \in Threads /\ Head(q) = q[1]
           /\ Tail(q) \in Seq(Threads)
           /\ Len(Tail(q)) = Len(q) - 1
           /\ \A i \in 1..Len(Tail(q)) : Tail(q)[i] = q[i + 1]
  OBVIOUS

\* A frame appended to a list.
LEMMA Appended ==
    ASSUME NEW q \in Seq(Threads), NEW t \in Threads
    PROVE  /\ Append(q, t) \in Seq(Threads)
           /\ Len(q) \in Nat
           /\ Len(Append(q, t)) = Len(q) + 1
           /\ \A i \in 1..Len(q) : Append(q, t)[i] = q[i]
           /\ Append(q, t)[Len(q) + 1] = t
  OBVIOUS

\* With the slots packed, len() counts the filled slots.
LEMMA BufLenCounts ==
    ASSUME BufferPacked
    PROVE  /\ BufLen \in 0..BufSize
           /\ \A i \in Slots : buf[i] # NULL <=> i < BufLen
<1> DEFINE IsLen(n) == /\ \A i \in 0..(n - 1) : buf[i] # NULL
                       /\ n < BufSize => buf[n] = NULL
<1>0. BufSize \in Nat
  BY ChanAssumption
<1>1. PICK n \in 0..BufSize : \A i \in Slots : buf[i] # NULL <=> i < n
  BY DEF BufferPacked
<1>2. IsLen(n)
  BY <1>0, <1>1 DEF Slots
<1>3. BufLen = CHOOSE k \in 0..BufSize : IsLen(k)
  BY DEF BufLen
<1>4. BufLen \in 0..BufSize /\ IsLen(BufLen)
  <2> HIDE DEF IsLen
  <2> QED BY <1>2, <1>3
<1>5. BufLen = n
  BY <1>0, <1>1, <1>4 DEF Slots
<1> QED BY <1>1, <1>5

-----------------------------------------------------------------------------
(* IInv is kept by every step: one lemma per action. *)

LEMMA InitIInv == Init => IInv
<1> SUFFICES ASSUME Init PROVE IInv
  OBVIOUS
<1> USE ChanAssumption DEF Init
<1>1. TypeOK
  <2>1. recvQ \in Seq(Threads) /\ sendQ \in Seq(Threads)
    OBVIOUS
  <2>2. buf \in [Slots -> Values \cup {NULL}]
    OBVIOUS
  <2> QED BY <2>1, <2>2 DEF TypeOK, Ops, Pcs
<1>2. LockOwner
  BY DEF LockOwner, Holding
<1>3. BufferPacked
  <2>1. 0 \in 0..BufSize /\ \A i \in Slots : buf[i] # NULL <=> i < 0
    BY DEF Slots
  <2> QED BY <2>1 DEF BufferPacked
<1>4. QueueDiscipline
  BY DEF QueueDiscipline
<1>5. QueuedFramesLive
  BY DEF QueuedFramesLive
<1>6. WokenHasData /\ FrameData
  BY DEF WokenHasData, FrameData, At
<1> QED BY <1>1, <1>2, <1>3, <1>4, <1>5, <1>6 DEF IInv

LEMMA CallKeeps ==
    ASSUME IInv, NEW t \in Threads, Call(t)
    PROVE  IInv'
<1> USE ChanAssumption DEF Call, CallSend, CallRecv
<1>1. TypeOK'
  <2>1. op' \in [Threads -> Ops]
    BY DEF IInv, TypeOK, Ops
  <2>2. pc' \in [Threads -> Pcs]
    BY DEF IInv, TypeOK, Pcs
  <2>3. data' \in [Threads -> Values \cup {NULL}]
    BY DEF IInv, TypeOK
  <2>4. UNCHANGED <<mut, buf, recvQ, sendQ, closed>>
    OBVIOUS
  <2> QED BY <2>1, <2>2, <2>3, <2>4 DEF IInv, TypeOK
<1>2. LockOwner'
  BY DEF IInv, TypeOK, LockOwner, Holding, At
<1>3. BufferPacked'
  BY DEF IInv, BufferPacked
<1>4. QueueDiscipline'
  BY DEF IInv, QueueDiscipline
<1>5. QueuedFramesLive'
  BY DEF IInv, TypeOK, QueuedFramesLive, Parked, At
<1>6. WokenHasData'
  BY DEF IInv, TypeOK, WokenHasData, FrameData, At
<1>7. FrameData'
  BY DEF IInv, TypeOK, FrameData, At
<1> QED BY <1>1, <1>2, <1>3, <1>4, <1>5, <1>6, <1>7 DEF IInv

LEMMA LockKeeps ==
    ASSUME IInv, NEW t \in Threads, Lock(t)
    PROVE  IInv'
<1> USE ChanAssumption DEF Lock
<1>1. TypeOK'
  BY DEF IInv, TypeOK, Ops, Pcs
<1>2. LockOwner'
  BY DEF IInv, TypeOK, LockOwner, Holding, At
<1>3. BufferPacked'
  BY DEF IInv, BufferPacked
<1>4. QueueDiscipline'
  BY DEF IInv, QueueDiscipline
<1>5. QueuedFramesLive'
  BY DEF IInv, TypeOK, QueuedFramesLive, Parked, At
<1>6. WokenHasData'
  BY DEF IInv, TypeOK, WokenHasData, FrameData, At
<1>7. FrameData'
  BY DEF IInv, TypeOK, FrameData, At
<1> QED BY <1>1, <1>2, <1>3, <1>4, <1>5, <1>6, <1>7 DEF IInv

LEMMA LeaveKeeps ==
    ASSUME IInv, NEW t \in Threads, UnlockReturn(t) \/ Unlock(t) \/ Wait(t) \/ WakeReturn(t)
    PROVE  IInv'
<1> USE ChanAssumption DEF UnlockReturn, Unlock, Wait, WakeReturn, Return
<1>1. TypeOK'
  BY DEF IInv, TypeOK, Ops, Pcs
<1>2. LockOwner'
  BY DEF IInv, TypeOK, LockOwner, Holding, At
<1>3. BufferPacked'
  BY DEF IInv, BufferPacked
<1>4. QueueDiscipline'
  BY DEF IInv, QueueDiscipline
<1>5. QueuedFramesLive'
  BY DEF IInv, TypeOK, QueuedFramesLive, Parked, At
<1>6. WokenHasData'
  BY DEF IInv, TypeOK, WokenHasData, FrameData, At
<1>7. FrameData'
  BY DEF IInv, TypeOK, FrameData, At
<1> QED BY <1>1, <1>2, <1>3, <1>4, <1>5, <1>6, <1>7 DEF IInv

LEMMA EnqueueFailsKeeps ==
    ASSUME IInv, NEW t \in Threads, EnqueueFails(t)
    PROVE  IInv'
<1> USE ChanAssumption DEF EnqueueFails, SendMustWait, RecvMustWait
<1>1. TypeOK'
  BY DEF IInv, TypeOK, Ops, Pcs
<1>2. LockOwner'
  BY DEF IInv, TypeOK, LockOwner, Holding, At
<1>3. BufferPacked'
  BY DEF IInv, BufferPacked
<1>4. QueueDiscipline'
  BY DEF IInv, QueueDiscipline
<1>5. QueuedFramesLive'
  BY DEF IInv, TypeOK, QueuedFramesLive, Parked, At
<1>6. WokenHasData'
  BY DEF IInv, TypeOK, WokenHasData, FrameData, At
<1>7. FrameData'
  BY DEF IInv, TypeOK, FrameData, At
<1> QED BY <1>1, <1>2, <1>3, <1>4, <1>5, <1>6, <1>7 DEF IInv

LEMMA CloseKeeps ==
    ASSUME IInv, Close
    PROVE  IInv'
  BY DEF Close, IInv, TypeOK, LockOwner, BufferPacked, QueueDiscipline, QueuedFramesLive,
     WokenHasData, FrameData, At

LEMMA SendToReceiverKeeps ==
    ASSUME IInv, NEW t \in Threads, SendToReceiver(t)
    PROVE  IInv'
<1> DEFINE r == Head(recvQ)
<1> USE ChanAssumption DEF SendToReceiver, Signalled, Removed, At
<1>1. /\ r \in Threads /\ r = recvQ[1] /\ recvQ \in Seq(Threads)
      /\ Len(recvQ) \in Nat \ {0}
      /\ recvQ' \in Seq(Threads) /\ Len(recvQ') = Len(recvQ) - 1
      /\ \A i \in 1..Len(recvQ') : recvQ'[i] = recvQ[i + 1]
  BY HeadTail DEF IInv, TypeOK
<1>2. /\ op[r] = "recv" /\ pc[r] \in Parked /\ data[r] = NULL /\ r # t
      /\ \A i \in 1..Len(recvQ') : recvQ'[i] # r
  BY <1>1 DEF IInv, QueuedFramesLive, Parked
<1>3. sendQ = <<>>
  BY DEF IInv, QueueDiscipline
<1>4. TypeOK'
  BY <1>1, <1>2 DEF IInv, TypeOK, Ops, Pcs
<1>5. LockOwner'
  BY <1>1, <1>2 DEF IInv, TypeOK, LockOwner, Holding, Parked
<1>6. BufferPacked'
  BY DEF IInv, BufferPacked
<1>7. QueueDiscipline'
  BY <1>3 DEF IInv, QueueDiscipline
<1>8. QueuedFramesLive'
  BY <1>1, <1>2, <1>3 DEF IInv, TypeOK, QueuedFramesLive, Parked
<1>9. WokenHasData'
  BY <1>1, <1>2 DEF IInv, TypeOK, WokenHasData, FrameData
<1>10. FrameData'
  BY <1>1, <1>2 DEF IInv, TypeOK, FrameData, Parked
<1> QED BY <1>4, <1>5, <1>6, <1>7, <1>8, <1>9, <1>10 DEF IInv

LEMMA SendToBufferKeeps ==
    ASSUME IInv, NEW t \in Threads, SendToBuffer(t)
    PROVE  IInv'
<1> USE ChanAssumption DEF SendToBuffer, At
<1>1. /\ BufLen \in 0..BufSize /\ BufLen \in Slots /\ BufLen < BufSize
      /\ \A i \in Slots : buf[i] # NULL <=> i < BufLen
  BY BufLenCounts DEF IInv, Slots
<1>2. data[t] \in Values \ {NULL}
  BY DEF IInv, TypeOK, FrameData
<1>3. buf' \in [Slots -> Values \cup {NULL}] /\ \A i \in Slots : buf'[i] # NULL <=> i < BufLen + 1
  BY <1>1, <1>2 DEF IInv, TypeOK, Slots
<1>4. TypeOK'
  BY <1>3 DEF IInv, TypeOK, Pcs
<1>5. LockOwner'
  BY DEF IInv, TypeOK, LockOwner, Holding
<1>6. BufferPacked'
  <2>1. BufLen + 1 \in 0..BufSize
    BY <1>1
  <2> QED BY <1>3, <2>1 DEF BufferPacked, Slots
<1>7. QueueDiscipline'
  BY <1>1 DEF IInv, QueueDiscipline
<1>8. QueuedFramesLive'
  BY DEF IInv, TypeOK, QueuedFramesLive, Parked
<1>9. WokenHasData' /\ FrameData'
  BY DEF IInv, TypeOK, WokenHasData, FrameData
<1> QED BY <1>4, <1>5, <1>6, <1>7, <1>8, <1>9 DEF IInv

LEMMA SendEnqueueKeeps ==
    ASSUME IInv, NEW t \in Threads, SendEnqueue(t)
    PROVE  IInv'
<1> USE ChanAssumption DEF SendEnqueue, SendMustWait, At
<1>1. /\ sendQ' \in Seq(Threads) /\ Len(sendQ) \in Nat /\ Len(sendQ') = Len(sendQ) + 1
      /\ \A i \in 1..Len(sendQ) : sendQ'[i] = sendQ[i]
      /\ sendQ'[Len(sendQ) + 1] = t
  BY Appended DEF IInv, TypeOK
<1>2. \A i \in 1..Len(sendQ) : sendQ[i] # t
  BY DEF IInv, QueuedFramesLive, Parked
<1>3. TypeOK'
  BY <1>1 DEF IInv, TypeOK, Pcs
<1>4. LockOwner'
  BY DEF IInv, TypeOK, LockOwner, Holding
<1>5. BufferPacked'
  BY DEF IInv, BufferPacked
<1>6. QueueDiscipline'
  BY BufLenCounts DEF IInv, QueueDiscipline, Slots
<1>7. QueuedFramesLive'
  BY <1>1, <1>2 DEF IInv, TypeOK, QueuedFramesLive, Parked
<1>8. WokenHasData' /\ FrameData'
  BY DEF IInv, TypeOK, WokenHasData, FrameData
<1> QED BY <1>3, <1>4, <1>5, <1>6, <1>7, <1>8 DEF IInv

LEMMA RecvFromBufferKeeps ==
    ASSUME IInv, NEW t \in Threads, RecvFromBuffer(t)
    PROVE  IInv'
<1> USE ChanAssumption DEF At
<1>1. /\ BufLen \in 1..BufSize /\ op[t] = "recv" /\ pc[t] = "body"
      /\ \A i \in Slots : buf[i] # NULL <=> i < BufLen
  BY BufLenCounts DEF IInv, RecvFromBuffer
<1>2. recvQ = <<>>
  BY <1>1 DEF IInv, QueueDiscipline, Slots
<1>3. buf[0] \in Values \ {NULL}
  BY <1>1 DEF IInv, TypeOK, Slots
<1>4. \A last \in Values \cup {NULL} :
        /\ Shifted(last) \in [Slots -> Values \cup {NULL}]
        /\ \A i \in Slots : Shifted(last)[i] # NULL
                              <=> i < (IF last = NULL THEN BufLen - 1 ELSE BufLen)
  <2> TAKE last \in Values \cup {NULL}
  <2>1. ASSUME NEW i \in Slots
        PROVE  Shifted(last)[i] = IF i < BufLen - 1 THEN buf[i + 1]
                                  ELSE IF i = BufLen - 1 THEN last ELSE buf[i]
    BY <1>1 DEF Shifted, Slots
  <2>2. ASSUME NEW i \in Slots
        PROVE  /\ Shifted(last)[i] \in Values \cup {NULL}
               /\ Shifted(last)[i] # NULL <=> i < (IF last = NULL THEN BufLen - 1 ELSE BufLen)
    BY <1>1, <2>1 DEF Slots, IInv, TypeOK
  <2>3. Shifted(last) = [i \in Slots |-> Shifted(last)[i]]
    BY DEF Shifted
  <2> QED BY <2>2, <2>3
<1>5. CASE sendQ = <<>>
  <2> USE <1>5 DEF RecvFromBuffer
  <2>1. buf' = Shifted(NULL) /\ sendQ' = <<>>
    OBVIOUS
  <2>2. TypeOK'
    BY <1>3, <1>4, <2>1 DEF IInv, TypeOK, Pcs
  <2>3. LockOwner'
    BY DEF IInv, TypeOK, LockOwner, Holding
  <2>4. BufferPacked'
    <3>1. BufLen - 1 \in 0..BufSize /\ \A i \in Slots : buf'[i] # NULL <=> i < BufLen - 1
      BY <1>1, <1>4, <2>1
    <3> QED BY <3>1 DEF BufferPacked
  <2>5. QueueDiscipline' /\ QueuedFramesLive'
    BY <1>2, <2>1 DEF QueueDiscipline, QueuedFramesLive
  <2>6. WokenHasData' /\ FrameData'
    BY <1>1 DEF IInv, TypeOK, WokenHasData, FrameData
  <2> QED BY <2>2, <2>3, <2>4, <2>5, <2>6 DEF IInv
<1>6. CASE sendQ # <<>>
  <2> DEFINE s == Head(sendQ)
  <2> USE <1>6 DEF Signalled, Removed, DataOf
  <2>1. /\ s \in Threads /\ s = sendQ[1] /\ sendQ \in Seq(Threads)
        /\ Len(sendQ) \in Nat \ {0}
        /\ sendQ' \in Seq(Threads) /\ Len(sendQ') = Len(sendQ) - 1
        /\ \A i \in 1..Len(sendQ') : sendQ'[i] = sendQ[i + 1]
    BY HeadTail DEF IInv, TypeOK, RecvFromBuffer
  <2>2. /\ op[s] = "send" /\ pc[s] \in Parked /\ s # t /\ data[s] \in Values \ {NULL}
        /\ \A i \in 1..Len(sendQ') : sendQ'[i] # s
    BY <1>1, <2>1 DEF IInv, TypeOK, QueuedFramesLive, FrameData, Parked
  <2>3. BufLen = BufSize
    BY <1>1 DEF IInv, QueueDiscipline, Slots
  <2>4. /\ buf' = Shifted(data[s]) /\ data' = [data EXCEPT ![t] = buf[0]]
        /\ pc' = [pc EXCEPT ![s] = Signalled(s), ![t] = "unlock"]
        /\ UNCHANGED <<op, mut, recvQ, closed>>
    BY DEF RecvFromBuffer
  <2>5. \A i \in Slots : buf'[i] # NULL
    BY <1>4, <2>2, <2>3, <2>4 DEF Slots
  <2>6. TypeOK'
    BY <1>3, <1>4, <2>1, <2>2, <2>4 DEF IInv, TypeOK, Pcs
  <2>7. LockOwner'
    BY <1>1, <2>1, <2>2, <2>4 DEF IInv, TypeOK, LockOwner, Holding, Parked
  <2>8. BufferPacked'
    BY <2>5 DEF BufferPacked, Slots
  <2>9. QueueDiscipline'
    BY <1>2, <2>4, <2>5 DEF QueueDiscipline
  <2>10. QueuedFramesLive'
    <3>1. \A i \in 1..Len(sendQ) : /\ op[sendQ[i]] = "send" /\ pc[sendQ[i]] \in Parked
                                   /\ sendQ[i] \in Threads /\ sendQ[i] # t
      BY <1>1, <2>1 DEF IInv, QueuedFramesLive
    <3>2. \A i, j \in 1..Len(sendQ) : sendQ[i] = sendQ[j] => i = j
      BY DEF IInv, QueuedFramesLive
    <3>3. \A u \in Threads : u # t /\ u # s => pc'[u] = pc[u]
      BY <2>4 DEF IInv, TypeOK
    <3>4. \A i \in 1..Len(sendQ') : op'[sendQ'[i]] = "send" /\ pc'[sendQ'[i]] \in Parked
      <4> TAKE i \in 1..Len(sendQ')
      <4>1. i + 1 \in 1..Len(sendQ) /\ sendQ'[i] = sendQ[i + 1] /\ sendQ'[i] # s
        BY <2>1, <2>2
      <4>2. op[sendQ'[i]] = "send" /\ pc'[sendQ'[i]] \in Parked
        BY <3>1, <3>3, <4>1
      <4> QED BY <2>4, <4>2
    <3>5. \A i, j \in 1..Len(sendQ') : sendQ'[i] = sendQ'[j] => i = j
      BY <2>1, <3>2
    <3>6. recvQ' = <<>>
      BY <1>2, <2>4
    <3> QED BY <3>4, <3>5, <3>6 DEF QueuedFramesLive
  <2>11. WokenHasData'
    BY <1>1, <1>3, <2>1, <2>2, <2>4 DEF IInv, TypeOK, WokenHasData
  <2>12. FrameData'
    BY <1>1, <1>3, <2>1, <2>2, <2>4 DEF IInv, TypeOK, FrameData, Parked, Signalled
  <2> QED BY <2>6, <2>7, <2>8, <2>9, <2>10, <2>11, <2>12 DEF IInv
<1> QED BY <1>5, <1>6

LEMMA RecvFromSenderKeeps ==
    ASSUME IInv, NEW t \in Threads, RecvFromSender(t)
    PROVE  IInv'
<1> DEFINE s == Head(sendQ)
<1> USE ChanAssumption DEF RecvFromSender, Signalled, Removed, DataOf, At
<1>1. /\ s \in Threads /\ s = sendQ[1] /\ sendQ \in Seq(Threads)
      /\ Len(sendQ) \in Nat \ {0}
      /\ sendQ' \in Seq(Threads) /\ Len(sendQ') = Len(sendQ) - 1
      /\ \A i \in 1..Len(sendQ') : sendQ'[i] = sendQ[i + 1]
  BY HeadTail DEF IInv, TypeOK
<1>2. /\ op[s] = "send" /\ pc[s] \in Parked /\ s # t /\ data[s] \in Values \ {NULL}
      /\ \A i \in 1..Len(sendQ') : sendQ'[i] # s
  BY <1>1 DEF IInv, TypeOK, QueuedFramesLive, FrameData, Parked
<1>3. recvQ = <<>>
  BY DEF IInv, QueueDiscipline
<1>4. TypeOK'
  BY <1>1, <1>2 DEF IInv, TypeOK, Pcs
<1>5. LockOwner'
  BY <1>1, <1>2 DEF IInv, TypeOK, LockOwner, Holding, Parked
<1>6. BufferPacked'
  BY DEF IInv, BufferPacked
<1>7. QueueDiscipline'
  BY <1>3 DEF IInv, QueueDiscipline
<1>8. QueuedFramesLive'
  BY <1>1, <1>2, <1>3 DEF IInv, TypeOK, QueuedFramesLive, Parked
<1>9. WokenHasData' /\ FrameData'
  BY <1>1, <1>2 DEF IInv, TypeOK, WokenHasData, FrameData, Parked
<1> QED BY <1>4, <1>5, <1>6, <1>7, <1>8, <1>9 DEF IInv

LEMMA RecvEnqueueKeeps ==
    ASSUME IInv, NEW t \in Threads, RecvEnqueue(t)
    PROVE  IInv'
<1> USE ChanAssumption DEF RecvEnqueue, RecvMustWait, At
<1>1. /\ recvQ' \in Seq(Threads) /\ Len(recvQ) \in Nat /\ Len(recvQ') = Len(recvQ) + 1
      /\ \A i \in 1..Len(recvQ) : recvQ'[i] = recvQ[i]
      /\ recvQ'[Len(recvQ) + 1] = t
  BY Appended DEF IInv, TypeOK
<1>2. \A i \in 1..Len(recvQ) : recvQ[i] # t
  BY DEF IInv, QueuedFramesLive, Parked
<1>3. TypeOK'
  BY <1>1 DEF IInv, TypeOK, Pcs
<1>4. LockOwner'
  BY DEF IInv, TypeOK, LockOwner, Holding
<1>5. BufferPacked'
  BY DEF IInv, BufferPacked
<1>6. QueueDiscipline'
  BY BufLenCounts DEF IInv, QueueDiscipline, Slots
<1>7. QueuedFramesLive'
  BY <1>1, <1>2 DEF IInv, TypeOK, QueuedFramesLive, FrameData, Parked
<1>8. WokenHasData' /\ FrameData'
  BY DEF IInv, TypeOK, WokenHasData, FrameData
<1> QED BY <1>3, <1>4, <1>5, <1>6, <1>7, <1>8 DEF IInv

-----------------------------------------------------------------------------
(* Theorems *)

(* In every run, for every number of threads and every buffer size: the    *)
(* mutex has the owner the code thinks, the buffer has no holes, nobody    *)
(* waits who need not, and every queued pointer points to a live frame.    *)
THEOREM Invariance == Spec => []IInv
<1>1. Init => IInv
  BY InitIInv
<1>2. IInv /\ [Next]_vars => IInv'
  <2> SUFFICES ASSUME IInv, [Next]_vars PROVE IInv'
    OBVIOUS
  <2>1. CASE Close
    BY <2>1, CloseKeeps
  <2>2. ASSUME NEW t \in Threads, Call(t) PROVE IInv'
    BY <2>2, CallKeeps
  <2>3. ASSUME NEW t \in Threads, Progress(t) PROVE IInv'
    BY <2>3, LockKeeps, LeaveKeeps, SendToReceiverKeeps, SendToBufferKeeps, SendEnqueueKeeps,
       RecvFromBufferKeeps, RecvFromSenderKeeps, RecvEnqueueKeeps, EnqueueFailsKeeps
       DEF Progress, Body
  <2>4. CASE UNCHANGED vars
    BY <2>4 DEF vars, IInv, TypeOK, LockOwner, BufferPacked, QueueDiscipline, QueuedFramesLive,
       WokenHasData, FrameData, At
  <2> QED BY <2>1, <2>2, <2>3, <2>4 DEF Next
<1> QED BY <1>1, <1>2, PTL DEF Spec

(* The state stays in its types. *)
THEOREM TypeCorrect == Spec => []TypeOK
<1>1. IInv => TypeOK
  BY DEF IInv
<1> QED BY <1>1, Invariance, PTL

(* The mutex is held exactly between lock and unlock, on every path.       *)
THEOREM LockOwned == Spec => []LockOwner
<1>1. IInv => LockOwner
  BY DEF IInv
<1> QED BY <1>1, Invariance, PTL

(* The filled slots are a prefix: len() counts them all, the shift in recv *)
(* loses no value and duplicates none.                                     *)
THEOREM SlotsPacked == Spec => []BufferPacked
<1>1. IInv => BufferPacked
  BY DEF IInv
<1> QED BY <1>1, Invariance, PTL

(* Receivers wait only on an empty channel, senders only on a full one.    *)
THEOREM QueuesDisciplined == Spec => []QueueDiscipline
<1>1. IInv => QueueDiscipline
  BY DEF IInv
<1> QED BY <1>1, Invariance, PTL

(* No queued pointer outlives its frame, as long as no wakeup is spurious. *)
THEOREM FramesLive == Spec => []QueuedFramesLive
<1>1. IInv => QueuedFramesLive
  BY DEF IInv
<1> QED BY <1>1, Invariance, PTL

(* A signalled receiver finds data: DataCorruption cannot be returned.     *)
THEOREM ReceivedData == Spec => []WokenHasData
<1>1. IInv => WokenHasData
  BY DEF IInv
<1> QED BY <1>1, Invariance, PTL

-----------------------------------------------------------------------------
(* Chan implements BoundedChannel, for every set of threads and values and *)
(* every buffer size: every step of the code is a step of the first-in     *)
(* first-out queue, or one its callers cannot see.  With the slots packed  *)
(* and senders waiting only when all are filled, the shifted array         *)
(* followed by the waiting frames is one queue, and a step changes it at   *)
(* one end only.                                                           *)

\* A sequence is determined by its length and its elements.
LEMMA SameSeq ==
    ASSUME NEW S, NEW p \in Seq(S), NEW q \in Seq(S),
           Len(p) = Len(q), \A i \in 1..Len(p) : p[i] = q[i]
    PROVE  p = q
  OBVIOUS

\* Who is left when the head of a list of distinct frames is removed.
LEMMA Dequeued ==
    ASSUME NEW q \in Seq(Threads), q # <<>>, \A i, j \in 1..Len(q) : q[i] = q[j] => i = j
    PROVE  /\ Head(q) \in Threads /\ Head(q) \in ElementsOf(q)
           /\ \A u : u \in ElementsOf(Tail(q)) <=> u \in ElementsOf(q) /\ u # Head(q)
<1>1. /\ Len(q) \in Nat \ {0} /\ Head(q) \in Threads /\ Head(q) = q[1]
      /\ Len(Tail(q)) = Len(q) - 1
      /\ \A i \in 1..Len(Tail(q)) : Tail(q)[i] = q[i + 1]
  BY HeadTail
<1>2. ASSUME NEW u, u \in ElementsOf(Tail(q)) PROVE u \in ElementsOf(q) /\ u # Head(q)
  BY <1>1, <1>2 DEF ElementsOf
<1>3. ASSUME NEW u, u \in ElementsOf(q), u # Head(q) PROVE u \in ElementsOf(Tail(q))
  <2>1. PICK i \in 1..Len(q) : u = q[i]
    BY <1>3 DEF ElementsOf
  <2>2. i - 1 \in 1..Len(Tail(q)) /\ Tail(q)[i - 1] = u
    BY <1>1, <1>3, <2>1
  <2> QED BY <2>2 DEF ElementsOf
<1>4. Head(q) \in ElementsOf(q)
  BY <1>1 DEF ElementsOf
<1> QED BY <1>1, <1>2, <1>3, <1>4

\* Who is there when a frame is appended.
LEMMA Enqueued ==
    ASSUME NEW q \in Seq(Threads), NEW t \in Threads
    PROVE  \A u : u \in ElementsOf(Append(q, t)) <=> u \in ElementsOf(q) \/ u = t
<1>1. /\ Len(q) \in Nat /\ Len(Append(q, t)) = Len(q) + 1
      /\ \A i \in 1..Len(q) : Append(q, t)[i] = q[i]
      /\ Append(q, t)[Len(q) + 1] = t
  BY Appended
<1>2. ASSUME NEW u, u \in ElementsOf(Append(q, t)) PROVE u \in ElementsOf(q) \/ u = t
  <2>1. PICK i \in 1..Len(Append(q, t)) : u = Append(q, t)[i]
    BY <1>2 DEF ElementsOf
  <2>2. i \in 1..Len(q) \/ i = Len(q) + 1
    BY <1>1
  <2> QED BY <1>1, <2>1, <2>2 DEF ElementsOf
<1>3. ASSUME NEW u, u \in ElementsOf(q) \/ u = t PROVE u \in ElementsOf(Append(q, t))
  <2>1. \A i \in 1..Len(q) : i \in 1..Len(Append(q, t))
    BY <1>1
  <2>2. Len(q) + 1 \in 1..Len(Append(q, t))
    BY <1>1
  <2> QED BY <1>1, <1>3, <2>1, <2>2 DEF ElementsOf
<1> QED BY <1>2, <1>3

\* The queue of values, as a sequence: its length and its elements.
QueueShape ==
    /\ BufLen \in 0..BufSize /\ Len(sendQ) \in Nat
    /\ \A i \in Slots : buf[i] # NULL <=> i < BufLen
    /\ sendQ # <<>> => BufLen = BufSize
    /\ Queue \in Seq(Values)
    /\ Len(Queue) = BufLen + Len(sendQ)
    /\ \A i \in 1..BufLen : Queue[i] = buf[i - 1]
    /\ \A i \in 1..Len(sendQ) : Queue[BufLen + i] = data[sendQ[i]]

LEMMA QueueIs == IInv => QueueShape
<1> SUFFICES ASSUME IInv PROVE QueueShape
  OBVIOUS
<1>1. BufLen \in 0..BufSize /\ \A i \in Slots : buf[i] # NULL <=> i < BufLen
  BY BufLenCounts DEF IInv
<1>2. sendQ \in Seq(Threads) /\ Len(sendQ) \in Nat
  BY DEF IInv, TypeOK
<1>3. sendQ # <<>> => BufLen = BufSize
  BY <1>1, ChanAssumption DEF IInv, QueueDiscipline, Slots
<1>4. \A i \in 1..BufLen : buf[i - 1] \in Values
  BY <1>1, ChanAssumption DEF IInv, TypeOK, Slots
<1>5. \A i \in 1..Len(sendQ) : sendQ[i] \in Threads /\ data[sendQ[i]] \in Values
  BY <1>2 DEF IInv, TypeOK, QueuedFramesLive, FrameData
<1> DEFINE n == BufLen + Len(sendQ)
           e(i) == IF i <= BufLen THEN buf[i - 1] ELSE data[sendQ[i - BufLen]]
<1>6. n \in Nat /\ \A i \in 1..n : e(i) \in Values
  BY <1>1, <1>2, <1>4, <1>5, ChanAssumption
<1>7. Queue = [i \in 1..n |-> e(i)]
  BY DEF Queue
<1>8. Queue \in Seq(Values) /\ Len(Queue) = n /\ \A i \in 1..n : Queue[i] = e(i)
  <2> HIDE DEF n, e
  <2> QED BY <1>6, <1>7
<1> QED BY <1>1, <1>2, <1>3, <1>8, ChanAssumption DEF QueueShape

\* The same after a step.
LEMMA QueueWillBe == IInv' => QueueShape'
  BY QueueIs, PTL

\* A step that touches neither slots nor senders leaves the queue alone.
LEMMA QueueKept ==
    ASSUME QueueShape, QueueShape', UNCHANGED <<buf, sendQ>>,
           \A i \in 1..Len(sendQ) : data'[sendQ[i]] = data[sendQ[i]]
    PROVE  Queue' = Queue
<1>1. BufLen' = BufLen
  BY DEF BufLen
<1>2. Queue \in Seq(Values) /\ Queue' \in Seq(Values) /\ Len(Queue') = Len(Queue)
  BY <1>1 DEF QueueShape
<1>3. ASSUME NEW i \in 1..Len(Queue') PROVE Queue'[i] = Queue[i]
  <2>1. CASE i \in 1..BufLen
    BY <1>1, <2>1 DEF QueueShape
  <2>2. CASE i - BufLen \in 1..Len(sendQ)
    <3>1. BufLen + (i - BufLen) = i
      BY DEF QueueShape
    <3> QED BY <1>1, <2>2, <3>1 DEF QueueShape
  <2> QED BY <1>1, <2>1, <2>2, ChanAssumption DEF QueueShape
<1> QED BY <1>2, <1>3, SameSeq

\* Whose frames are queued, and in which phase each call is.
LEMMA PhaseIs ==
    ASSUME IInv, NEW t \in Threads
    PROVE  /\ t \in ElementsOf(sendQ) => op[t] = "send" /\ pc[t] \in Parked
           /\ t \in ElementsOf(recvQ) => op[t] = "recv" /\ pc[t] \in Parked
           /\ Phases[t] = Phase(t)
  BY DEF IInv, QueuedFramesLive, ElementsOf, Phases

-----------------------------------------------------------------------------
(* Each step of the code is a step of the queue, or none: one lemma per    *)
(* action.                                                                 *)

LEMMA InitImplements == Init => Abstract!Init
<1> SUFFICES ASSUME Init PROVE Abstract!Init
  OBVIOUS
<1>1. QueueShape
  BY InitIInv, QueueIs
<1>2. BufLen = 0
  BY <1>1, ChanAssumption DEF Init, Slots, QueueShape
<1>3. Queue = <<>>
  BY <1>1, <1>2 DEF Init, QueueShape
<1>4. Phases = [t \in Threads |-> "idle"]
  BY DEF Init, Phases, Phase
<1> QED BY <1>3, <1>4 DEF Init, Abstract!Init

LEMMA CallImplements ==
    ASSUME IInv, IInv', NEW t \in Threads, Call(t)
    PROVE  Abstract!Step(t)
<1>1. QueueShape /\ QueueShape'
  BY QueueIs, QueueWillBe
<1>2. UNCHANGED <<buf, recvQ, sendQ, closed>> /\ pc[t] = "idle" /\ ~closed /\ op[t] = "none"
  BY DEF Call, CallSend, CallRecv, IInv, FrameData
<1>4. t \notin ElementsOf(sendQ) /\ t \notin ElementsOf(recvQ)
  BY <1>2, PhaseIs DEF Parked
<1>5. Queue' = Queue
  <2>1. \A i \in 1..Len(sendQ) : data'[sendQ[i]] = data[sendQ[i]]
    BY <1>4 DEF Call, CallSend, CallRecv, IInv, TypeOK, ElementsOf
  <2> QED BY <1>1, <1>2, <2>1, QueueKept
<1>6. Phases[t] = "idle"
  BY <1>2 DEF Phases, Phase
<1>7. CASE CallRecv(t)
  <2>1. Phases' = [Phases EXCEPT ![t] = "receiving"]
    BY <1>2, <1>7 DEF Phases, Phase, CallRecv, IInv, TypeOK
  <2> QED BY <1>2, <1>5, <1>6, <1>7, <2>1 DEF CallRecv, Abstract!Step, Abstract!CallRecv
<1>8. ASSUME NEW v \in Values, CallSend(t, v) PROVE Abstract!Step(t)
  <2>1. Phases' = [Phases EXCEPT ![t] = "sending"]
    BY <1>2, <1>8 DEF Phases, Phase, CallSend, IInv, TypeOK
  <2> QED BY <1>2, <1>5, <1>6, <1>8, <2>1 DEF CallSend, Abstract!Step, Abstract!CallSend
<1> QED BY <1>7, <1>8 DEF Call

\* Locking, unlocking and falling asleep: nothing the callers see.
LEMMA SilentImplements ==
    ASSUME IInv, IInv', NEW t \in Threads, Lock(t) \/ Unlock(t) \/ Wait(t)
    PROVE  UNCHANGED Abstract!vars
<1>1. UNCHANGED <<op, data, buf, recvQ, sendQ, closed>>
  BY DEF Lock, Unlock, Wait
<1>2. Queue' = Queue
  BY <1>1, QueueIs, QueueWillBe, QueueKept
<1>3. /\ op[t] \in {"send", "recv"}
  BY DEF Lock, Unlock, Wait, IInv, FrameData, TypeOK, Ops
<1>4. Phases' = Phases
  BY <1>1, <1>3 DEF Phases, Phase, Lock, Unlock, Wait, IInv, TypeOK
<1> QED BY <1>1, <1>2, <1>4 DEF Abstract!vars

LEMMA HandOverImplements ==
    ASSUME IInv, IInv', NEW t \in Threads, SendToReceiver(t)
    PROVE  Abstract!HandOver(t)
<1>0. PICK r : r = Head(recvQ)
  OBVIOUS
<1>1. At(t, "send", "body") /\ recvQ # <<>> /\ UNCHANGED <<op, mut, buf, sendQ, closed>>
  BY DEF SendToReceiver
<1>2. sendQ = <<>>
  BY <1>1 DEF IInv, QueueDiscipline
<1>3. Queue' = Queue
  BY <1>1, <1>2, QueueIs, QueueWillBe, QueueKept
<1>4. /\ r \in Threads /\ r \in ElementsOf(recvQ) /\ recvQ' = Tail(recvQ)
      /\ \A u : u \in ElementsOf(recvQ') <=> u \in ElementsOf(recvQ) /\ u # r
  BY <1>0, <1>1, Dequeued DEF IInv, TypeOK, QueuedFramesLive, SendToReceiver, Removed
<1>5. op[r] = "recv" /\ pc[r] \in Parked /\ r # t
  BY <1>1, <1>4, PhaseIs DEF At, Parked
<1>6. Phases' = [Phases EXCEPT ![t] = "sent", ![r] = "received"]
  <2>1. /\ pc'[t] = "unlock" /\ pc'[r] \in {"queued", "towait", "woken"}
        /\ \A u \in Threads : u # t /\ u # r => pc'[u] = pc[u]
    BY <1>0, <1>4, <1>5 DEF SendToReceiver, Signalled, Parked, IInv, TypeOK
  <2>2. t \notin ElementsOf(sendQ)
    BY <1>1, PhaseIs DEF At, Parked
  <2>3. Phase(t)' = "sent" /\ Phase(r)' = "received"
    BY <1>1, <1>4, <1>5, <2>1, <2>2 DEF Phase, At
  <2>4. ASSUME NEW u \in Threads, u # t, u # r PROVE Phase(u)' = Phase(u)
    BY <1>1, <1>4, <2>1, <2>4 DEF Phase
  <2> QED BY <1>4, <2>3, <2>4 DEF Phases
<1> QED BY <1>0, <1>1, <1>3, <1>4, <1>5, <1>6 DEF Abstract!HandOver, SendToReceiver, At, Phases, Phase

LEMMA DepositImplements ==
    ASSUME IInv, IInv', NEW t \in Threads, SendToBuffer(t)
    PROVE  Abstract!Deposit(t)
<1>1. /\ op[t] = "send" /\ pc[t] = "body" /\ recvQ = <<>> /\ BufLen < BufSize
      /\ UNCHANGED <<op, data, mut, recvQ, sendQ, closed>>
      /\ buf' = [buf EXCEPT ![BufLen] = data[t]]
  BY DEF SendToBuffer, At
<1>2. QueueShape /\ QueueShape' /\ sendQ = <<>>
  BY <1>1, QueueIs, QueueWillBe, ChanAssumption DEF QueueShape
<1>3. BufLen \in Slots /\ data[t] \in Values
  BY <1>1, <1>2, ChanAssumption DEF QueueShape, Slots, IInv, TypeOK, FrameData
<1>4. /\ \A i \in Slots : buf'[i] = IF i = BufLen THEN data[t] ELSE buf[i]
      /\ \A i \in Slots : buf'[i] # NULL <=> i < BufLen + 1
  BY <1>1, <1>2, <1>3, ChanAssumption DEF QueueShape, IInv, TypeOK, Slots
<1>5. BufLen' = BufLen + 1
  BY <1>1, <1>2, <1>4, ChanAssumption DEF QueueShape, Slots
<1>6. Queue' = Append(Queue, data[t])
  <2>1. /\ Queue' \in Seq(Values) /\ Append(Queue, data[t]) \in Seq(Values)
        /\ Len(Queue') = BufLen + 1 /\ Len(Append(Queue, data[t])) = BufLen + 1
    BY <1>1, <1>2, <1>3, <1>5 DEF QueueShape
  <2>2. ASSUME NEW i \in 1..(BufLen + 1) PROVE Queue'[i] = Append(Queue, data[t])[i]
    <3>1. i \in 1..BufLen' /\ i - 1 \in Slots
      <4>1. BufLen \in 0..BufSize
        BY <1>2 DEF QueueShape
      <4> QED BY <1>1, <1>5, <4>1, ChanAssumption DEF Slots
    <3>3. Queue'[i] = buf'[i - 1]
      BY <1>2, <3>1 DEF QueueShape
    <3>2. i <= BufLen => Queue[i] = buf[i - 1]
      BY <1>2 DEF QueueShape
    <3> QED BY <1>2, <1>3, <1>4, <3>1, <3>2, <3>3 DEF QueueShape
  <2> QED BY <2>1, <2>2, SameSeq
<1>7. Len(Queue) < BufSize
  BY <1>1, <1>2 DEF QueueShape
<1>8. Phases' = [Phases EXCEPT ![t] = "sent"] /\ Phases[t] = "sending"
  <2>1. t \notin ElementsOf(sendQ)
    BY <1>1, PhaseIs DEF Parked
  <2>2. pc' = [pc EXCEPT ![t] = "unlock"] /\ pc \in [Threads -> Pcs]
    BY DEF SendToBuffer, IInv, TypeOK
  <2>3. Phase(t)' = "sent" /\ Phase(t) = "sending"
    BY <1>1, <2>1, <2>2 DEF Phase
  <2>4. ASSUME NEW u \in Threads, u # t PROVE Phase(u)' = Phase(u)
    BY <1>1, <2>2, <2>4 DEF Phase
  <2> QED BY <2>3, <2>4 DEF Phases
<1> QED BY <1>1, <1>6, <1>7, <1>8 DEF Abstract!Deposit

LEMMA BlockImplements ==
    ASSUME IInv, IInv', NEW t \in Threads, SendEnqueue(t)
    PROVE  Abstract!Block(t)
<1>1. /\ op[t] = "send" /\ pc[t] = "body" /\ recvQ = <<>> /\ BufLen = BufSize
      /\ UNCHANGED <<op, data, mut, buf, recvQ, closed>>
      /\ sendQ' = Append(sendQ, t)
  BY DEF SendEnqueue, SendMustWait, At
<1>2. QueueShape /\ QueueShape' /\ BufLen' = BufLen
  BY <1>1, QueueIs, QueueWillBe DEF BufLen
<1>3. data[t] \in Values
  BY <1>1 DEF IInv, TypeOK, FrameData
<1>4. /\ Len(sendQ) \in Nat /\ Len(sendQ') = Len(sendQ) + 1
      /\ \A i \in 1..Len(sendQ) : sendQ'[i] = sendQ[i]
      /\ sendQ'[Len(sendQ) + 1] = t
  BY <1>1, Appended DEF IInv, TypeOK
<1>5. Queue' = Append(Queue, data[t])
  <2> DEFINE n == BufLen + Len(sendQ)
  <2>1. /\ Queue' \in Seq(Values) /\ Append(Queue, data[t]) \in Seq(Values)
        /\ Len(Queue') = n + 1 /\ Len(Append(Queue, data[t])) = n + 1
    BY <1>2, <1>3, <1>4 DEF QueueShape
  <2>2. ASSUME NEW i \in 1..(n + 1) PROVE Queue'[i] = Append(Queue, data[t])[i]
    <3>1. CASE i \in 1..BufLen
      BY <1>1, <1>2, <1>3, <1>4, <3>1 DEF QueueShape
    <3>2. CASE i - BufLen \in 1..Len(sendQ)
      <4>1. i = BufLen + (i - BufLen) /\ i - BufLen \in 1..Len(sendQ')
        BY <1>2, <1>4, <3>2 DEF QueueShape
      <4>2. Queue'[i] = data[sendQ[i - BufLen]] /\ Queue[i] = data[sendQ[i - BufLen]]
        BY <1>1, <1>2, <1>4, <3>2, <4>1 DEF QueueShape
      <4> QED BY <1>2, <1>3, <3>2, <4>2 DEF QueueShape
    <3>3. CASE i = n + 1
      <4>1. i = BufLen + Len(sendQ') /\ Len(sendQ') \in 1..Len(sendQ')
        BY <1>2, <1>4, <3>3 DEF QueueShape
      <4>2. Queue'[i] = data[t]
        BY <1>1, <1>2, <1>4, <4>1 DEF QueueShape
      <4> QED BY <1>2, <1>3, <3>3, <4>2 DEF QueueShape
    <3> QED BY <1>2, <1>4, <3>1, <3>2, <3>3 DEF QueueShape
  <2> QED BY <2>1, <2>2, SameSeq
<1>6. Len(Queue) >= BufSize
  BY <1>1, <1>2, ChanAssumption DEF QueueShape
<1>7. Phases' = [Phases EXCEPT ![t] = "blocked"] /\ Phases[t] = "sending"
  <2>1. \A u : u \in ElementsOf(sendQ') <=> u \in ElementsOf(sendQ) \/ u = t
    BY <1>1, Enqueued DEF IInv, TypeOK
  <2>2. pc' = [pc EXCEPT ![t] = "queued"] /\ pc \in [Threads -> Pcs]
    BY DEF SendEnqueue, IInv, TypeOK
  <2>3. Phase(t)' = "blocked" /\ Phase(t) = "sending"
    BY <1>1, <2>1, <2>2 DEF Phase
  <2>4. ASSUME NEW u \in Threads, u # t PROVE Phase(u)' = Phase(u)
    BY <1>1, <2>1, <2>2, <2>4 DEF Phase
  <2> QED BY <2>3, <2>4 DEF Phases
<1> QED BY <1>1, <1>5, <1>6, <1>7 DEF Abstract!Block

LEMMA WaitImplements ==
    ASSUME IInv, IInv', NEW t \in Threads, RecvEnqueue(t)
    PROVE  Abstract!Wait(t)
<1>1. /\ op[t] = "recv" /\ pc[t] = "body" /\ BufLen = 0 /\ sendQ = <<>>
      /\ UNCHANGED <<op, data, mut, buf, sendQ, closed>>
      /\ recvQ' = Append(recvQ, t)
  BY DEF RecvEnqueue, RecvMustWait, At
<1>2. Queue' = Queue /\ Queue = <<>>
  <2>1. Queue' = Queue
    BY <1>1, QueueIs, QueueWillBe, QueueKept
  <2>2. Queue \in Seq(Values) /\ Len(Queue) = 0
    BY <1>1, QueueIs DEF QueueShape
  <2> QED BY <2>1, <2>2
<1>3. Phases' = [Phases EXCEPT ![t] = "waiting"] /\ Phases[t] = "receiving"
  <2>1. \A u : u \in ElementsOf(recvQ') <=> u \in ElementsOf(recvQ) \/ u = t
    BY <1>1, Enqueued DEF IInv, TypeOK
  <2>2. pc' = [pc EXCEPT ![t] = "queued"] /\ pc \in [Threads -> Pcs]
    BY DEF RecvEnqueue, IInv, TypeOK
  <2>3. Phase(t)' = "waiting" /\ Phase(t) = "receiving"
    BY <1>1, <2>1, <2>2 DEF Phase
  <2>4. ASSUME NEW u \in Threads, u # t PROVE Phase(u)' = Phase(u)
    BY <1>1, <2>1, <2>2, <2>4 DEF Phase
  <2> QED BY <2>3, <2>4 DEF Phases
<1> QED BY <1>1, <1>2, <1>3 DEF Abstract!Wait

LEMMA RefuseImplements ==
    ASSUME IInv, IInv', NEW t \in Threads, EnqueueFails(t)
    PROVE  Abstract!Refuse(t)
<1>1. UNCHANGED <<op, data, mut, buf, recvQ, sendQ, closed>> /\ pc[t] = "body"
  BY DEF EnqueueFails, SendMustWait, RecvMustWait, At
<1>2. Queue' = Queue /\ QueueShape
  BY <1>1, QueueIs, QueueWillBe, QueueKept
<1>3. Phases' = [Phases EXCEPT ![t] = "refused"]
  BY <1>1 DEF Phases, Phase, EnqueueFails, IInv, TypeOK
<1>4. CASE SendMustWait(t)
  <2>1. recvQ = <<>> /\ Len(Queue) >= BufSize
    BY <1>2, <1>4, ChanAssumption DEF SendMustWait, QueueShape
  <2>2. Phases[t] = "sending"
    BY <1>4 DEF Phases, Phase, SendMustWait, At
  <2> QED BY <1>1, <1>2, <1>3, <2>1, <2>2 DEF Abstract!Refuse
<1>5. CASE RecvMustWait(t)
  <2>1. Queue = <<>>
    BY <1>2, <1>5 DEF RecvMustWait, QueueShape
  <2>2. Phases[t] = "receiving"
    BY <1>5 DEF Phases, Phase, RecvMustWait, At
  <2> QED BY <1>1, <1>2, <1>3, <2>1, <2>2 DEF Abstract!Refuse
<1> QED BY <1>4, <1>5 DEF EnqueueFails

LEMMA ReturnImplements ==
    ASSUME IInv, IInv', NEW t \in Threads, UnlockReturn(t) \/ WakeReturn(t)
    PROVE  Abstract!Return(t)
<1>1. /\ pc[t] \in {"unlock", "refused", "woken"} /\ UNCHANGED <<buf, recvQ, sendQ, closed>>
      /\ pc' = [pc EXCEPT ![t] = "idle"] /\ op' = [op EXCEPT ![t] = "none"]
      /\ data' = [data EXCEPT ![t] = NULL]
  BY DEF UnlockReturn, WakeReturn, Return
<1>2. t \notin ElementsOf(sendQ) /\ t \notin ElementsOf(recvQ)
  BY <1>1, PhaseIs DEF Parked
<1>3. Queue' = Queue
  <2>1. \A i \in 1..Len(sendQ) : data'[sendQ[i]] = data[sendQ[i]]
    BY <1>1, <1>2 DEF IInv, TypeOK, ElementsOf
  <2> QED BY <1>1, <2>1, QueueIs, QueueWillBe, QueueKept
<1>4. op[t] \in {"send", "recv"}
  BY <1>1 DEF IInv, TypeOK, FrameData, Ops
<1>5. Phases[t] \in {"sent", "received", "refused"}
  BY <1>1, <1>2, <1>4 DEF Phases, Phase
<1>6. Phases' = [Phases EXCEPT ![t] = "idle"]
  BY <1>1 DEF Phases, Phase, IInv, TypeOK
<1> QED BY <1>1, <1>3, <1>5, <1>6 DEF Abstract!Return

LEMMA CloseImplements ==
    ASSUME IInv, IInv', Close
    PROVE  Abstract!Close
<1>1. UNCHANGED <<op, pc, data, buf, recvQ, sendQ>> /\ closed' = TRUE
  BY DEF Close
<1>2. Queue' = Queue
  BY <1>1, QueueIs, QueueWillBe, QueueKept
<1>3. Phases' = Phases
  BY <1>1 DEF Phases, Phase
<1> QED BY <1>1, <1>2, <1>3 DEF Abstract!Close

\* recv: a value of the buffer, or of the oldest waiting sender.
LEMMA TakeImplements ==
    ASSUME IInv, IInv', NEW t \in Threads, RecvFromBuffer(t) \/ RecvFromSender(t)
    PROVE  Abstract!Take(t)
<1>1. /\ op[t] = "recv" /\ pc[t] = "body" /\ UNCHANGED <<op, mut, recvQ, closed>>
      /\ BufLen = 0 => sendQ # <<>>
  BY DEF RecvFromBuffer, RecvFromSender, At
<1>2. QueueShape /\ QueueShape'
  BY QueueIs, QueueWillBe
<1>3. pc \in [Threads -> Pcs] /\ data \in [Threads -> Values \cup {NULL}]
      /\ sendQ \in Seq(Threads) /\ buf \in [Slots -> Values \cup {NULL}]
  BY DEF IInv, TypeOK
<1>4. t \notin ElementsOf(sendQ) /\ t \notin ElementsOf(recvQ)
  BY <1>1, PhaseIs DEF Parked
<1>5. Queue # <<>>
  BY <1>1, <1>2 DEF QueueShape
<1>6. Phases[t] = "receiving"
  BY <1>1 DEF Phases, Phase
<1>7. CASE sendQ = <<>>
  <2>1. /\ BufLen \in 1..BufSize /\ buf' = Shifted(NULL) /\ sendQ' = sendQ
        /\ data' = [data EXCEPT ![t] = buf[0]] /\ pc' = [pc EXCEPT ![t] = "unlock"]
    BY <1>1, <1>2, <1>7 DEF RecvFromBuffer, RecvFromSender, QueueShape
  <2>2. \A i \in Slots : buf'[i] = IF i < BufLen - 1 THEN buf[i + 1]
                                   ELSE IF i = BufLen - 1 THEN NULL ELSE buf[i]
    BY <1>2, <2>1, ChanAssumption DEF Shifted, Slots, QueueShape
  <2>3. BufLen' = BufLen - 1
    <3>1. ASSUME NEW i \in Slots PROVE buf'[i] # NULL <=> i < BufLen - 1
      <4>1. i \in Nat /\ BufLen \in Nat /\ (i < BufLen - 1 => i + 1 \in Slots)
        BY <2>1, ChanAssumption DEF Slots
      <4>2. \A j \in Slots : buf[j] # NULL <=> j < BufLen
        BY <1>2 DEF QueueShape
      <4> QED BY <2>2, <4>1, <4>2
    <3> QED BY <1>2, <2>1, <3>1, ChanAssumption DEF Slots, QueueShape
  <2>4. Queue' = Tail(Queue)
    <3>1. /\ Queue' \in Seq(Values) /\ Tail(Queue) \in Seq(Values)
          /\ Len(Queue') = BufLen - 1 /\ Len(Tail(Queue)) = BufLen - 1
      BY <1>2, <1>5, <1>7, <2>1, <2>3 DEF QueueShape
    <3>2. ASSUME NEW i \in 1..(BufLen - 1) PROVE Queue'[i] = Tail(Queue)[i]
      <4>1. /\ i - 1 \in Slots /\ i - 1 < BufLen - 1 /\ (i - 1) + 1 = i
            /\ i \in 1..BufLen' /\ i + 1 \in 1..BufLen /\ (i + 1) - 1 = i
        BY <2>1, <2>3, ChanAssumption DEF Slots
      <4>2. Queue'[i] = buf'[i - 1] /\ Queue[i + 1] = buf[i]
        BY <1>2, <4>1 DEF QueueShape
      <4>3. buf'[i - 1] = buf[i]
        BY <2>2, <4>1
      <4>4. Tail(Queue)[i] = Queue[i + 1]
        BY <1>2, <1>5, <3>1, <4>1 DEF QueueShape
      <4> QED BY <4>2, <4>3, <4>4
    <3> QED BY <3>1, <3>2, SameSeq
  <2>5. Head(Queue) = buf[0]
    BY <1>2, <1>5, <2>1 DEF QueueShape
  <2>6. Phases' = [Phases EXCEPT ![t] = "received"]
    <3>1. Phase(t)' = "received"
      BY <1>1, <1>3, <1>4, <2>1 DEF Phase
    <3>2. ASSUME NEW u \in Threads, u # t PROVE Phase(u)' = Phase(u)
      BY <1>1, <1>3, <2>1, <3>2 DEF Phase
    <3> QED BY <3>1, <3>2 DEF Phases
  <2> QED BY <1>1, <1>5, <1>6, <1>7, <2>1, <2>4, <2>5, <2>6 DEF Abstract!Take
<1>8. CASE sendQ # <<>>
  <2>1. PICK s : s = Head(sendQ)
    OBVIOUS
  <2>2. /\ s \in Threads /\ s \in ElementsOf(sendQ) /\ sendQ' = Tail(sendQ)
        /\ \A u : u \in ElementsOf(sendQ') <=> u \in ElementsOf(sendQ) /\ u # s
    BY <1>1, <1>8, <2>1, Dequeued
       DEF IInv, TypeOK, QueuedFramesLive, RecvFromBuffer, RecvFromSender, Removed
  <2>3. op[s] = "send" /\ pc[s] \in Parked /\ s # t
    BY <1>4, <2>2, PhaseIs
  <2>4. /\ pc'[t] = "unlock" /\ pc'[s] \in {"queued", "towait", "woken"}
        /\ \A u \in Threads : u # t /\ u # s => pc'[u] = pc[u]
    BY <1>3, <1>8, <2>1, <2>2, <2>3 DEF RecvFromBuffer, RecvFromSender, Signalled, Parked
  <2>5. /\ Len(sendQ) \in Nat \ {0} /\ s = sendQ[1] /\ Len(sendQ') = Len(sendQ) - 1
        /\ \A i \in 1..Len(sendQ') : sendQ'[i] = sendQ[i + 1]
    BY <1>3, <1>8, <2>1, <2>2, HeadTail
  <2>6. BufLen = BufSize
    BY <1>2, <1>8 DEF QueueShape
  <2>7. data[s] \in Values \ {NULL}
    BY <2>2, <2>3 DEF IInv, TypeOK, FrameData
  <2>8. /\ data' = [data EXCEPT ![t] = Head(Queue)]
        /\ BufLen' = BufSize
        /\ \A i \in 1..BufSize : buf'[i - 1] = IF i = BufSize THEN data[s] ELSE buf[i]
    <3>1. BufLen \in Nat /\ BufSize \in Nat /\ Head(Queue) = Queue[1]
      BY <1>2, <1>5, ChanAssumption DEF QueueShape
    <3>2. CASE BufLen = 0
      <4>1. Queue[1] = data[s]
        <5>1. Queue[BufLen + 1] = data[sendQ[1]]
          BY <1>2, <2>5 DEF QueueShape
        <5> QED BY <2>5, <3>2, <5>1
      <4>2. data' = [data EXCEPT ![t] = data[s]]
        BY <2>1, <3>2 DEF RecvFromBuffer, RecvFromSender, DataOf
      <4>3. BufLen' = BufSize
        BY <1>2, <2>6, <3>2 DEF QueueShape
      <4>4. \A i \in 1..BufSize : FALSE
        BY <2>6, <3>2
      <4>5. \A i \in 1..BufSize : buf'[i - 1] = IF i = BufSize THEN data[s] ELSE buf[i]
        BY <4>4
      <4> QED BY <3>1, <4>1, <4>2, <4>3, <4>5
    <3>3. CASE BufLen > 0
      <4>1. data' = [data EXCEPT ![t] = buf[0]] /\ buf' = Shifted(data[s])
        BY <1>8, <2>1, <3>3 DEF RecvFromBuffer, RecvFromSender, DataOf
      <4>2. Queue[1] = buf[0]
        BY <1>2, <3>1, <3>3 DEF QueueShape
      <4>3. \A i \in Slots : buf'[i] = IF i = BufSize - 1 THEN data[s] ELSE buf[i + 1]
        BY <2>6, <3>1, <4>1 DEF Shifted, Slots
      <4>4. BufLen' = BufSize
        <5>1. ASSUME NEW i \in Slots PROVE buf'[i] # NULL
          <6>1. i + 1 \in Slots \/ i = BufSize - 1
            BY <3>1 DEF Slots
          <6>2. \A j \in Slots : buf[j] # NULL
            BY <1>2, <2>6, <3>1 DEF QueueShape, Slots
          <6> QED BY <2>7, <4>3, <6>1, <6>2
        <5>2. BufLen' \in 0..BufSize /\ \A i \in Slots : buf'[i] # NULL <=> i < BufLen'
          BY <1>2 DEF QueueShape
        <5> QED BY <3>1, <5>1, <5>2 DEF Slots
      <4>5. ASSUME NEW i \in 1..BufSize
            PROVE  buf'[i - 1] = IF i = BufSize THEN data[s] ELSE buf[i]
        <5>1. i - 1 \in Slots /\ (i - 1) + 1 = i /\ (i - 1 = BufSize - 1 <=> i = BufSize)
          BY <3>1 DEF Slots
        <5> QED BY <4>3, <5>1
      <4> QED BY <3>1, <4>1, <4>2, <4>4, <4>5
    <3> QED BY <3>1, <3>2, <3>3
  <2>9. Queue' = Tail(Queue)
    <3> DEFINE n == BufSize + Len(sendQ)
    <3>1. BufSize \in Nat
      BY ChanAssumption
    <3>2. /\ Queue' \in Seq(Values) /\ Tail(Queue) \in Seq(Values)
          /\ Len(Queue') = n - 1 /\ Len(Tail(Queue)) = n - 1
          /\ \A i \in 1..(n - 1) : Tail(Queue)[i] = Queue[i + 1]
      BY <1>2, <1>5, <2>5, <2>6, <2>8, <3>1 DEF QueueShape
    <3>3. ASSUME NEW i \in 1..(n - 1) PROVE Queue'[i] = Queue[i + 1]
      <4>1. CASE i < BufSize
        <5>1. i \in 1..BufLen' /\ i + 1 \in 1..BufLen /\ (i + 1) - 1 = i /\ i \in 1..BufSize
          BY <2>6, <2>8, <3>1, <4>1
        <5>2. Queue'[i] = buf'[i - 1] /\ Queue[i + 1] = buf[i]
          BY <1>2, <5>1 DEF QueueShape
        <5> QED BY <2>8, <4>1, <5>1, <5>2
      <4>2. CASE i = BufSize
        <5>1. Queue'[i] = buf'[i - 1] /\ i \in 1..BufSize
          BY <1>2, <2>8, <3>1, <4>2 DEF QueueShape
        <5>2. Queue[BufLen + 1] = data[sendQ[1]]
          BY <1>2, <2>5 DEF QueueShape
        <5> QED BY <2>5, <2>6, <2>8, <4>2, <5>1, <5>2
      <4>3. CASE i > BufSize
        <5> DEFINE k == i - BufSize
        <5>1. /\ k \in 1..Len(sendQ') /\ k + 1 \in 1..Len(sendQ)
              /\ BufLen' + k = i /\ BufLen + (k + 1) = i + 1
          BY <2>5, <2>6, <2>8, <3>1, <4>3
        <5>2. Queue'[i] = data'[sendQ'[k]] /\ Queue[i + 1] = data[sendQ[k + 1]]
          <6> HIDE DEF k
          <6> QED BY <1>2, <5>1 DEF QueueShape
        <5>3. sendQ'[k] = sendQ[k + 1] /\ sendQ[k + 1] # t
          BY <1>4, <2>5, <5>1 DEF ElementsOf
        <5>4. sendQ[k + 1] \in Threads
          BY <1>3, <5>1
        <5> QED BY <1>3, <2>8, <5>2, <5>3, <5>4
      <4> QED BY <3>1, <4>1, <4>2, <4>3
    <3> QED BY <3>2, <3>3, SameSeq
  <2>10. Phases' = [Phases EXCEPT ![t] = "received", ![s] = "sent"]
    <3>1. Phase(t)' = "received" /\ Phase(s)' = "sent"
      BY <1>1, <1>4, <2>2, <2>3, <2>4 DEF Phase
    <3>2. ASSUME NEW u \in Threads, u # t, u # s PROVE Phase(u)' = Phase(u)
      BY <1>1, <2>2, <2>4, <3>2 DEF Phase
    <3> QED BY <2>2, <3>1, <3>2 DEF Phases
  <2> QED BY <1>1, <1>5, <1>6, <1>8, <2>1, <2>2, <2>8, <2>9, <2>10 DEF Abstract!Take
<1> QED BY <1>7, <1>8

-----------------------------------------------------------------------------
(* Theorem *)

(* The code, with its mutex, its shifting array and its parked frames, does *)
(* only what the first-in first-out channel of BoundedChannel allows.       *)
THEOREM ImplementsChannel == Spec => Refinement
<1>1. Init => Abstract!Init
  BY InitImplements
<1>2. IInv /\ IInv' /\ [Next]_vars => [Abstract!Next]_(Abstract!vars)
  <2> SUFFICES ASSUME IInv, IInv', [Next]_vars PROVE [Abstract!Next]_(Abstract!vars)
    OBVIOUS
  <2>1. CASE Close
    BY <2>1, CloseImplements DEF Abstract!Next
  <2>2. ASSUME NEW t \in Threads, Call(t) PROVE Abstract!Next
    BY <2>2, CallImplements DEF Abstract!Next
  <2>3. ASSUME NEW t \in Threads, Progress(t) PROVE [Abstract!Next]_(Abstract!vars)
    BY <2>3, SilentImplements, ReturnImplements, HandOverImplements, DepositImplements,
       BlockImplements, TakeImplements, WaitImplements, RefuseImplements
       DEF Progress, Body, Abstract!Next, Abstract!Step
  <2>4. CASE UNCHANGED vars
    <3>1. Queue' = Queue
      BY <2>4 DEF vars, Queue, BufLen
    <3>2. Phases' = Phases
      BY <2>4 DEF vars, Phases, Phase
    <3> QED BY <2>4, <3>1, <3>2 DEF vars, Abstract!vars
  <2> QED BY <2>1, <2>2, <2>3, <2>4 DEF Next
<1> QED BY <1>1, <1>2, Invariance, PTL DEF Spec, Refinement, Abstract!Spec

=============================================================================
