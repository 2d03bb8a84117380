--------------------------- MODULE BoundedChannel ---------------------------
(***************************************************************************)
(* What the channel of src/chanz.zig promises its callers, with no mutex,  *)
(* no condition variable and no buffer array: a first-in first-out queue.  *)
(* `queue` holds every value whose send has taken effect and which nobody  *)
(* has received.  Its first BufSize values are the buffered ones; each     *)
(* value beyond them belongs to a sender that is still blocked in send.    *)
(* Chan.tla is shown to implement this module.                             *)
(***************************************************************************)
EXTENDS Integers, Sequences

CONSTANTS Threads,  \* the threads that share the channel
          Values,   \* what is sent: RetWrapper in the bot
          BufSize,  \* comptime bufSize of BufferedChan; 0 for Chan(T)
          NULL      \* no value

VARIABLES queue,    \* values sent and not yet received, oldest first
          blocked,  \* threads whose send waits for a receiver, oldest first
          waiting,  \* threads whose recv waits for a sender, oldest first
          phase,    \* how far the call of each thread has got
          val,      \* the value a thread sends or has received
          closed    \* close has been called

vars == <<queue, blocked, waiting, phase, val, closed>>

Phases == {"idle", "sending", "blocked", "sent",
           "receiving", "waiting", "received", "refused"}

TypeOK == /\ queue \in Seq(Values)
          /\ blocked \in Seq(Threads)
          /\ waiting \in Seq(Threads)
          /\ phase \in [Threads -> Phases]
          /\ val \in [Threads -> Values \cup {NULL}]
          /\ closed \in BOOLEAN

Init == /\ queue = <<>> /\ blocked = <<>> /\ waiting = <<>>
        /\ phase = [t \in Threads |-> "idle"]
        /\ val = [t \in Threads |-> NULL]
        /\ closed = FALSE

\* A call starts.  On a closed channel it returns error.Closed: no step.
CallSend(t, v) == /\ phase[t] = "idle" /\ ~closed
                  /\ phase' = [phase EXCEPT ![t] = "sending"]
                  /\ val' = [val EXCEPT ![t] = v]
                  /\ UNCHANGED <<queue, blocked, waiting, closed>>

CallRecv(t) == /\ phase[t] = "idle" /\ ~closed
               /\ phase' = [phase EXCEPT ![t] = "receiving"]
               /\ UNCHANGED <<queue, blocked, waiting, val, closed>>

\* A send meets a waiting receiver: the oldest one gets the value.
HandOver(t) == /\ phase[t] = "sending" /\ waiting # <<>>
               /\ waiting' = Tail(waiting)
               /\ phase' = [phase EXCEPT ![t] = "sent", ![Head(waiting)] = "received"]
               /\ val' = [val EXCEPT ![Head(waiting)] = val[t]]
               /\ UNCHANGED <<queue, blocked, closed>>

\* A send finds room in the buffer.
Deposit(t) == /\ phase[t] = "sending" /\ waiting = <<>> /\ Len(queue) < BufSize
              /\ queue' = Append(queue, val[t])
              /\ phase' = [phase EXCEPT ![t] = "sent"]
              /\ UNCHANGED <<blocked, waiting, val, closed>>

\* A send finds neither: its value queues and it blocks.
Block(t) == /\ phase[t] = "sending" /\ waiting = <<>> /\ Len(queue) >= BufSize
            /\ queue' = Append(queue, val[t])
            /\ blocked' = Append(blocked, t)
            /\ phase' = [phase EXCEPT ![t] = "blocked"]
            /\ UNCHANGED <<waiting, val, closed>>

\* A recv takes the oldest value, and the oldest blocked sender is released.
Take(t) == /\ phase[t] = "receiving" /\ queue # <<>>
           /\ queue' = Tail(queue)
           /\ val' = [val EXCEPT ![t] = Head(queue)]
           /\ \/ /\ blocked = <<>>
                 /\ phase' = [phase EXCEPT ![t] = "received"]
                 /\ UNCHANGED blocked
              \/ /\ blocked # <<>>
                 /\ phase' = [phase EXCEPT ![t] = "received", ![Head(blocked)] = "sent"]
                 /\ blocked' = Tail(blocked)
           /\ UNCHANGED <<waiting, closed>>

\* A recv finds nothing and waits.
Wait(t) == /\ phase[t] = "receiving" /\ queue = <<>>
           /\ waiting' = Append(waiting, t)
           /\ phase' = [phase EXCEPT ![t] = "waiting"]
           /\ UNCHANGED <<queue, blocked, val, closed>>

\* A call that would have to wait runs out of memory and has no effect.
Refuse(t) == /\ \/ phase[t] = "sending" /\ waiting = <<>> /\ Len(queue) >= BufSize
                \/ phase[t] = "receiving" /\ queue = <<>>
             /\ phase' = [phase EXCEPT ![t] = "refused"]
             /\ UNCHANGED <<queue, blocked, waiting, val, closed>>

Return(t) == /\ phase[t] \in {"sent", "received", "refused"}
             /\ phase' = [phase EXCEPT ![t] = "idle"]
             /\ val' = [val EXCEPT ![t] = NULL]
             /\ UNCHANGED <<queue, blocked, waiting, closed>>

\* close wakes nobody: blocked and waiting threads stay where they are.
Close == /\ closed' = TRUE
         /\ UNCHANGED <<queue, blocked, waiting, phase, val>>

Step(t) == \/ \E v \in Values : CallSend(t, v)
           \/ CallRecv(t)
           \/ HandOver(t) \/ Deposit(t) \/ Block(t)
           \/ Take(t) \/ Wait(t) \/ Refuse(t) \/ Return(t)

Next == Close \/ \E t \in Threads : Step(t)

Spec == Init /\ [][Next]_vars

=============================================================================
