-------------------------------- MODULE Bot ---------------------------------
(***************************************************************************)
(* src/main.zig: the path of a request and its reply through the bot.      *)
(* Each websocket connection has a reader thread (Handler.clientMessage).  *)
(* A message event becomes a task of the thread pool; the worker that runs *)
(* it writes one or two requests with an echo on the connection it came    *)
(* from and, after each, receives from THE channel of the App.  A reply is *)
(* sent into that channel by the reader that gets it, so it goes to the    *)
(* worker that has waited longest, whoever asked.                          *)
(*                                                                         *)
(* The channel is BoundedChannel with BufSize 0 (chanz.Chan).  The peer    *)
(* (a OneBot client), the websocket library and std.Thread.Pool are        *)
(* modelled as main.zig uses them: the peer answers in any order or not at *)
(* all, a connection may drop and be replaced, queued tasks start in any   *)
(* order.  (Faulty_X: X with a bug, to see that the properties notice it.) *)
(***************************************************************************)
EXTENDS Integers, FiniteSets, Sequences, SequencesExt

CONSTANTS Conns,      \* websocket connections, each with its reader
          Workers,    \* threads of app.thread_pool
          Echoes,     \* uuid4 echoes; one is reused only when gone everywhere
          NULL,
          MaxTasks,   \* bound: tasks queued at once
          MaxFaults   \* bound: replies lost or sent unasked

Threads == Conns \cup Workers

ASSUME BotAssumption == /\ Conns \cap Workers = {}
                        /\ NULL \notin Threads \cup Echoes
                        /\ MaxTasks \in Nat /\ MaxFaults \in Nat

VARIABLES queue, blocked, waiting, phase, val, closed,  \* app.channel
          tasks,    \* tasks in the pool's queue: connection and requests to make
          work,     \* what each worker does
          pending,  \* echoes of the requests the peer has yet to answer
          lost,     \* history: replies that will never reach the channel
          surplus,  \* history: replies nobody will receive for
          overlap   \* history: a request was written while another was unanswered

Chan == INSTANCE BoundedChannel WITH Values <- Echoes, BufSize <- 0

chan == <<queue, blocked, waiting, phase, val, closed>>
vars == <<chan, tasks, work, pending, lost, surplus, overlap>>

Idle == [at |-> "idle", conn |-> NULL, left |-> 0, want |-> NULL]

\* A message event costs one request ("jt") or two (echo, "ginfo").  Events
\* that make none take no part in this.
Requests == {1, 2}

TypeOK == /\ Chan!TypeOK
          /\ tasks \in Seq((Conns \cup {NULL}) \X Requests)
          /\ work \in [Workers -> [at : {"idle", "write", "recv"}, conn : Conns \cup {NULL},
                                   left : 0..2, want : Echoes \cup {NULL}]]
          /\ pending \in [Conns -> SUBSET Echoes]
          /\ lost \in Nat /\ surplus \in Nat
          /\ overlap \in BOOLEAN

Init == /\ Chan!Init
        /\ tasks = <<>>
        /\ work = [w \in Workers |-> Idle]
        /\ pending = [c \in Conns |-> {}]
        /\ lost = 0 /\ surplus = 0 /\ overlap = FALSE

\* Workers with a written request and no reply yet.
Awaiting == {w \in Workers : work[w].at = "recv" /\ phase[w] \notin {"received", "refused"}}

InUse == (UNION {pending[c] : c \in Conns})
             \cup {val[t] : t \in {u \in Threads : phase[u] # "sent"}}
             \cup {work[w].want : w \in Workers}

Fault == lost + surplus < MaxFaults

-----------------------------------------------------------------------------
(* The reader of a connection: clientMessage, one message at a time. *)

\* A message event: spawn(processMessage).
Event(c, n) == /\ phase[c] = "idle" /\ Len(tasks) < MaxTasks
               /\ tasks' = Append(tasks, <<c, n>>)
               /\ UNCHANGED <<chan, work, pending, lost, surplus, overlap>>

\* A reply: channel.send.
Reply(c, e) == /\ e \in pending[c]
               /\ Chan!CallSend(c, e)
               /\ pending' = [pending EXCEPT ![c] = @ \ {e}]
               /\ UNCHANGED <<tasks, work, lost, surplus, overlap>>

\* A reply to nothing that was asked: it is sent into the channel as well.
Unasked(c, e) == /\ Fault /\ e \notin InUse
                 /\ Chan!CallSend(c, e)
                 /\ surplus' = surplus + 1
                 /\ UNCHANGED <<tasks, work, pending, lost, overlap>>

\* The peer never answers, or DynamicApiReturn.fromJson does not know the answer.
LoseReply(c, e) == /\ Fault /\ e \in pending[c]
                   /\ pending' = [pending EXCEPT ![c] = @ \ {e}]
                   /\ lost' = lost + 1
                   /\ UNCHANGED <<chan, tasks, work, surplus, overlap>>

\* The connection is gone with what it had pending, and another takes its
\* place.  Tasks keep their pointer to the old Handler (conn = NULL).
Drop(c) == /\ phase[c] = "idle"
           /\ lost + surplus + Cardinality(pending[c]) <= MaxFaults
           /\ lost' = lost + Cardinality(pending[c])
           /\ pending' = [pending EXCEPT ![c] = {}]
           /\ tasks' = [i \in DOMAIN tasks |-> IF tasks[i][1] = c
                                                THEN <<NULL, tasks[i][2]>> ELSE tasks[i]]
           /\ work' = [w \in Workers |-> IF work[w].conn = c
                                         THEN [work[w] EXCEPT !.conn = NULL] ELSE work[w]]
           /\ UNCHANGED <<chan, surplus, overlap>>

-----------------------------------------------------------------------------
(* A worker of the pool: processMessage and writeAction. *)

Start(w) == /\ work[w].at = "idle"
            /\ \E i \in DOMAIN tasks :
                 /\ tasks' = RemoveAt(tasks, i)
                 /\ work' = [work EXCEPT ![w] = [at |-> "write", conn |-> tasks[i][1],
                                                 left |-> tasks[i][2], want |-> NULL]]
            /\ UNCHANGED <<chan, pending, lost, surplus, overlap>>

Faulty_Write(w, e) ==   \* the echo it compares with is not the one it sent
    /\ work[w].at = "write" /\ work[w].conn # NULL /\ e \notin InUse
    /\ pending' = [pending EXCEPT ![work[w].conn] = @ \cup {e}]
    /\ work' = [work EXCEPT ![w].at = "recv"]
    /\ overlap' = (overlap \/ Awaiting # {})
    /\ UNCHANGED <<chan, tasks, lost, surplus>>

Write(w, e) == /\ work[w].at = "write" /\ work[w].conn # NULL /\ e \notin InUse
               /\ pending' = [pending EXCEPT ![work[w].conn] = @ \cup {e}]
               /\ work' = [work EXCEPT ![w].at = "recv", ![w].want = e]
               /\ overlap' = (overlap \/ Awaiting # {})
               /\ UNCHANGED <<chan, tasks, lost, surplus>>

Faulty_WriteFails(w) == /\ work[w].at \in {"write", "recv"}   \* gives up in recv too
                        /\ work' = [work EXCEPT ![w] = Idle]
                        /\ UNCHANGED <<chan, tasks, pending, lost, surplus, overlap>>

\* Whatever fails up to writeText, `try` ends the task; on a dropped
\* connection it fails (the Handler it goes through is dead).
WriteFails(w) == /\ work[w].at = "write"
                 /\ work' = [work EXCEPT ![w] = Idle]
                 /\ UNCHANGED <<chan, tasks, pending, lost, surplus, overlap>>

Recv(w) == /\ work[w].at = "recv"
           /\ Chan!CallRecv(w)
           /\ UNCHANGED <<tasks, work, pending, lost, surplus, overlap>>

Faulty_ReceivedRetry(w) ==   \* receives again until the echo is its own
    /\ work[w].at = "recv" /\ Chan!Return(w)
    /\ work' = IF val[w] = work[w].want THEN [work EXCEPT ![w] = Idle] ELSE work
    /\ UNCHANGED <<tasks, pending, lost, surplus, overlap>>

\* recv returns.  With the echo asked for, the task makes its next request
\* or is done; with any other echo (InvalidReturn), with no memory, or when
\* the data does not parse, it is done.
Received(w) == /\ work[w].at = "recv" /\ Chan!Return(w)
               /\ \/ /\ phase[w] = "received" /\ val[w] = work[w].want /\ work[w].left > 1
                     /\ work' = [work EXCEPT ![w].at = "write", ![w].left = @ - 1,
                                              ![w].want = NULL]
                  \/ work' = [work EXCEPT ![w] = Idle]
               /\ UNCHANGED <<tasks, pending, lost, surplus, overlap>>

-----------------------------------------------------------------------------
(* Inside send and recv. *)

Transfer(t) == /\ Chan!HandOver(t) \/ Chan!Block(t) \/ Chan!Take(t) \/ Chan!Wait(t)
               /\ UNCHANGED <<tasks, work, pending, lost, surplus, overlap>>

\* The wait list cannot grow: the reader's reply is lost, the worker's reply
\* will find nobody.
Refused(t) == /\ Fault
              /\ Chan!Refuse(t)
              /\ lost' = IF t \in Conns THEN lost + 1 ELSE lost
              /\ surplus' = IF t \in Workers THEN surplus + 1 ELSE surplus
              /\ UNCHANGED <<tasks, work, pending, overlap>>

SendReturns(c) == /\ Chan!Return(c)
                  /\ UNCHANGED <<tasks, work, pending, lost, surplus, overlap>>

ReaderStep(c) == \/ \E n \in Requests : Event(c, n)
                 \/ \E e \in Echoes : Reply(c, e) \/ Unasked(c, e) \/ LoseReply(c, e)
                 \/ Drop(c) \/ SendReturns(c)

WorkerStep(w) == \/ Start(w) \/ WriteFails(w) \/ Recv(w) \/ Received(w)
                 \/ \E e \in Echoes : Write(w, e)

Next == \/ \E c \in Conns : ReaderStep(c)
        \/ \E w \in Workers : WorkerStep(w)
        \/ \E t \in Threads : Transfer(t) \/ Refused(t)

Spec == Init /\ [][Next]_vars

\* A thread that can run runs.  What it takes besides, an answering peer and
\* a wakeup that is not lost (see Chan), is stated where it is needed.
WorkerRuns(w) == Start(w) \/ WriteFails(w) \/ Recv(w) \/ \E e \in Echoes : Write(w, e)

FairSpec == /\ Spec
            /\ \A w \in Workers : WF_vars(WorkerRuns(w))
            /\ \A t \in Threads : WF_vars(Transfer(t))

-----------------------------------------------------------------------------
\* Replies on their way to the channel or blocked in it.
Undelivered == (UNION {pending[c] : c \in Conns})
                   \cup {val[c] : c \in {d \in Conns : phase[d] \in {"sending", "blocked"}}}

(* Every reply accounts for one waiting worker and nothing else does: a    *)
(* lost reply leaves one worker too many waiting, for ever, since recv has *)
(* no timeout (main.zig:95); a surplus one leaves a reader blocked in send *)
(* (main.zig:223) or the next requests with the wrong answers.             *)
Balance == Cardinality(Awaiting) + surplus = Cardinality(Undelivered) + lost

(* As long as no two requests have been unanswered at once and no reply    *)
(* was lost or surplus, each worker gets the answer to its own request.    *)
(* (The moment two overlap, the channel may hand them out crosswise: the   *)
(* waiting order, not the echo, decides.)                                  *)
InStep == ~overlap /\ lost = 0 /\ surplus = 0
OwnAnswer == InStep => \A w \in Workers : work[w].at = "recv" /\ phase[w] = "received"
                                              => val[w] = work[w].want

(* If every reply comes back and every signalled thread wakes up, each     *)
(* task ends: no schedule of readers and workers locks the pool up.        *)
Helped == /\ \A w \in Workers : WF_vars(Received(w))
          /\ \A c \in Conns : WF_vars(SendReturns(c)) /\ WF_vars(\E e \in Echoes : Reply(c, e))
TasksEnd == Helped => \A w \in Workers : work[w].at # "idle" ~> work[w].at = "idle"

(* Nor is a connection: a reader that found no worker waiting and blocked  *)
(* in send (main.zig:223), which is where it stops reading, gets back to   *)
(* its messages, since for every reply on its way some worker comes to     *)
(* receive, be it another one than asked.                                  *)
ReadersReturn == Helped => \A c \in Conns : phase[c] = "blocked" ~> phase[c] = "idle"

=============================================================================
