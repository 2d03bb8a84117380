------------------------------- MODULE Frames -------------------------------
(***************************************************************************)
(* src/main.zig: the life of a frame.  clientMessage parses a frame into   *)
(* an arena of its own and holds it by an Arc.  A reply goes with a second *)
(* reference into app.channel and from there to a task that waits, a       *)
(* message event with a second reference into app.thread_pool.  Each side  *)
(* ends in releaseUnwrap; the last one deinits the arena.  The parsed      *)
(* values point into the arena, so it has to outlive their use.            *)
(*                                                                         *)
(* Which waiting task a reply goes to is left open here (Bot has the       *)
(* order), as is the number of connections and workers.  releaseUnwrap and *)
(* retain are single steps, as in Rc, which Arc implements.  A panic       *)
(* anywhere ends the process.                                              *)
(* (Faulty_X: X with a bug, to see that the properties notice it.)         *)
(***************************************************************************)
EXTENDS OneBot

CONSTANTS Ids,     \* of the frames that arrive
          Inputs,  \* what the peer may send: records as OneBot describes them
          Regular, \* the frames that the OneBot standard provides for
          NULL

Steps == 1..2

NoGroup(f) == f.message_type = "group" /\ Is(f, "group_id", "absent")

ASSUME FramesAssumption ==
    /\ NULL \notin Ids /\ NULL \notin Inputs
    /\ "up" \notin Ids /\ "oom" \notin Ids
    /\ NULL \notin Ids \X Steps

VARIABLES frame,    \* the JSON of each frame that has arrived
          answers,  \* the request whose echo a reply carries, if it is one of ours
          reader,   \* how far clientMessage is with the frame
          other,    \* where the second reference is
          refs,     \* strong count of the arena
          arena,
          leaked,   \* history: the frames that could not be handed over
          at, step, \* the task of a message event, and its request
          asked,    \* history: the requests that have been written
          reply,    \* the reply it has received
          process   \* "up", or the frame that ended it, or "oom"

task == <<at, step, asked, reply>>
vars == <<frame, answers, reader, other, refs, arena, leaked, task, process>>

TypeOK == /\ frame \in [Ids -> Inputs \cup {NULL}]
          /\ answers \in [Ids -> (Ids \X Steps) \cup {NULL}]
          /\ reader \in [Ids -> {"none", "parse", "pass", "blocked", "release", "done"}]
          /\ other \in [Ids -> {"none", "made", "passed", "used", "done"}]
          /\ refs \in [Ids -> Nat]
          /\ arena \in [Ids -> {"none", "live", "freed"}]
          /\ leaked \subseteq Ids
          /\ at \in [Ids -> {"none", "write", "wait", "read", "drop", "end"}]
          /\ step \in [Ids -> 1..3]
          /\ asked \subseteq Ids \X Steps
          /\ reply \in [Ids -> Ids \cup {NULL}]
          /\ process \in {"up", "oom"} \cup Ids

Init == /\ frame = [m \in Ids |-> NULL] /\ answers = [m \in Ids |-> NULL]
        /\ reader = [m \in Ids |-> "none"] /\ other = [m \in Ids |-> "none"]
        /\ refs = [m \in Ids |-> 0] /\ arena = [m \in Ids |-> "none"]
        /\ leaked = {}
        /\ at = [m \in Ids |-> "none"] /\ step = [m \in Ids |-> 1]
        /\ asked = {}
        /\ reply = [m \in Ids |-> NULL]
        /\ process = "up"

Plan(t) == Requests(frame[t])

Become(v, m, x) == [v EXCEPT ![m] = x]

\* One reference less; the last one deinits the arena.
Release(m) == /\ refs' = Become(refs, m, refs[m] - 1)
              /\ arena' = IF refs[m] = 1 THEN Become(arena, m, "freed") ELSE arena

-----------------------------------------------------------------------------
(* The reader: clientMessage. *)

Receive(m, f, r) == /\ reader[m] = "none"
                    /\ r # NULL => Meaning(f) = "reply"
                    /\ frame' = Become(frame, m, f) /\ answers' = Become(answers, m, r)
                    /\ refs' = Become(refs, m, 1) /\ arena' = Become(arena, m, "live")
                    /\ reader' = Become(reader, m, "parse")
                    /\ UNCHANGED <<other, leaked, task, process>>

\* parseFromSliceLeaky: malformed, or no memory for its values.
ParseFails(m) == /\ reader[m] = "parse"
                 /\ reader' = Become(reader, m, "release")
                 /\ UNCHANGED <<frame, answers, other, refs, arena, leaked, task, process>>

\* A frame without use.
Ignore(m) == /\ reader[m] = "parse"
             /\ Meaning(frame[m]) \notin {"malformed", "reply", "message", "panic"}
             /\ reader' = Become(reader, m, "release")
             /\ UNCHANGED <<frame, answers, other, refs, arena, leaked, task, process>>

Faulty_Retain(m) == /\ reader[m] = "parse"      \* forgotten
                    /\ Meaning(frame[m]) \in {"reply", "message"}
                    /\ reader' = Become(reader, m, "pass")
                    /\ other' = Become(other, m, "made")
                    /\ UNCHANGED <<frame, answers, refs, arena, leaked, task, process>>

\* arena.retain(), evaluated before send or spawn is called.
Retain(m) == /\ reader[m] = "parse"
             /\ Meaning(frame[m]) \in {"reply", "message"}
             /\ refs' = Become(refs, m, refs[m] + 1)
             /\ reader' = Become(reader, m, "pass")
             /\ other' = Become(other, m, "made")
             /\ UNCHANGED <<frame, answers, arena, leaked, task, process>>

\* A value that is missing or of another type.
ReaderPanics(m) == /\ reader[m] = "parse"
                   /\ Meaning(frame[m]) = "panic"
                   /\ process' = m
                   /\ UNCHANGED <<frame, answers, reader, other, refs, arena, leaked, task>>

\* No memory for a segment of the message: MessageEvent.fromJson returns null,
\* which EventData.fromJson unwraps.
AppendFails(m) == /\ reader[m] = "parse"
                  /\ Meaning(frame[m]) = "message"
                  /\ process' = "oom"
                  /\ UNCHANGED <<frame, answers, reader, other, refs, arena, leaked, task>>

\* send blocks until a task takes the reply; spawn returns at once.
HandOver(m) == /\ reader[m] = "pass"
               /\ other' = Become(other, m, "passed")
               /\ reader' = Become(reader, m, IF Meaning(frame[m]) = "reply"
                                              THEN "blocked" ELSE "release")
               /\ UNCHANGED <<frame, answers, refs, arena, leaked, task, process>>

\* send or spawn is out of memory: the reference just made is lost.
HandOverFails(m) == /\ reader[m] = "pass"
                    /\ other' = Become(other, m, "done")
                    /\ leaked' = leaked \cup {m}
                    /\ reader' = Become(reader, m, "release")
                    /\ UNCHANGED <<frame, answers, refs, arena, task, process>>

Faulty_ReaderReleases(m) ==   \* not on the paths that return an error
    /\ reader[m] = "release"
    /\ IF frame[m].json = "malformed" THEN UNCHANGED <<refs, arena>> ELSE Release(m)
    /\ reader' = Become(reader, m, "done")
    /\ UNCHANGED <<frame, answers, other, leaked, task, process>>

\* The defer of clientMessage.
ReaderReleases(m) == /\ reader[m] = "release"
                     /\ Release(m)
                     /\ reader' = Become(reader, m, "done")
                     /\ UNCHANGED <<frame, answers, other, leaked, task, process>>

-----------------------------------------------------------------------------
(* The task of a message event: processMessage. *)

WriteOrEnd(t) == IF step[t] <= Len(Plan(t)) THEN "write" ELSE "end"

Start(t) == /\ other[t] = "passed" /\ Meaning(frame[t]) = "message"
            /\ ~NoGroup(frame[t])
            /\ other' = Become(other, t, "used")
            /\ at' = Become(at, t, WriteOrEnd(t))
            /\ UNCHANGED <<frame, answers, reader, refs, arena, leaked, step, asked, reply, process>>

\* e.group_id.? of a group message without group_id.
StartPanics(t) == /\ other[t] = "passed" /\ Meaning(frame[t]) = "message"
                  /\ NoGroup(frame[t])
                  /\ process' = t
                  /\ UNCHANGED <<frame, answers, reader, other, refs, arena, leaked, task>>

\* writeAction: the request is on the wire, recv waits.
Write(t) == /\ at[t] = "write"
            /\ at' = Become(at, t, "wait")
            /\ asked' = asked \cup {<<t, step[t]>>}
            /\ UNCHANGED <<frame, answers, reader, other, refs, arena, leaked, step, reply,
                           process>>

\* find, writeText or recv fails; the task is over.
Fail(t) == /\ at[t] \in {"write", "wait"}
           /\ at' = Become(at, t, "end")
           /\ UNCHANGED <<frame, answers, reader, other, refs, arena, leaked, step, asked,
                          reply, process>>

\* send and recv meet in the channel: the reader is released, the task goes on.
Deliver(m, t) == /\ reader[m] = "blocked" /\ at[t] = "wait"
                 /\ reader' = Become(reader, m, "release")
                 /\ other' = Become(other, m, "used")
                 /\ reply' = Become(reply, t, m)
                 /\ at' = Become(at, t, "read")
                 /\ UNCHANGED <<frame, answers, refs, arena, leaked, step, asked, process>>

Mine(t) == answers[reply[t]] = <<t, step[t]>>

Outcome(t) == Parsed(Plan(t)[step[t]], frame[reply[t]].data)

\* With its own echo the data is parsed; any other echo is an error, which
\* ends the task (step 3).
Read(t) == /\ at[t] = "read"
           /\ IF Mine(t) /\ Outcome(t) = "panic"
              THEN process' = reply[t] /\ UNCHANGED task
              ELSE /\ at' = Become(at, t, "drop")
                   /\ step' = Become(step, t, IF Mine(t) /\ Outcome(t) = "ok"
                                              THEN step[t] + 1 ELSE 3)
                   /\ UNCHANGED <<asked, reply, process>>
           /\ UNCHANGED <<frame, answers, reader, other, refs, arena, leaked>>

Faulty_Drop(t) ==   \* only a reply that was of use is released
    /\ at[t] = "drop"
    /\ IF step[t] = 3 THEN UNCHANGED <<refs, arena>> ELSE Release(reply[t])
    /\ other' = Become(other, reply[t], "done")
    /\ reply' = Become(reply, t, NULL)
    /\ at' = Become(at, t, WriteOrEnd(t))
    /\ UNCHANGED <<frame, answers, reader, leaked, step, asked, process>>

\* The defer of writeAction releases the reply.
Drop(t) == /\ at[t] = "drop"
           /\ Release(reply[t])
           /\ other' = Become(other, reply[t], "done")
           /\ reply' = Become(reply, t, NULL)
           /\ at' = Become(at, t, WriteOrEnd(t))
           /\ UNCHANGED <<frame, answers, reader, leaked, step, asked, process>>

\* The defer of processMessage releases the event.
End(t) == /\ at[t] = "end"
          /\ Release(t)
          /\ other' = Become(other, t, "done")
          /\ at' = Become(at, t, "none")
          /\ UNCHANGED <<frame, answers, reader, leaked, step, asked, reply, process>>

ReaderStep(m) == \/ \E f \in Inputs, r \in asked \cup {NULL} : Receive(m, f, r)
                 \/ ParseFails(m) \/ Ignore(m) \/ Retain(m)
                 \/ ReaderPanics(m) \/ AppendFails(m)
                 \/ HandOver(m) \/ HandOverFails(m) \/ ReaderReleases(m)

TaskStep(t) == \/ Start(t) \/ StartPanics(t) \/ Write(t) \/ Fail(t)
               \/ \E m \in Ids : Deliver(m, t)
               \/ Read(t) \/ Drop(t) \/ End(t)

Next == process = "up" /\ \E m \in Ids : ReaderStep(m) \/ TaskStep(m)

Spec == Init /\ [][Next]_vars

-----------------------------------------------------------------------------
ReaderHolds(m) == reader[m] \in {"parse", "pass", "blocked", "release"}
OtherHolds(m)  == other[m] \in {"made", "passed", "used"}

One(b) == IF b THEN 1 ELSE 0

(* The strong count of an arena is the number of its holders, and one too  *)
(* many, for ever, after a send or spawn that failed: main.zig:223 and 228 *)
(* retain first and do not take it back.                                   *)
Counted == \A m \in Ids :
    refs[m] = One(ReaderHolds(m)) + One(OtherHolds(m)) + One(m \in leaked)

(* What is read is there: the reader parses into a live arena, a task      *)
(* reads its event (the text, the segments it repeats) until its end and   *)
(* the reply it has received until the defer of writeAction, whoever       *)
(* releases first.                                                         *)
ReadsLive == /\ \A m \in Ids : ReaderHolds(m) => arena[m] = "live"
             /\ \A t \in Ids : at[t] # "none" => arena[t] = "live"
             /\ \A t \in Ids : at[t] \in {"read", "drop"} => arena[reply[t]] = "live"

(* Memory is lost by a failed hand-over and in no other way: malformed and *)
(* ignored frames, foreign replies and failing tasks give theirs back.     *)
OnlyFailuresLeak == \A m \in Ids :
    reader[m] = "done" /\ ~OtherHolds(m) => (arena[m] = "live" <=> m \in leaked)

\* The arena of a frame, as a reference count.
Memory(m) == INSTANCE Rc WITH
    Handles <- {"reader", "other"},
    state   <- [h \in {"reader", "other"} |->
                   IF IF h = "reader" THEN ReaderHolds(m) ELSE OtherHolds(m) \/ m \in leaked
                   THEN "strong" ELSE "none"],
    strong  <- refs[m],
    weak    <- One(refs[m] > 0),
    memory  <- arena[m],
    taken   <- One(arena[m] = "freed")

NoReferences  == \A m \in Ids : Memory(m)!Init
ReferenceStep == \A m \in Ids : [Memory(m)!Next]_(Memory(m)!vars)

(* Reader and task keep to the rules of a reference count: each releases   *)
(* its own reference, once, and retains from one it holds.                 *)
ImplementsRc == NoReferences /\ [][ReferenceStep]_vars

-----------------------------------------------------------------------------
\* A frame as the standard has it: a reply to a request of the bot carries the
\* data of that action, or null if the action failed.
Proper(m) == /\ frame[m] \in Regular
             /\ \/ answers[m] = NULL \/ frame[m].data = "null"
                \/ LET t == answers[m][1] IN
                   Parsed(Plan(t)[answers[m][2]], frame[m].data) = "ok"

(* A peer that keeps to the standard cannot end the bot.  That is what the *)
(* optional results of Event.fromJson and EventData.fromJson are for: an   *)
(* event of another kind is null (onebot.zig:45), nothing to do.  But the  *)
(* null is unwrapped (onebot.zig:22), and so are the values of an answer   *)
(* whose data is null (action.zig:108, 137, 166).                          *)
RegularFramesSurvive == process \in Ids => ~Proper(process)

=============================================================================
