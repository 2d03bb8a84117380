----------------------------- MODULE BotProofs -----------------------------
(***************************************************************************)
(* The accounts of the bot hold for any number of connections, workers and *)
(* echoes, and however the peer answers.  Balance is an equation between   *)
(* two sets of different things, the workers that wait and the replies on  *)
(* their way; it is kept because a step that adds to or takes from one     *)
(* does the same to the other or to the history.  For that IInv says which *)
(* thread may be where in the channel and that no echo is in two places.   *)
(***************************************************************************)
EXTENDS Bot, FiniteSetTheorems, TLAPS

\* Nobody is in a list of waiters twice.
BlockedOnce == \A i, j \in 1..Len(blocked) : blocked[i] = blocked[j] => i = j
WaitingOnce == \A i, j \in 1..Len(waiting) : waiting[i] = waiting[j] => i = j

\* The channel, which has no slots: a value for each blocked sender.
ChanOK == /\ Chan!TypeOK
          /\ Len(queue) = Len(blocked)
          /\ \A i \in 1..Len(blocked) : queue[i] = val[blocked[i]]
          /\ \A i \in 1..Len(blocked) : phase[blocked[i]] = "blocked"
          /\ \A i \in 1..Len(waiting) : phase[waiting[i]] = "waiting"
          /\ BlockedOnce /\ WaitingOnce
          /\ waiting # <<>> => queue = <<>>

\* Readers send, workers with a written request receive.
Roles == /\ \A c \in Conns : phase[c] \in {"idle", "sending", "blocked", "sent", "refused"}
         /\ \A w \in Workers :
                /\ phase[w] \in {"idle", "receiving", "waiting", "received", "refused"}
                /\ phase[w] # "idle" => work[w].at = "recv"

Carries(c) == phase[c] \in {"sending", "blocked"}

\* An echo that is on its way is so only once.
OnePlace == /\ \A c, d \in Conns : c # d => pending[c] \cap pending[d] = {}
            /\ \A c, d \in Conns : Carries(c) => val[c] \in Echoes /\ val[c] \notin pending[d]
            /\ \A c, d \in Conns : Carries(c) /\ Carries(d) /\ c # d => val[c] # val[d]

Finite == IsFiniteSet(Awaiting) /\ IsFiniteSet(Undelivered)

\* While no two requests overlap, what is on its way is what was asked for.
Asked == InStep => \A w \in Awaiting : Undelivered \subseteq {work[w].want}

IInv == /\ TypeOK
        /\ ChanOK
        /\ Roles
        /\ OnePlace
        /\ Finite
        /\ Balance
        /\ Asked
        /\ OwnAnswer

-----------------------------------------------------------------------------
(* Lemmas *)

\* What is on its way.
LEMMA UndeliveredIs ==
    \A e : e \in Undelivered <=> \/ \E c \in Conns : e \in pending[c]
                                 \/ \E c \in Conns : Carries(c) /\ val[c] = e
<1> DEFINE A == UNION {pending[c] : c \in Conns}
           C == {d \in Conns : phase[d] \in {"sending", "blocked"}}
           B == {val[c] : c \in C}
<1>1. \A e : e \in A <=> \E c \in Conns : e \in pending[c]
  OBVIOUS
<1>2. \A c : c \in C <=> c \in Conns /\ Carries(c)
  BY DEF Carries
<1>3. Undelivered = A \cup B
  BY DEF Undelivered
<1> HIDE DEF A, C
<1>4. \A e : e \in B <=> \E c \in C : val[c] = e
  OBVIOUS
<1> HIDE DEF B
<1> QED BY <1>1, <1>2, <1>3, <1>4

LEMMA UndeliveredIsNext ==
    \A e : e \in Undelivered' <=> \/ \E c \in Conns : e \in pending'[c]
                                  \/ \E c \in Conns : Carries(c)' /\ val'[c] = e
<1>1. \A e : e \in Undelivered <=> \/ \E c \in Conns : e \in pending[c]
                                   \/ \E c \in Conns : Carries(c) /\ val[c] = e
  BY UndeliveredIs
<1>2. (\A e : e \in Undelivered <=> \/ \E c \in Conns : e \in pending[c]
                                    \/ \E c \in Conns : Carries(c) /\ val[c] = e)'
  BY <1>1, PTL
<1> QED BY <1>2

\* The head and the tail of a list of threads.
LEMMA HeadTail ==
    ASSUME NEW S, NEW q \in Seq(S), q # <<>>
    PROVE  /\ Len(q) \in Nat \ {0} /\ 1 \in 1..Len(q)
           /\ Head(q) \in S /\ Head(q) = q[1]
           /\ Tail(q) \in Seq(S)
           /\ Len(Tail(q)) = Len(q) - 1
           /\ \A i \in 1..Len(Tail(q)) : i + 1 \in 1..Len(q) /\ Tail(q)[i] = q[i + 1]
  OBVIOUS

\* A list of threads with one more.
LEMMA Appended ==
    ASSUME NEW S, NEW q \in Seq(S), NEW t \in S
    PROVE  /\ Append(q, t) \in Seq(S)
           /\ Len(q) \in Nat
           /\ Len(Append(q, t)) = Len(q) + 1
           /\ \A i \in 1..Len(q) : Append(q, t)[i] = q[i]
           /\ Append(q, t)[Len(q) + 1] = t
           /\ \A i : i \in 1..Len(Append(q, t)) <=> i \in 1..Len(q) \/ i = Len(q) + 1
  OBVIOUS

\* What the removal or the addition of an element does to a cardinality.
LEMMA CountOne ==
    ASSUME NEW S, IsFiniteSet(S), NEW x
    PROVE  /\ Cardinality(S) \in Nat
           /\ IsFiniteSet(S \cup {x}) /\ IsFiniteSet(S \ {x})
           /\ x \notin S => Cardinality(S \cup {x}) = Cardinality(S) + 1
           /\ x \in S => Cardinality(S \ {x}) = Cardinality(S) - 1
  BY FS_CardinalityType, FS_AddElement, FS_RemoveElement

-----------------------------------------------------------------------------
(* The channel keeps ChanOK, whoever calls it. *)

LEMMA HandOverChan ==
    ASSUME ChanOK, NEW t \in Threads, Chan!HandOver(t)
    PROVE  ChanOK'
<1>1. /\ queue \in Seq(Echoes) /\ blocked \in Seq(Threads) /\ waiting \in Seq(Threads)
      /\ phase \in [Threads -> Chan!Phases] /\ val \in [Threads -> Echoes \cup {NULL}]
      /\ closed \in BOOLEAN
  BY DEF ChanOK, Chan!TypeOK
<1>2. /\ waiting # <<>> /\ waiting' = Tail(waiting) /\ phase[t] = "sending"
      /\ phase' = [phase EXCEPT ![t] = "sent", ![Head(waiting)] = "received"]
      /\ val' = [val EXCEPT ![Head(waiting)] = val[t]]
      /\ queue' = queue /\ blocked' = blocked /\ closed' = closed
  BY DEF Chan!HandOver
<1>3. /\ Head(waiting) \in Threads /\ Head(waiting) = waiting[1] /\ 1 \in 1..Len(waiting)
      /\ Tail(waiting) \in Seq(Threads)
      /\ \A i \in 1..Len(Tail(waiting)) : /\ i \in Nat \ {0} /\ i + 1 \in 1..Len(waiting)
                                          /\ Tail(waiting)[i] = waiting[i + 1]
  BY <1>1, <1>2, HeadTail
<1>4. Chan!TypeOK'
  <2>1. phase' \in [Threads -> Chan!Phases] /\ val' \in [Threads -> Echoes \cup {NULL}]
    BY <1>1, <1>2, <1>3 DEF Chan!Phases
  <2> QED BY <1>1, <1>2, <1>3, <2>1 DEF Chan!TypeOK
<1>5. \A u \in Threads : phase[u] = "blocked" => phase'[u] = "blocked" /\ val'[u] = val[u]
  BY <1>1, <1>2, <1>3 DEF ChanOK
<1>6. \A i \in 1..Len(blocked) : blocked[i] \in Threads
  BY <1>1
<1>7. /\ \A i \in 1..Len(blocked') : queue'[i] = val'[blocked'[i]]
      /\ \A i \in 1..Len(blocked') : phase'[blocked'[i]] = "blocked"
      /\ Len(queue') = Len(blocked')
  BY <1>2, <1>5, <1>6 DEF ChanOK
<1>11. BlockedOnce'
  BY <1>2 DEF ChanOK, BlockedOnce
<1>8. WaitingOnce'
  BY <1>1, <1>2, <1>3 DEF ChanOK, BlockedOnce, WaitingOnce
<1>9. \A i \in 1..Len(waiting') : phase'[waiting'[i]] = "waiting"
  <2> SUFFICES ASSUME NEW i \in 1..Len(Tail(waiting))
               PROVE  phase'[Tail(waiting)[i]] = "waiting"
    BY <1>2
  <2>1. /\ waiting[i + 1] # Head(waiting) /\ waiting[i + 1] \in Threads
        /\ phase[waiting[i + 1]] = "waiting" /\ Tail(waiting)[i] = waiting[i + 1]
    BY <1>1, <1>3 DEF ChanOK, BlockedOnce, WaitingOnce
  <2> QED BY <1>1, <1>2, <2>1
<1>10. waiting' # <<>> => queue' = <<>>
  BY <1>2 DEF ChanOK
<1> QED BY <1>4, <1>7, <1>8, <1>9, <1>10, <1>11 DEF ChanOK

LEMMA BlockChan ==
    ASSUME ChanOK, NEW t \in Threads, Chan!Block(t), val[t] \in Echoes
    PROVE  ChanOK'
<1>1. /\ queue \in Seq(Echoes) /\ blocked \in Seq(Threads) /\ waiting \in Seq(Threads)
      /\ phase \in [Threads -> Chan!Phases] /\ val \in [Threads -> Echoes \cup {NULL}]
      /\ closed \in BOOLEAN
  BY DEF ChanOK, Chan!TypeOK
<1>2. /\ waiting = <<>> /\ phase[t] = "sending"
      /\ queue' = Append(queue, val[t]) /\ blocked' = Append(blocked, t)
      /\ phase' = [phase EXCEPT ![t] = "blocked"]
      /\ waiting' = waiting /\ val' = val /\ closed' = closed
  BY DEF Chan!Block
<1>3. Chan!TypeOK'
  BY <1>1, <1>2, Appended DEF Chan!TypeOK, Chan!Phases
<1>4. \A i \in 1..Len(blocked) : blocked[i] \in Threads /\ blocked[i] # t
  BY <1>1, <1>2 DEF ChanOK
<1>5. /\ Len(queue') = Len(blocked') /\ 1..Len(queue) = 1..Len(blocked)
      /\ \A i : i \in 1..Len(blocked') <=> i \in 1..Len(blocked) \/ i = Len(blocked) + 1
      /\ \A i \in 1..Len(blocked) : blocked'[i] = blocked[i] /\ queue'[i] = queue[i]
      /\ blocked'[Len(blocked) + 1] = t /\ queue'[Len(blocked) + 1] = val[t]
  BY <1>1, <1>2, Appended DEF ChanOK
<1>6. BlockedOnce'
  BY <1>4, <1>5 DEF ChanOK, BlockedOnce, WaitingOnce
<1>7. /\ \A i \in 1..Len(blocked') : queue'[i] = val'[blocked'[i]]
      /\ \A i \in 1..Len(blocked') : phase'[blocked'[i]] = "blocked"
  BY <1>1, <1>2, <1>4, <1>5 DEF ChanOK
<1>8. /\ \A i \in 1..Len(waiting') : phase'[waiting'[i]] = "waiting"
      /\ WaitingOnce' /\ waiting' = <<>>
  BY <1>2 DEF BlockedOnce, WaitingOnce
<1> QED BY <1>3, <1>5, <1>6, <1>7, <1>8 DEF ChanOK

LEMMA TakeChan ==
    ASSUME ChanOK, NEW t \in Threads, Chan!Take(t)
    PROVE  /\ ChanOK'
           /\ blocked # <<>> /\ Head(blocked) \in Threads /\ Head(blocked) # t
           /\ phase[Head(blocked)] = "blocked" /\ val[Head(blocked)] = Head(queue)
           /\ phase' = [phase EXCEPT ![t] = "received", ![Head(blocked)] = "sent"]
<1>1. /\ queue \in Seq(Echoes) /\ blocked \in Seq(Threads) /\ waiting \in Seq(Threads)
      /\ phase \in [Threads -> Chan!Phases] /\ val \in [Threads -> Echoes \cup {NULL}]
      /\ closed \in BOOLEAN
  BY DEF ChanOK, Chan!TypeOK
<1>2. /\ queue # <<>> /\ phase[t] = "receiving" /\ queue' = Tail(queue)
      /\ val' = [val EXCEPT ![t] = Head(queue)]
      /\ waiting' = waiting /\ closed' = closed
  BY DEF Chan!Take
<1>3. blocked # <<>> /\ waiting = <<>>
  BY <1>1, <1>2 DEF ChanOK
<1>4. /\ phase' = [phase EXCEPT ![t] = "received", ![Head(blocked)] = "sent"]
      /\ blocked' = Tail(blocked)
  BY <1>3 DEF Chan!Take
<1>5. /\ Head(blocked) \in Threads /\ Head(blocked) = blocked[1] /\ 1 \in 1..Len(blocked)
      /\ Head(queue) \in Echoes /\ Head(queue) = queue[1]
      /\ Tail(blocked) \in Seq(Threads) /\ Tail(queue) \in Seq(Echoes)
      /\ Len(Tail(blocked)) = Len(blocked) - 1 /\ Len(Tail(queue)) = Len(queue) - 1
      /\ \A i \in 1..Len(Tail(blocked)) : /\ i \in Nat \ {0} /\ i + 1 \in 1..Len(blocked)
                                          /\ Tail(blocked)[i] = blocked[i + 1]
      /\ \A i \in 1..Len(Tail(queue)) : Tail(queue)[i] = queue[i + 1]
  BY <1>1, <1>2, <1>3, HeadTail
<1>6. /\ Head(blocked) # t
      /\ phase[Head(blocked)] = "blocked" /\ val[Head(blocked)] = Head(queue)
  BY <1>2, <1>5 DEF ChanOK
<1>7. Chan!TypeOK'
  <2>1. phase' \in [Threads -> Chan!Phases] /\ val' \in [Threads -> Echoes \cup {NULL}]
    BY <1>1, <1>2, <1>4, <1>5 DEF Chan!Phases
  <2> QED BY <1>1, <1>2, <1>4, <1>5, <2>1 DEF Chan!TypeOK
<1>8. BlockedOnce'
  BY <1>1, <1>4, <1>5 DEF ChanOK, BlockedOnce, WaitingOnce
<1>9. \A i \in 1..Len(blocked') : /\ blocked'[i] \in Threads
                                  /\ queue'[i] = val'[blocked'[i]]
                                  /\ phase'[blocked'[i]] = "blocked"
  <2> SUFFICES ASSUME NEW i \in 1..Len(Tail(blocked))
               PROVE  /\ Tail(blocked)[i] \in Threads
                      /\ Tail(queue)[i] = val'[Tail(blocked)[i]]
                      /\ phase'[Tail(blocked)[i]] = "blocked"
    BY <1>2, <1>4
  <2>1. /\ blocked[i + 1] # Head(blocked) /\ blocked[i + 1] \in Threads
        /\ phase[blocked[i + 1]] = "blocked" /\ Tail(blocked)[i] = blocked[i + 1]
        /\ queue[i + 1] = val[blocked[i + 1]]
    BY <1>1, <1>5 DEF ChanOK, BlockedOnce, WaitingOnce
  <2>2. Tail(queue)[i] = queue[i + 1]
    BY <1>5 DEF ChanOK
  <2>3. blocked[i + 1] # t
    BY <1>2, <2>1
  <2> QED BY <1>1, <1>2, <1>4, <2>1, <2>2, <2>3
<1>10. Len(queue') = Len(blocked')
  BY <1>2, <1>4, <1>5 DEF ChanOK
<1>11. /\ \A i \in 1..Len(waiting') : phase'[waiting'[i]] = "waiting"
       /\ WaitingOnce' /\ waiting' = <<>>
  BY <1>2, <1>3 DEF BlockedOnce, WaitingOnce
<1> QED BY <1>3, <1>4, <1>5, <1>6, <1>7, <1>8, <1>9, <1>10, <1>11 DEF ChanOK

LEMMA WaitChan ==
    ASSUME ChanOK, NEW t \in Threads, Chan!Wait(t)
    PROVE  ChanOK'
<1>1. /\ queue \in Seq(Echoes) /\ blocked \in Seq(Threads) /\ waiting \in Seq(Threads)
      /\ phase \in [Threads -> Chan!Phases] /\ val \in [Threads -> Echoes \cup {NULL}]
      /\ closed \in BOOLEAN
  BY DEF ChanOK, Chan!TypeOK
<1>2. /\ queue = <<>> /\ phase[t] = "receiving"
      /\ waiting' = Append(waiting, t)
      /\ phase' = [phase EXCEPT ![t] = "waiting"]
      /\ queue' = queue /\ blocked' = blocked /\ val' = val /\ closed' = closed
  BY DEF Chan!Wait
<1>3. Chan!TypeOK'
  BY <1>1, <1>2, Appended DEF Chan!TypeOK, Chan!Phases
<1>4. \A i \in 1..Len(waiting) : waiting[i] \in Threads /\ waiting[i] # t
  BY <1>1, <1>2 DEF ChanOK
<1>5. /\ \A i : i \in 1..Len(waiting') <=> i \in 1..Len(waiting) \/ i = Len(waiting) + 1
      /\ \A i \in 1..Len(waiting) : waiting'[i] = waiting[i]
      /\ waiting'[Len(waiting) + 1] = t
  BY <1>1, <1>2, Appended
<1>6. WaitingOnce'
  BY <1>4, <1>5 DEF ChanOK, BlockedOnce, WaitingOnce
<1>7. \A i \in 1..Len(waiting') : phase'[waiting'[i]] = "waiting"
  BY <1>1, <1>2, <1>4, <1>5 DEF ChanOK
<1>8. Len(queue') = 0 /\ Len(queue') = Len(blocked') /\ \A i : i \notin 1..Len(blocked')
  BY <1>1, <1>2 DEF ChanOK
<1>9. BlockedOnce'
  BY <1>8 DEF BlockedOnce
<1>10. /\ \A i \in 1..Len(blocked') : queue'[i] = val'[blocked'[i]]
       /\ \A i \in 1..Len(blocked') : phase'[blocked'[i]] = "blocked"
  BY <1>8
<1> QED BY <1>2, <1>3, <1>6, <1>7, <1>8, <1>9, <1>10 DEF ChanOK

\* A step that only changes the phase and the value of a thread outside the lists.
LEMMA OtherChan ==
    ASSUME ChanOK, NEW t \in Threads, NEW p \in Chan!Phases \ {"blocked", "waiting"},
           phase[t] \notin {"blocked", "waiting"},
           phase' = [phase EXCEPT ![t] = p],
           val' \in [Threads -> Echoes \cup {NULL}],
           \A u \in Threads : u # t => val'[u] = val[u],
           UNCHANGED <<queue, blocked, waiting, closed>>
    PROVE  ChanOK'
<1>1. /\ queue \in Seq(Echoes) /\ blocked \in Seq(Threads) /\ waiting \in Seq(Threads)
      /\ phase \in [Threads -> Chan!Phases] /\ closed \in BOOLEAN
  BY DEF ChanOK, Chan!TypeOK
<1>2. queue' = queue /\ blocked' = blocked /\ waiting' = waiting /\ closed' = closed
  OBVIOUS
<1>3. Chan!TypeOK'
  BY <1>1, <1>2 DEF Chan!TypeOK
<1>4. /\ \A i \in 1..Len(blocked) : blocked[i] \in Threads /\ blocked[i] # t
      /\ \A i \in 1..Len(waiting) : waiting[i] \in Threads /\ waiting[i] # t
  BY <1>1 DEF ChanOK
<1>5. BlockedOnce' /\ WaitingOnce'
  BY <1>2 DEF ChanOK, BlockedOnce, WaitingOnce
<1>6. \A u \in Threads : u # t => phase'[u] = phase[u]
  BY <1>1
<1>7. \A i \in 1..Len(blocked') : queue'[i] = val'[blocked'[i]]
  <2>1. \A i \in 1..Len(blocked) : queue[i] = val[blocked[i]]
    BY DEF ChanOK
  <2>2. \A i \in 1..Len(blocked) : val'[blocked[i]] = val[blocked[i]]
    BY <1>4
  <2> QED BY <1>2, <2>1, <2>2
<1>8. \A i \in 1..Len(blocked') : phase'[blocked'[i]] = "blocked"
  <2>1. \A i \in 1..Len(blocked) : phase[blocked[i]] = "blocked"
    BY DEF ChanOK
  <2> QED BY <1>2, <1>4, <1>6, <2>1
<1>9. \A i \in 1..Len(waiting') : phase'[waiting'[i]] = "waiting"
  <2>1. \A i \in 1..Len(waiting) : phase[waiting[i]] = "waiting"
    BY DEF ChanOK
  <2> QED BY <1>2, <1>4, <1>6, <2>1
<1>10. Len(queue') = Len(blocked') /\ (waiting' # <<>> => queue' = <<>>)
  BY <1>2 DEF ChanOK
<1> QED BY <1>3, <1>5, <1>7, <1>8, <1>9, <1>10 DEF ChanOK

-----------------------------------------------------------------------------
(* IInv is kept by every step: what each does to the two sets. *)

\* The parts of the types, as the steps use them.
LEMMA Types ==
    ASSUME IInv
    PROVE  /\ tasks \in Seq((Conns \cup {NULL}) \X Requests)
           /\ work \in [Workers -> [at : {"idle", "write", "recv"}, conn : Conns \cup {NULL},
                                    left : 0..2, want : Echoes \cup {NULL}]]
           /\ pending \in [Conns -> SUBSET Echoes]
           /\ lost \in Nat /\ surplus \in Nat /\ overlap \in BOOLEAN
           /\ phase \in [Threads -> Chan!Phases] /\ val \in [Threads -> Echoes \cup {NULL}]
           /\ Conns \subseteq Threads /\ Workers \subseteq Threads
           /\ \A c \in Conns : c \notin Workers
           /\ NULL \notin Echoes /\ NULL \notin Conns
  BY BotAssumption DEF IInv, TypeOK, Chan!TypeOK, Threads

\* The sets grow and shrink by one.
LEMMA Accounts ==
    ASSUME IInv
    PROVE  /\ IsFiniteSet(Awaiting) /\ IsFiniteSet(Undelivered)
           /\ Cardinality(Awaiting) \in Nat /\ Cardinality(Undelivered) \in Nat
           /\ lost \in Nat /\ surplus \in Nat
           /\ Cardinality(Awaiting) + surplus = Cardinality(Undelivered) + lost
           /\ \A w : w \notin Awaiting => /\ IsFiniteSet(Awaiting \cup {w})
                                          /\ Cardinality(Awaiting \cup {w}) = Cardinality(Awaiting) + 1
           /\ \A w : w \in Awaiting => /\ IsFiniteSet(Awaiting \ {w})
                                       /\ Cardinality(Awaiting \ {w}) = Cardinality(Awaiting) - 1
           /\ \A e : e \notin Undelivered =>
                  /\ IsFiniteSet(Undelivered \cup {e})
                  /\ Cardinality(Undelivered \cup {e}) = Cardinality(Undelivered) + 1
           /\ \A e : e \in Undelivered =>
                  /\ IsFiniteSet(Undelivered \ {e})
                  /\ Cardinality(Undelivered \ {e}) = Cardinality(Undelivered) - 1
  BY CountOne, Types DEF IInv, Finite, Balance

\* Asked survives where nothing new is waited for or on its way.
LEMMA AskedKept ==
    ASSUME IInv, InStep' => InStep,
           \A w : w \in Awaiting' => w \in Awaiting /\ work'[w].want = work[w].want,
           \A e : e \in Undelivered' => e \in Undelivered
    PROVE  Asked'
<1> SUFFICES ASSUME InStep', NEW w \in Awaiting', NEW e \in Undelivered'
             PROVE  e = work'[w].want
  BY DEF Asked
<1> QED BY DEF IInv, Asked

\* A worker keeps its answer, or gets one that was on its way while it waited.
LEMMA OwnKept ==
    ASSUME IInv, InStep' => InStep,
           \A w \in Workers : work'[w].at = "recv" /\ phase'[w] = "received" =>
               /\ work'[w].want = work[w].want
               /\ \/ work[w].at = "recv" /\ phase[w] = "received" /\ val'[w] = val[w]
                  \/ w \in Awaiting /\ val'[w] \in Undelivered
    PROVE  OwnAnswer'
<1> SUFFICES ASSUME InStep', NEW w \in Workers, work'[w].at = "recv", phase'[w] = "received"
             PROVE  val'[w] = work'[w].want
  BY DEF OwnAnswer
<1>1. CASE work[w].at = "recv" /\ phase[w] = "received" /\ val'[w] = val[w]
  BY <1>1 DEF IInv, OwnAnswer
<1>2. CASE w \in Awaiting /\ val'[w] \in Undelivered
  BY <1>2 DEF IInv, Asked
<1> QED BY <1>1, <1>2

LEMMA InitIInv == Init => IInv
<1> SUFFICES ASSUME Init PROVE IInv
  OBVIOUS
<1>1. /\ queue = <<>> /\ blocked = <<>> /\ waiting = <<>>
      /\ phase = [t \in Threads |-> "idle"] /\ val = [t \in Threads |-> NULL] /\ closed = FALSE
      /\ tasks = <<>> /\ work = [w \in Workers |-> Idle] /\ pending = [c \in Conns |-> {}]
      /\ lost = 0 /\ surplus = 0 /\ overlap = FALSE
  BY DEF Init, Chan!Init
<1>2. Conns \subseteq Threads /\ Workers \subseteq Threads
  BY DEF Threads
<1>3. Chan!TypeOK
  <2>1. queue \in Seq(Echoes) /\ blocked \in Seq(Threads) /\ waiting \in Seq(Threads)
    BY <1>1
  <2>2. phase \in [Threads -> Chan!Phases]
    BY <1>1 DEF Chan!Phases
  <2>3. val \in [Threads -> Echoes \cup {NULL}] /\ closed \in BOOLEAN
    BY <1>1
  <2> QED BY <2>1, <2>2, <2>3 DEF Chan!TypeOK
<1>4. TypeOK
  <2>1. tasks \in Seq((Conns \cup {NULL}) \X Requests)
    <3> DEFINE T == (Conns \cup {NULL}) \X Requests
    <3> HIDE DEF T
    <3>1. tasks \in Seq(T)
      BY <1>1
    <3> QED BY <3>1 DEF T
  <2>2. Idle \in [at : {"idle", "write", "recv"}, conn : Conns \cup {NULL},
                  left : 0..2, want : Echoes \cup {NULL}]
    BY DEF Idle
  <2>3. work \in [Workers -> [at : {"idle", "write", "recv"}, conn : Conns \cup {NULL},
                              left : 0..2, want : Echoes \cup {NULL}]]
    BY <1>1, <2>2
  <2> QED BY <1>1, <1>3, <2>1, <2>3 DEF TypeOK
<1>5. ChanOK
  BY <1>1, <1>3 DEF ChanOK, BlockedOnce, WaitingOnce
<1>6. Roles
  BY <1>1, <1>2 DEF Roles
<1>7. OnePlace /\ \A c \in Conns : ~Carries(c)
  BY <1>1, <1>2 DEF OnePlace, Carries
<1>8. Awaiting = {}
  BY <1>1 DEF Awaiting, Idle
<1>9. Undelivered = {}
  BY <1>1, <1>7, UndeliveredIs
<1>10. Finite /\ Balance
  BY <1>1, <1>8, <1>9, FS_EmptySet DEF Finite, Balance
<1>11. Asked /\ OwnAnswer
  BY <1>1, <1>8 DEF Asked, OwnAnswer, Idle
<1> QED BY <1>4, <1>5, <1>6, <1>7, <1>10, <1>11 DEF IInv

\* Steps of a worker that waits for nothing, and a new task.
LEMMA QuietKeeps ==
    ASSUME IInv, TypeOK', UNCHANGED <<chan, pending, lost, surplus, overlap>>,
           \A w \in Workers : \/ work'[w] = work[w]
                              \/ work[w].at # "recv" /\ work'[w].at # "recv"
    PROVE  IInv'
<1>1. /\ queue' = queue /\ blocked' = blocked /\ waiting' = waiting
      /\ phase' = phase /\ val' = val /\ closed' = closed
      /\ pending' = pending /\ lost' = lost /\ surplus' = surplus /\ overlap' = overlap
  BY DEF chan
<1>2. ChanOK'
  BY <1>1 DEF IInv, ChanOK, Chan!TypeOK, BlockedOnce, WaitingOnce
<1>3. Roles'
  BY <1>1 DEF IInv, Roles
<1>4. OnePlace'
  BY <1>1 DEF IInv, OnePlace, Carries
<1>5. Awaiting' = Awaiting
  BY <1>1 DEF Awaiting
<1>6. Undelivered' = Undelivered
  BY <1>1 DEF Undelivered
<1>7. Finite' /\ Balance'
  BY <1>1, <1>5, <1>6 DEF IInv, Finite, Balance
<1>8. Asked'
  BY <1>1, <1>5, <1>6, AskedKept DEF InStep, Awaiting
<1>9. OwnAnswer'
  BY <1>1, OwnKept DEF InStep
<1> QED BY <1>2, <1>3, <1>4, <1>7, <1>8, <1>9 DEF IInv

LEMMA EventKeeps ==
    ASSUME IInv, NEW c \in Conns, NEW n \in Requests, Event(c, n)
    PROVE  IInv'
<1>1. /\ tasks' = Append(tasks, <<c, n>>)
      /\ UNCHANGED <<chan, pending, lost, surplus, overlap>> /\ work' = work
  BY DEF Event
<1>2. tasks' \in Seq((Conns \cup {NULL}) \X Requests)
  <2>1. <<c, n>> \in (Conns \cup {NULL}) \X Requests
    OBVIOUS
  <2> HIDE DEF Requests
  <2> QED BY <1>1, <2>1, Types
<1>3. TypeOK'
  BY <1>1, <1>2 DEF IInv, TypeOK, Chan!TypeOK, chan
<1> QED BY <1>1, <1>3, QuietKeeps

LEMMA WriteFailsKeeps ==
    ASSUME IInv, NEW w \in Workers, WriteFails(w)
    PROVE  IInv'
<1>1. /\ work[w].at = "write" /\ work' = [work EXCEPT ![w] = Idle]
      /\ UNCHANGED <<chan, pending, lost, surplus, overlap>> /\ tasks' = tasks
  BY DEF WriteFails
<1>2. work' \in [Workers -> [at : {"idle", "write", "recv"}, conn : Conns \cup {NULL},
                             left : 0..2, want : Echoes \cup {NULL}]]
  BY <1>1, Types DEF Idle
<1>3. TypeOK'
  BY <1>1, <1>2 DEF IInv, TypeOK, Chan!TypeOK, chan
<1>4. \A v \in Workers : \/ work'[v] = work[v]
                         \/ work[v].at # "recv" /\ work'[v].at # "recv"
  <2>1. work'[w] = Idle /\ \A v \in Workers : v # w => work'[v] = work[v]
    BY <1>1, Types
  <2>2. work[w].at # "recv" /\ work'[w].at # "recv"
    BY <1>1, <2>1 DEF Idle
  <2> QED BY <2>1, <2>2
<1> QED BY <1>1, <1>3, <1>4, QuietKeeps

LEMMA StartKeeps ==
    ASSUME IInv, NEW w \in Workers, Start(w)
    PROVE  IInv'
<1>1. PICK i \in DOMAIN tasks :
          /\ tasks' = RemoveAt(tasks, i)
          /\ work' = [work EXCEPT ![w] = [at |-> "write", conn |-> tasks[i][1],
                                          left |-> tasks[i][2], want |-> NULL]]
  BY DEF Start
<1>2. UNCHANGED <<chan, pending, lost, surplus, overlap>> /\ work[w].at = "idle"
  BY DEF Start
<1> DEFINE T == (Conns \cup {NULL}) \X Requests
<1>3. tasks' \in Seq(T)
  <2> HIDE DEF T
  <2>1. tasks \in Seq(T) /\ i \in 1..Len(tasks)
    BY Types DEF T
  <2>2. SubSeq(tasks, 1, i - 1) \in Seq(T) /\ SubSeq(tasks, i + 1, Len(tasks)) \in Seq(T)
    BY <2>1
  <2> QED BY <1>1, <2>2 DEF RemoveAt
<1>4. tasks[i] \in T
  BY Types
<1>5. tasks[i][1] \in Conns \cup {NULL} /\ tasks[i][2] \in 0..2
  BY <1>4 DEF Requests
<1>6. work' \in [Workers -> [at : {"idle", "write", "recv"}, conn : Conns \cup {NULL},
                             left : 0..2, want : Echoes \cup {NULL}]]
  BY <1>1, <1>5, Types
<1>7. TypeOK'
  BY <1>2, <1>3, <1>6 DEF IInv, TypeOK, Chan!TypeOK, chan
<1>8. \A v \in Workers : \/ work'[v] = work[v]
                         \/ work[v].at # "recv" /\ work'[v].at # "recv"
  <2>1. work'[w].at = "write" /\ \A v \in Workers : v # w => work'[v] = work[v]
    BY <1>1, Types
  <2>2. work[w].at # "recv" /\ work'[w].at # "recv"
    BY <1>2, <2>1
  <2> QED BY <2>1, <2>2
<1> QED BY <1>2, <1>7, <1>8, QuietKeeps

LEMMA ReplyKeeps ==
    ASSUME IInv, NEW c \in Conns, NEW e \in Echoes, Reply(c, e)
    PROVE  IInv'
<1>1. /\ e \in pending[c] /\ phase[c] = "idle"
      /\ phase' = [phase EXCEPT ![c] = "sending"] /\ val' = [val EXCEPT ![c] = e]
      /\ pending' = [pending EXCEPT ![c] = @ \ {e}]
      /\ UNCHANGED <<queue, blocked, waiting, closed>>
      /\ tasks' = tasks /\ work' = work
      /\ lost' = lost /\ surplus' = surplus /\ overlap' = overlap
  BY DEF Reply, Chan!CallSend
<1>2. /\ phase'[c] = "sending" /\ val'[c] = e /\ pending'[c] = pending[c] \ {e}
      /\ \A t \in Threads : t # c => phase'[t] = phase[t] /\ val'[t] = val[t]
      /\ \A d \in Conns : d # c => pending'[d] = pending[d]
      /\ \A d \in Conns : pending'[d] \subseteq pending[d]
      /\ val' \in [Threads -> Echoes \cup {NULL}]
  BY <1>1, Types
<1>3. ChanOK'
  BY <1>1, <1>2, Types, OtherChan DEF IInv, Chan!Phases
<1>4. TypeOK'
  BY <1>1, <1>3, Types DEF TypeOK, ChanOK
<1>5. Roles'
  BY <1>1, <1>2, Types DEF IInv, Roles
<1>6. OnePlace'
  <2>1. \A d \in Conns : Carries(d)' <=> d = c \/ Carries(d)
    BY <1>2, Types DEF Carries
  <2>2. /\ \A d \in Conns : e \notin pending'[d]
        /\ \A d \in Conns : Carries(d) => val[d] # e
    BY <1>1, <1>2 DEF IInv, OnePlace
  <2> QED BY <1>2, <2>1, <2>2, Types DEF IInv, OnePlace
<1>7. Awaiting' = Awaiting
  BY <1>1, <1>2, Types DEF Awaiting
<1>8. Undelivered' = Undelivered
  <2>1. \A d \in Conns : Carries(d)' <=> d = c \/ Carries(d)
    BY <1>2, Types DEF Carries
  <2>2. ~Carries(c)
    BY <1>1 DEF Carries
  <2>3. \A x : x \in Undelivered' <=> x \in Undelivered
    BY <1>1, <1>2, <2>1, <2>2, Types, UndeliveredIs, UndeliveredIsNext
  <2> QED BY <2>3
<1>9. Finite' /\ Balance'
  BY <1>1, <1>7, <1>8 DEF IInv, Finite, Balance
<1>10. Asked'
  BY <1>1, <1>7, <1>8, AskedKept DEF InStep
<1>11. OwnAnswer'
  BY <1>1, <1>2, Types, OwnKept DEF InStep
<1> QED BY <1>3, <1>4, <1>5, <1>6, <1>9, <1>10, <1>11 DEF IInv

LEMMA UnaskedKeeps ==
    ASSUME IInv, NEW c \in Conns, NEW e \in Echoes, Unasked(c, e)
    PROVE  IInv'
<1>1. /\ e \notin InUse /\ phase[c] = "idle"
      /\ phase' = [phase EXCEPT ![c] = "sending"] /\ val' = [val EXCEPT ![c] = e]
      /\ UNCHANGED <<queue, blocked, waiting, closed>>
      /\ pending' = pending /\ tasks' = tasks /\ work' = work
      /\ lost' = lost /\ surplus' = surplus + 1 /\ overlap' = overlap
  BY DEF Unasked, Chan!CallSend
<1>2. /\ phase'[c] = "sending" /\ val'[c] = e
      /\ \A t \in Threads : t # c => phase'[t] = phase[t] /\ val'[t] = val[t]
      /\ val' \in [Threads -> Echoes \cup {NULL}]
  BY <1>1, Types
<1>3. ChanOK'
  BY <1>1, <1>2, Types, OtherChan DEF IInv, Chan!Phases
<1>4. TypeOK'
  BY <1>1, <1>3, Types DEF TypeOK, ChanOK
<1>5. Roles'
  BY <1>1, <1>2, Types DEF IInv, Roles
<1>6. \A d \in Conns : e \notin pending[d] /\ (Carries(d) => val[d] # e)
  <2> SUFFICES ASSUME NEW d \in Conns PROVE e \notin pending[d] /\ (Carries(d) => val[d] # e)
    OBVIOUS
  <2>1. e \notin UNION {pending[k] : k \in Conns}
    BY <1>1 DEF InUse
  <2>2. e \notin {val[t] : t \in {u \in Threads : phase[u] # "sent"}}
    BY <1>1 DEF InUse
  <2> QED BY <2>1, <2>2, Types DEF Carries
<1>7. \A d \in Conns : Carries(d)' <=> d = c \/ Carries(d)
  BY <1>2, Types DEF Carries
<1>8. OnePlace'
  BY <1>1, <1>2, <1>6, <1>7, Types DEF IInv, OnePlace
<1>9. Awaiting' = Awaiting
  BY <1>1, <1>2, Types DEF Awaiting
<1>10. e \notin Undelivered /\ Undelivered' = Undelivered \cup {e}
  <2>1. ~Carries(c)
    BY <1>1 DEF Carries
  <2>2. \A x : x \in Undelivered' <=> x \in Undelivered \/ x = e
    BY <1>1, <1>2, <1>7, <2>1, Types, UndeliveredIs, UndeliveredIsNext
  <2> QED BY <1>6, <2>2, UndeliveredIs
<1>11. Finite' /\ Balance'
  <2>1. /\ IsFiniteSet(Undelivered \cup {e})
        /\ Cardinality(Undelivered \cup {e}) = Cardinality(Undelivered) + 1
    BY <1>10, Accounts
  <2>2. IsFiniteSet(Undelivered') /\ Cardinality(Undelivered') = Cardinality(Undelivered) + 1
    BY <1>10, <2>1
  <2>3. Cardinality(Awaiting) + (surplus + 1) = (Cardinality(Undelivered) + 1) + lost
    <3>1. /\ Cardinality(Awaiting) \in Nat /\ Cardinality(Undelivered) \in Nat
          /\ lost \in Nat /\ surplus \in Nat
          /\ Cardinality(Awaiting) + surplus = Cardinality(Undelivered) + lost
      BY Accounts
    <3> QED BY <3>1
  <2>4. Balance'
    BY <1>1, <1>9, <2>2, <2>3 DEF Balance
  <2> QED BY <1>9, <2>2, <2>4, Accounts DEF Finite
<1>12. ~InStep'
  BY <1>1, Types DEF InStep
<1>13. Asked' /\ OwnAnswer'
  BY <1>12 DEF Asked, OwnAnswer
<1> QED BY <1>3, <1>4, <1>5, <1>8, <1>11, <1>13 DEF IInv

LEMMA LoseReplyKeeps ==
    ASSUME IInv, NEW c \in Conns, NEW e \in Echoes, LoseReply(c, e)
    PROVE  IInv'
<1>1. /\ e \in pending[c] /\ pending' = [pending EXCEPT ![c] = @ \ {e}]
      /\ queue' = queue /\ blocked' = blocked /\ waiting' = waiting
      /\ phase' = phase /\ val' = val /\ closed' = closed
      /\ tasks' = tasks /\ work' = work
      /\ lost' = lost + 1 /\ surplus' = surplus /\ overlap' = overlap
  BY DEF LoseReply, chan
<1>2. /\ pending'[c] = pending[c] \ {e}
      /\ \A d \in Conns : d # c => pending'[d] = pending[d]
      /\ \A d \in Conns : pending'[d] \subseteq pending[d]
  BY <1>1, Types
<1>3. ChanOK'
  BY <1>1 DEF IInv, ChanOK, Chan!TypeOK, BlockedOnce, WaitingOnce
<1>4. TypeOK'
  BY <1>1, <1>3, Types DEF TypeOK, ChanOK
<1>5. Roles'
  BY <1>1 DEF IInv, Roles
<1>6. OnePlace'
  BY <1>1, <1>2 DEF IInv, OnePlace, Carries
<1>7. Awaiting' = Awaiting
  BY <1>1 DEF Awaiting
<1>8. e \in Undelivered /\ Undelivered' = Undelivered \ {e}
  <2>1. \A d \in Conns : Carries(d)' <=> Carries(d)
    BY <1>1 DEF Carries
  <2>2. \A d \in Conns : e \notin pending'[d] /\ (Carries(d) => val[d] # e)
    BY <1>1, <1>2 DEF IInv, OnePlace
  <2>3. \A x : x \in Undelivered' <=> x \in Undelivered /\ x # e
    BY <1>1, <1>2, <2>1, <2>2, UndeliveredIs, UndeliveredIsNext
  <2>4. e \in Undelivered
    BY <1>1, UndeliveredIs
  <2> QED BY <2>3, <2>4
<1>9. Finite' /\ Balance'
  <2>1. /\ IsFiniteSet(Undelivered \ {e})
        /\ Cardinality(Undelivered \ {e}) = Cardinality(Undelivered) - 1
    BY <1>8, Accounts
  <2>2. IsFiniteSet(Undelivered') /\ Cardinality(Undelivered') = Cardinality(Undelivered) - 1
    BY <1>8, <2>1
  <2> QED BY <1>1, <1>7, <2>2, Types, Accounts DEF Finite, Balance
<1>10. ~InStep'
  BY <1>1, Types DEF InStep
<1>11. Asked' /\ OwnAnswer'
  BY <1>10 DEF Asked, OwnAnswer
<1> QED BY <1>3, <1>4, <1>5, <1>6, <1>9, <1>11 DEF IInv

LEMMA DropKeeps ==
    ASSUME IInv, NEW c \in Conns, Drop(c)
    PROVE  IInv'
<1>1. /\ pending' = [pending EXCEPT ![c] = {}]
      /\ queue' = queue /\ blocked' = blocked /\ waiting' = waiting
      /\ phase' = phase /\ val' = val /\ closed' = closed
      /\ lost' = lost + Cardinality(pending[c]) /\ surplus' = surplus /\ overlap' = overlap
      /\ tasks' = [i \in DOMAIN tasks |-> IF tasks[i][1] = c
                                           THEN <<NULL, tasks[i][2]>> ELSE tasks[i]]
      /\ work' = [w \in Workers |-> IF work[w].conn = c
                                    THEN [work[w] EXCEPT !.conn = NULL] ELSE work[w]]
  BY DEF Drop, chan
<1>2. /\ pending'[c] = {}
      /\ \A d \in Conns : d # c => pending'[d] = pending[d]
      /\ \A d \in Conns : pending'[d] \subseteq pending[d]
  BY <1>1, Types
<1>3. ChanOK'
  BY <1>1 DEF IInv, ChanOK, Chan!TypeOK, BlockedOnce, WaitingOnce
<1>4. \A w \in Workers : work'[w].at = work[w].at /\ work'[w].want = work[w].want
  BY <1>1, Types
<1>5. /\ pending[c] \subseteq Undelivered
      /\ Undelivered' = Undelivered \ pending[c]
  <2>1. \A d \in Conns : Carries(d)' <=> Carries(d)
    BY <1>1 DEF Carries
  <2>2. \A x \in pending[c] : \A d \in Conns : x \notin pending'[d] /\ (Carries(d) => val[d] # x)
    BY <1>1, <1>2 DEF IInv, OnePlace
  <2>3. \A x : x \in Undelivered' <=> x \in Undelivered /\ x \notin pending[c]
    BY <1>1, <1>2, <2>1, <2>2, UndeliveredIs, UndeliveredIsNext
  <2>4. pending[c] \subseteq Undelivered
    BY UndeliveredIs
  <2> QED BY <2>3, <2>4
<1>6. /\ IsFiniteSet(pending[c]) /\ Cardinality(pending[c]) \in Nat
      /\ IsFiniteSet(Undelivered')
      /\ Cardinality(Undelivered') = Cardinality(Undelivered) - Cardinality(pending[c])
  <2>1. IsFiniteSet(pending[c])
    BY <1>5, Accounts, FS_Subset
  <2>2. Undelivered \cap pending[c] = pending[c]
    BY <1>5
  <2>3. /\ IsFiniteSet(Undelivered \ pending[c])
        /\ Cardinality(Undelivered \ pending[c])
             = Cardinality(Undelivered) - Cardinality(Undelivered \cap pending[c])
    BY Accounts, FS_Difference
  <2> QED BY <1>5, <2>1, <2>2, <2>3, FS_CardinalityType
<1>7. TypeOK'
  <2>1. tasks' \in Seq((Conns \cup {NULL}) \X Requests)
    <3> DEFINE T == (Conns \cup {NULL}) \X Requests
    <3>1. tasks \in Seq(T)
      BY Types
    <3>2. \A i \in 1..Len(tasks) : tasks[i] \in T
      BY <3>1
    <3>3. \A i \in 1..Len(tasks) : (IF tasks[i][1] = c THEN <<NULL, tasks[i][2]>> ELSE tasks[i]) \in T
      BY <3>2
    <3>4. DOMAIN tasks = 1..Len(tasks) /\ Len(tasks) \in Nat
      BY <3>1
    <3> HIDE DEF T
    <3>5. \A i \in 1..Len(tasks) : tasks'[i] \in T
      BY <1>1, <3>3, <3>4
    <3>6. tasks' \in [1..Len(tasks) -> T]
      BY <1>1, <3>4, <3>5
    <3>7. tasks' \in Seq(T)
      BY <3>4, <3>6
    <3> QED BY <3>7 DEF T
  <2>2. work' \in [Workers -> [at : {"idle", "write", "recv"}, conn : Conns \cup {NULL},
                               left : 0..2, want : Echoes \cup {NULL}]]
    <3> DEFINE R == [at : {"idle", "write", "recv"}, conn : Conns \cup {NULL},
                     left : 0..2, want : Echoes \cup {NULL}]
    <3>1. work \in [Workers -> R]
      BY Types
    <3>2. \A w \in Workers : [work[w] EXCEPT !.conn = NULL] \in R
      BY <3>1
    <3> HIDE DEF R
    <3>3. \A w \in Workers : (IF work[w].conn = c THEN [work[w] EXCEPT !.conn = NULL]
                               ELSE work[w]) \in R
      BY <3>1, <3>2
    <3>4. work' \in [Workers -> R]
      BY <1>1, <3>3
    <3> QED BY <3>4 DEF R
  <2>3. Chan!TypeOK'
    BY <1>3 DEF ChanOK
  <2>4. pending' \in [Conns -> SUBSET Echoes]
    BY <1>1, Types
  <2>5. lost' \in Nat /\ surplus' \in Nat /\ overlap' \in BOOLEAN
    BY <1>1, <1>6, Types
  <2> QED BY <2>1, <2>2, <2>3, <2>4, <2>5 DEF TypeOK
<1>8. Roles'
  BY <1>1, <1>4 DEF IInv, Roles
<1>9. OnePlace'
  BY <1>1, <1>2 DEF IInv, OnePlace, Carries
<1>10. Awaiting' = Awaiting
  BY <1>1, <1>4 DEF Awaiting
<1>11. Finite' /\ Balance'
  BY <1>1, <1>5, <1>6, <1>10, Types, Accounts DEF Finite, Balance
<1>12. InStep' => InStep
  BY <1>1, <1>6, Types DEF InStep
<1>13. Asked'
  BY <1>4, <1>5, <1>10, <1>12, AskedKept DEF Awaiting
<1>14. OwnAnswer'
  BY <1>1, <1>4, <1>12, OwnKept
<1> QED BY <1>3, <1>7, <1>8, <1>9, <1>11, <1>13, <1>14 DEF IInv

LEMMA SendReturnsKeeps ==
    ASSUME IInv, NEW c \in Conns, SendReturns(c)
    PROVE  IInv'
<1>1. /\ phase[c] \in {"sent", "refused"}
      /\ phase' = [phase EXCEPT ![c] = "idle"] /\ val' = [val EXCEPT ![c] = NULL]
      /\ UNCHANGED <<queue, blocked, waiting, closed>>
      /\ pending' = pending /\ tasks' = tasks /\ work' = work
      /\ lost' = lost /\ surplus' = surplus /\ overlap' = overlap
  BY DEF SendReturns, Chan!Return, IInv, Roles
<1>2. /\ phase'[c] = "idle"
      /\ \A t \in Threads : t # c => phase'[t] = phase[t] /\ val'[t] = val[t]
      /\ val' \in [Threads -> Echoes \cup {NULL}]
  BY <1>1, Types
<1>3. ChanOK'
  BY <1>1, <1>2, Types, OtherChan DEF IInv, Chan!Phases
<1>4. TypeOK'
  BY <1>1, <1>3, Types DEF TypeOK, ChanOK
<1>5. Roles'
  BY <1>1, <1>2, Types DEF IInv, Roles
<1>6. \A d \in Conns : (Carries(d)' <=> Carries(d)) /\ (Carries(d) => d # c)
  BY <1>1, <1>2, Types DEF Carries
<1>7. OnePlace'
  BY <1>1, <1>2, <1>6, Types DEF IInv, OnePlace
<1>8. Awaiting' = Awaiting
  BY <1>1, <1>2, Types DEF Awaiting
<1>9. Undelivered' = Undelivered
  <2>1. \A x : x \in Undelivered' <=> x \in Undelivered
    BY <1>1, <1>2, <1>6, Types, UndeliveredIs, UndeliveredIsNext
  <2> QED BY <2>1
<1>10. Finite' /\ Balance'
  BY <1>1, <1>8, <1>9 DEF IInv, Finite, Balance
<1>11. Asked'
  BY <1>1, <1>8, <1>9, AskedKept DEF InStep
<1>12. OwnAnswer'
  BY <1>1, <1>2, Types, OwnKept DEF InStep
<1> QED BY <1>3, <1>4, <1>5, <1>7, <1>10, <1>11, <1>12 DEF IInv

LEMMA WriteKeeps ==
    ASSUME IInv, NEW w \in Workers, NEW e \in Echoes, Write(w, e)
    PROVE  IInv'
<1> DEFINE c == work[w].conn
<1>1. /\ work[w].at = "write" /\ c # NULL /\ e \notin InUse
      /\ pending' = [pending EXCEPT ![c] = @ \cup {e}]
      /\ work' = [work EXCEPT ![w].at = "recv", ![w].want = e]
      /\ queue' = queue /\ blocked' = blocked /\ waiting' = waiting
      /\ phase' = phase /\ val' = val /\ closed' = closed /\ tasks' = tasks
      /\ lost' = lost /\ surplus' = surplus /\ overlap' = (overlap \/ Awaiting # {})
  BY DEF Write, chan
<1>2. /\ c \in Conns /\ phase[w] = "idle"
      /\ work'[w].at = "recv" /\ work'[w].want = e
      /\ \A v \in Workers : v # w => work'[v] = work[v]
  BY <1>1, Types DEF IInv, Roles
<1> HIDE DEF c
<1>3. /\ pending'[c] = pending[c] \cup {e}
      /\ \A d \in Conns : d # c => pending'[d] = pending[d]
  BY <1>1, <1>2, Types
<1>4. \A d \in Conns : e \notin pending[d] /\ (Carries(d) => val[d] # e)
  <2> SUFFICES ASSUME NEW d \in Conns PROVE e \notin pending[d] /\ (Carries(d) => val[d] # e)
    OBVIOUS
  <2>1. e \notin UNION {pending[k] : k \in Conns}
    BY <1>1 DEF InUse
  <2>2. e \notin {val[t] : t \in {u \in Threads : phase[u] # "sent"}}
    BY <1>1 DEF InUse
  <2> QED BY <2>1, <2>2, Types DEF Carries
<1>5. ChanOK'
  BY <1>1 DEF IInv, ChanOK, Chan!TypeOK, BlockedOnce, WaitingOnce
<1>6. TypeOK'
  <2>1. pending' \in [Conns -> SUBSET Echoes]
    BY <1>1, <1>2, Types
  <2>2. work' \in [Workers -> [at : {"idle", "write", "recv"}, conn : Conns \cup {NULL},
                               left : 0..2, want : Echoes \cup {NULL}]]
    <3> DEFINE R == [at : {"idle", "write", "recv"}, conn : Conns \cup {NULL},
                     left : 0..2, want : Echoes \cup {NULL}]
    <3>1. work \in [Workers -> R]
      BY Types
    <3>2. [work[w] EXCEPT !.at = "recv", !.want = e] \in R
      BY <3>1
    <3>3. work' = [work EXCEPT ![w] = [work[w] EXCEPT !.at = "recv", !.want = e]]
      BY <1>1
    <3> HIDE DEF R
    <3>4. work' \in [Workers -> R]
      BY <3>1, <3>2, <3>3
    <3> QED BY <3>4 DEF R
  <2>3. Chan!TypeOK'
    BY <1>5 DEF ChanOK
  <2>4. tasks' \in Seq((Conns \cup {NULL}) \X Requests)
    BY <1>1, Types
  <2>5. lost' \in Nat /\ surplus' \in Nat /\ overlap' \in BOOLEAN
    BY <1>1, Types
  <2> QED BY <2>1, <2>2, <2>3, <2>4, <2>5 DEF TypeOK
<1>7. Roles'
  BY <1>1, <1>2 DEF IInv, Roles
<1>8. \A d \in Conns : Carries(d)' <=> Carries(d)
  BY <1>1 DEF Carries
<1>9. OnePlace'
  BY <1>1, <1>3, <1>4, <1>8 DEF IInv, OnePlace
<1>10. w \notin Awaiting /\ Awaiting' = Awaiting \cup {w}
  BY <1>1, <1>2 DEF Awaiting
<1>11. e \notin Undelivered /\ Undelivered' = Undelivered \cup {e}
  <2>1. \A x : x \in Undelivered' <=> x \in Undelivered \/ x = e
    BY <1>1, <1>2, <1>3, <1>8, UndeliveredIs, UndeliveredIsNext
  <2> QED BY <1>4, <2>1, UndeliveredIs
<1>12. /\ IsFiniteSet(Awaiting') /\ Cardinality(Awaiting') = Cardinality(Awaiting) + 1
       /\ IsFiniteSet(Undelivered') /\ Cardinality(Undelivered') = Cardinality(Undelivered) + 1
  BY <1>10, <1>11, Accounts
<1>13. Finite'
  BY <1>12 DEF Finite
<1>14. Balance'
  <2>1. (Cardinality(Awaiting) + 1) + surplus = (Cardinality(Undelivered) + 1) + lost
    <3>1. /\ Cardinality(Awaiting) \in Nat /\ Cardinality(Undelivered) \in Nat
          /\ lost \in Nat /\ surplus \in Nat
          /\ Cardinality(Awaiting) + surplus = Cardinality(Undelivered) + lost
      BY Accounts
    <3> QED BY <3>1
  <2> QED BY <1>1, <1>12, <2>1 DEF Balance
<1>15. Asked'
  <2> SUFFICES ASSUME InStep' PROVE \A v \in Awaiting' : Undelivered' \subseteq {work'[v].want}
    BY DEF Asked
  <2>1. Awaiting = {} /\ lost = 0 /\ surplus = 0
    BY <1>1 DEF InStep
  <2>2. Cardinality(Undelivered) = 0
    BY <2>1, Accounts, FS_EmptySet
  <2>3. Undelivered = {}
    BY <2>2, Accounts, FS_EmptySet
  <2> QED BY <1>2, <1>10, <1>11, <2>1, <2>3
<1>16. OwnAnswer'
  <2>1. InStep' => InStep
    BY <1>1, Types DEF InStep
  <2>2. phase'[w] # "received" /\ \A v \in Workers : v # w => work'[v] = work[v]
    BY <1>1, <1>2
  <2> QED BY <1>1, <2>1, <2>2, OwnKept
<1> QED BY <1>5, <1>6, <1>7, <1>9, <1>13, <1>14, <1>15, <1>16 DEF IInv

LEMMA RecvKeeps ==
    ASSUME IInv, NEW w \in Workers, Recv(w)
    PROVE  IInv'
<1>1. /\ work[w].at = "recv" /\ phase[w] = "idle"
      /\ phase' = [phase EXCEPT ![w] = "receiving"] /\ val' = val
      /\ UNCHANGED <<queue, blocked, waiting, closed>>
      /\ pending' = pending /\ tasks' = tasks /\ work' = work
      /\ lost' = lost /\ surplus' = surplus /\ overlap' = overlap
  BY DEF Recv, Chan!CallRecv
<1>2. /\ phase'[w] = "receiving" /\ \A t \in Threads : t # w => phase'[t] = phase[t]
      /\ \A d \in Conns : phase'[d] = phase[d]
  BY <1>1, Types
<1>3. ChanOK'
  BY <1>1, <1>2, Types, OtherChan DEF IInv, Chan!Phases
<1>4. TypeOK'
  BY <1>1, <1>3, Types DEF TypeOK, ChanOK
<1>5. Roles'
  BY <1>1, <1>2, Types DEF IInv, Roles
<1>6. OnePlace'
  BY <1>1, <1>2 DEF IInv, OnePlace, Carries
<1>7. Awaiting' = Awaiting
  BY <1>1, <1>2, Types DEF Awaiting
<1>8. Undelivered' = Undelivered
  <2>1. \A d \in Conns : Carries(d)' <=> Carries(d)
    BY <1>2 DEF Carries
  <2>2. \A x : x \in Undelivered' <=> x \in Undelivered
    BY <1>1, <2>1, UndeliveredIs, UndeliveredIsNext
  <2> QED BY <2>2
<1>9. Finite' /\ Balance'
  BY <1>1, <1>7, <1>8 DEF IInv, Finite, Balance
<1>10. Asked'
  BY <1>1, <1>7, <1>8, AskedKept DEF InStep
<1>11. OwnAnswer'
  <2>1. \A v \in Workers : phase'[v] = "received" => phase[v] = "received"
    BY <1>2, Types
  <2> QED BY <1>1, <2>1, OwnKept DEF InStep
<1> QED BY <1>3, <1>4, <1>5, <1>6, <1>9, <1>10, <1>11 DEF IInv

LEMMA ReceivedKeeps ==
    ASSUME IInv, NEW w \in Workers, Received(w)
    PROVE  IInv'
<1>1. /\ work[w].at = "recv" /\ phase[w] \in {"received", "refused"}
      /\ phase' = [phase EXCEPT ![w] = "idle"] /\ val' = [val EXCEPT ![w] = NULL]
      /\ UNCHANGED <<queue, blocked, waiting, closed>>
      /\ pending' = pending /\ tasks' = tasks
      /\ lost' = lost /\ surplus' = surplus /\ overlap' = overlap
  BY DEF Received, Chan!Return, IInv, Roles
<1>2. /\ phase'[w] = "idle"
      /\ \A t \in Threads : t # w => phase'[t] = phase[t] /\ val'[t] = val[t]
      /\ \A d \in Conns : phase'[d] = phase[d] /\ val'[d] = val[d]
      /\ val' \in [Threads -> Echoes \cup {NULL}]
  BY <1>1, Types
<1>3. /\ work' \in [Workers -> [at : {"idle", "write", "recv"}, conn : Conns \cup {NULL},
                                left : 0..2, want : Echoes \cup {NULL}]]
      /\ work'[w].at # "recv" /\ \A v \in Workers : v # w => work'[v] = work[v]
  <2>1. CASE work' = [work EXCEPT ![w] = Idle]
    BY <2>1, Types DEF Idle
  <2>2. CASE /\ work[w].left > 1
             /\ work' = [work EXCEPT ![w].at = "write", ![w].left = @ - 1, ![w].want = NULL]
    <3>1. work[w].left \in 0..2 /\ work[w].left - 1 \in 0..2
      <4>1. work[w].left \in 0..2
        BY Types
      <4> QED BY <2>2, <4>1
    <3> QED BY <2>2, <3>1, Types
  <2> QED BY <2>1, <2>2 DEF Received
<1>4. ChanOK'
  BY <1>1, <1>2, Types, OtherChan DEF IInv, Chan!Phases
<1>5. TypeOK'
  BY <1>1, <1>3, <1>4, Types DEF TypeOK, ChanOK
<1>6. Roles'
  BY <1>2, <1>3, Types DEF IInv, Roles
<1>7. OnePlace'
  BY <1>1, <1>2 DEF IInv, OnePlace, Carries
<1>8. Awaiting' = Awaiting
  BY <1>1, <1>2, <1>3, Types DEF Awaiting
<1>9. Undelivered' = Undelivered
  <2>1. \A d \in Conns : Carries(d)' <=> Carries(d)
    BY <1>2 DEF Carries
  <2>2. \A x : x \in Undelivered' <=> x \in Undelivered
    BY <1>1, <1>2, <2>1, UndeliveredIs, UndeliveredIsNext
  <2> QED BY <2>2
<1>10. Finite' /\ Balance'
  BY <1>1, <1>8, <1>9 DEF IInv, Finite, Balance
<1>11. Asked'
  <2>1. \A v \in Awaiting' : v # w
    BY <1>3 DEF Awaiting
  <2> QED BY <1>1, <1>3, <1>8, <1>9, <2>1, AskedKept DEF InStep, Awaiting
<1>12. OwnAnswer'
  BY <1>1, <1>2, <1>3, Types, OwnKept DEF InStep
<1> QED BY <1>4, <1>5, <1>6, <1>7, <1>10, <1>11, <1>12 DEF IInv

-----------------------------------------------------------------------------
(* Inside the channel. *)

\* A reply reaches a worker: one that waits less, one on its way less.
LEMMA Delivered ==
    ASSUME IInv, NEW w \in Awaiting, NEW e \in Undelivered,
           Awaiting' = Awaiting \ {w}, Undelivered' = Undelivered \ {e},
           work' = work, lost' = lost, surplus' = surplus, overlap' = overlap,
           val'[w] = e,
           \A v \in Workers : v # w /\ phase'[v] = "received" =>
               phase[v] = "received" /\ val'[v] = val[v]
    PROVE  Finite' /\ Balance' /\ Asked' /\ OwnAnswer'
<1>1. /\ IsFiniteSet(Awaiting') /\ Cardinality(Awaiting') = Cardinality(Awaiting) - 1
      /\ IsFiniteSet(Undelivered') /\ Cardinality(Undelivered') = Cardinality(Undelivered) - 1
  BY Accounts
<1>2. Finite'
  BY <1>1 DEF Finite
<1>3. Balance'
  <2>1. (Cardinality(Awaiting) - 1) + surplus = (Cardinality(Undelivered) - 1) + lost
    <3>1. /\ Cardinality(Awaiting) \in Nat /\ Cardinality(Undelivered) \in Nat
          /\ lost \in Nat /\ surplus \in Nat
          /\ Cardinality(Awaiting) + surplus = Cardinality(Undelivered) + lost
      BY Accounts
    <3> QED BY <3>1
  <2> QED BY <1>1, <2>1 DEF Balance
<1>4. InStep' => InStep
  BY DEF InStep
<1>5. Asked'
  BY <1>4, AskedKept
<1>6. OwnAnswer'
  BY <1>4, OwnKept
<1> QED BY <1>2, <1>3, <1>5, <1>6

LEMMA HandOverKeeps ==
    ASSUME IInv, NEW t \in Threads, Transfer(t), Chan!HandOver(t)
    PROVE  IInv'
<1>1. /\ phase[t] = "sending" /\ waiting # <<>>
      /\ phase' = [phase EXCEPT ![t] = "sent", ![Head(waiting)] = "received"]
      /\ val' = [val EXCEPT ![Head(waiting)] = val[t]]
      /\ pending' = pending /\ tasks' = tasks /\ work' = work
      /\ lost' = lost /\ surplus' = surplus /\ overlap' = overlap
  BY DEF Transfer, Chan!HandOver
<1>2. PICK w \in Threads : w = Head(waiting) /\ phase[w] = "waiting"
  BY <1>1, HeadTail DEF IInv, ChanOK, Chan!TypeOK
<1>3. t \in Conns /\ w \in Workers
  BY <1>1, <1>2 DEF IInv, Roles, Threads
<1>4. /\ phase'[t] = "sent" /\ phase'[w] = "received" /\ val'[w] = val[t] /\ w # t
      /\ \A u \in Threads : u # t /\ u # w => phase'[u] = phase[u]
      /\ \A u \in Threads : u # w => val'[u] = val[u]
  BY <1>1, <1>2, <1>3, Types
<1>5. ChanOK'
  BY HandOverChan DEF IInv
<1>6. TypeOK'
  BY <1>1, <1>5, Types DEF TypeOK, ChanOK
<1>7. Roles'
  BY <1>1, <1>2, <1>3, <1>4, Types DEF IInv, Roles
<1>8. \A d \in Conns : /\ (Carries(d)' <=> Carries(d) /\ d # t)
                       /\ val'[d] = val[d]
  BY <1>3, <1>4, Types DEF Carries
<1>9. OnePlace'
  BY <1>1, <1>8 DEF IInv, OnePlace
<1>10. w \in Awaiting /\ Awaiting' = Awaiting \ {w}
  BY <1>1, <1>2, <1>3, <1>4, Types DEF IInv, Roles, Awaiting
<1>11. val[t] \in Undelivered /\ Undelivered' = Undelivered \ {val[t]}
  <2>1. Carries(t)
    BY <1>1 DEF Carries
  <2>2. \A d \in Conns : val[t] \notin pending[d] /\ (Carries(d) /\ d # t => val[d] # val[t])
    BY <1>3, <2>1 DEF IInv, OnePlace
  <2>3. \A x : x \in Undelivered' <=> x \in Undelivered /\ x # val[t]
    BY <1>1, <1>3, <1>8, <2>1, <2>2, UndeliveredIs, UndeliveredIsNext
  <2>4. val[t] \in Undelivered
    BY <1>3, <2>1, UndeliveredIs
  <2> QED BY <2>3, <2>4
<1>12. \A v \in Workers : v # w /\ phase'[v] = "received" =>
           phase[v] = "received" /\ val'[v] = val[v]
  BY <1>3, <1>4, Types
<1>13. Finite' /\ Balance' /\ Asked' /\ OwnAnswer'
  BY <1>1, <1>4, <1>10, <1>11, <1>12, Delivered
<1> QED BY <1>5, <1>6, <1>7, <1>9, <1>13 DEF IInv

LEMMA TakeKeeps ==
    ASSUME IInv, NEW w \in Threads, Transfer(w), Chan!Take(w)
    PROVE  IInv'
<1>1. /\ phase[w] = "receiving" /\ val' = [val EXCEPT ![w] = Head(queue)]
      /\ pending' = pending /\ tasks' = tasks /\ work' = work
      /\ lost' = lost /\ surplus' = surplus /\ overlap' = overlap
  BY DEF Transfer, Chan!Take
<1>2. PICK t \in Threads : /\ t # w /\ phase[t] = "blocked" /\ val[t] = Head(queue)
                           /\ phase' = [phase EXCEPT ![w] = "received", ![t] = "sent"]
                           /\ ChanOK'
  BY TakeChan DEF IInv
<1>3. t \in Conns /\ w \in Workers
  BY <1>1, <1>2 DEF IInv, Roles, Threads
<1>4. /\ phase'[t] = "sent" /\ phase'[w] = "received" /\ val'[w] = val[t]
      /\ \A u \in Threads : u # t /\ u # w => phase'[u] = phase[u]
      /\ \A u \in Threads : u # w => val'[u] = val[u]
  BY <1>1, <1>2, Types
<1>5. TypeOK'
  BY <1>1, <1>2, Types DEF TypeOK, ChanOK
<1>6. Roles'
  BY <1>1, <1>2, <1>3, <1>4, Types DEF IInv, Roles
<1>7. \A d \in Conns : /\ (Carries(d)' <=> Carries(d) /\ d # t)
                       /\ val'[d] = val[d]
  BY <1>3, <1>4, Types DEF Carries
<1>8. OnePlace'
  BY <1>1, <1>7 DEF IInv, OnePlace
<1>9. w \in Awaiting /\ Awaiting' = Awaiting \ {w}
  BY <1>1, <1>2, <1>3, <1>4, Types DEF IInv, Roles, Awaiting
<1>10. val[t] \in Undelivered /\ Undelivered' = Undelivered \ {val[t]}
  <2>1. Carries(t)
    BY <1>2 DEF Carries
  <2>2. \A d \in Conns : val[t] \notin pending[d] /\ (Carries(d) /\ d # t => val[d] # val[t])
    BY <1>3, <2>1 DEF IInv, OnePlace
  <2>3. \A x : x \in Undelivered' <=> x \in Undelivered /\ x # val[t]
    BY <1>1, <1>3, <1>7, <2>1, <2>2, UndeliveredIs, UndeliveredIsNext
  <2>4. val[t] \in Undelivered
    BY <1>3, <2>1, UndeliveredIs
  <2> QED BY <2>3, <2>4
<1>11. \A v \in Workers : v # w /\ phase'[v] = "received" =>
           phase[v] = "received" /\ val'[v] = val[v]
  BY <1>3, <1>4, Types
<1>12. Finite' /\ Balance' /\ Asked' /\ OwnAnswer'
  BY <1>1, <1>4, <1>9, <1>10, <1>11, Delivered
<1> QED BY <1>2, <1>5, <1>6, <1>8, <1>12 DEF IInv

\* A thread joins a list of the channel, which nobody outside sees.
LEMMA JoinKeeps ==
    ASSUME IInv, NEW t \in Threads, Transfer(t), Chan!Block(t) \/ Chan!Wait(t)
    PROVE  IInv'
<1>1. /\ \/ phase[t] = "sending" /\ phase' = [phase EXCEPT ![t] = "blocked"]
         \/ phase[t] = "receiving" /\ phase' = [phase EXCEPT ![t] = "waiting"]
      /\ val' = val /\ pending' = pending /\ tasks' = tasks /\ work' = work
      /\ lost' = lost /\ surplus' = surplus /\ overlap' = overlap
  BY DEF Transfer, Chan!Block, Chan!Wait
<1>2. /\ phase[t] = "sending" => t \in Conns
      /\ phase[t] = "receiving" => t \in Workers
  BY DEF IInv, Roles, Threads
<1>3. /\ \A u \in Threads : u # t => phase'[u] = phase[u]
      /\ \/ phase[t] = "sending" /\ phase'[t] = "blocked"
         \/ phase[t] = "receiving" /\ phase'[t] = "waiting"
  BY <1>1, Types
<1>4. ChanOK'
  <2>1. ASSUME Chan!Block(t) PROVE ChanOK'
    <3>1. phase[t] = "sending"
      BY <2>1 DEF Chan!Block
    <3>2. val[t] \in Echoes
      BY <1>2, <3>1 DEF IInv, OnePlace, Carries
    <3> QED BY <2>1, <3>2, BlockChan DEF IInv
  <2> QED BY <2>1, WaitChan DEF IInv
<1>5. TypeOK'
  BY <1>1, <1>4, Types DEF TypeOK, ChanOK
<1>6. Roles'
  BY <1>1, <1>2, <1>3, Types DEF IInv, Roles
<1>7. \A d \in Conns : Carries(d)' <=> Carries(d)
  BY <1>2, <1>3, Types DEF Carries
<1>8. OnePlace'
  BY <1>1, <1>7 DEF IInv, OnePlace
<1>9. Awaiting' = Awaiting
  BY <1>1, <1>3, Types DEF Awaiting
<1>10. Undelivered' = Undelivered
  <2>1. \A x : x \in Undelivered' <=> x \in Undelivered
    BY <1>1, <1>7, UndeliveredIs, UndeliveredIsNext
  <2> QED BY <2>1
<1>11. Finite' /\ Balance'
  BY <1>1, <1>9, <1>10 DEF IInv, Finite, Balance
<1>12. Asked'
  BY <1>1, <1>9, <1>10, AskedKept DEF InStep
<1>13. OwnAnswer'
  <2>1. \A v \in Workers : phase'[v] = "received" => phase[v] = "received"
    BY <1>3, Types
  <2> QED BY <1>1, <2>1, OwnKept DEF InStep
<1> QED BY <1>4, <1>5, <1>6, <1>8, <1>11, <1>12, <1>13 DEF IInv

\* A refused send loses its reply, a refused recv leaves one without a receiver.
LEMMA RefusedKeeps ==
    ASSUME IInv, NEW t \in Threads, Refused(t)
    PROVE  IInv'
<1>1. /\ phase[t] \in {"sending", "receiving"} /\ phase' = [phase EXCEPT ![t] = "refused"]
      /\ lost' = (IF t \in Conns THEN lost + 1 ELSE lost)
      /\ surplus' = (IF t \in Workers THEN surplus + 1 ELSE surplus)
      /\ UNCHANGED <<queue, blocked, waiting, closed>>
      /\ val' = val /\ pending' = pending /\ tasks' = tasks /\ work' = work
      /\ overlap' = overlap
  BY DEF Refused, Chan!Refuse
<1>2. /\ phase'[t] = "refused" /\ \A u \in Threads : u # t => phase'[u] = phase[u]
  BY <1>1, Types
<1>3. ChanOK'
  BY <1>1, Types, OtherChan DEF IInv, Chan!Phases
<1>4. TypeOK'
  BY <1>1, <1>3, Types DEF TypeOK, ChanOK
<1>5. Roles'
  BY <1>1, <1>2, Types DEF IInv, Roles
<1>6. \A d \in Conns : Carries(d)' <=> Carries(d) /\ d # t
  BY <1>2, Types DEF Carries
<1>7. OnePlace'
  BY <1>1, <1>6 DEF IInv, OnePlace
<1>8. ~InStep'
  BY <1>1, Types DEF InStep, Threads
<1>9. Asked' /\ OwnAnswer'
  BY <1>8 DEF Asked, OwnAnswer
<1>10. CASE t \in Conns
  <2>1. t \notin Workers /\ lost' = lost + 1 /\ surplus' = surplus
    BY <1>1, <1>10, Types
  <2>2. Awaiting' = Awaiting
    BY <1>1, <1>2, <2>1, Types DEF Awaiting
  <2>3. val[t] \in Undelivered /\ Undelivered' = Undelivered \ {val[t]}
    <3>1. Carries(t)
      BY <1>1, <1>10 DEF IInv, Roles, Carries
    <3>2. \A d \in Conns : val[t] \notin pending[d] /\ (Carries(d) /\ d # t => val[d] # val[t])
      BY <1>10, <3>1 DEF IInv, OnePlace
    <3>3. \A x : x \in Undelivered' <=> x \in Undelivered /\ x # val[t]
      BY <1>1, <1>6, <1>10, <3>1, <3>2, UndeliveredIs, UndeliveredIsNext
    <3>4. val[t] \in Undelivered
      BY <1>10, <3>1, UndeliveredIs
    <3> QED BY <3>3, <3>4
  <2>4. /\ IsFiniteSet(Awaiting') /\ Cardinality(Awaiting') = Cardinality(Awaiting)
        /\ IsFiniteSet(Undelivered') /\ Cardinality(Undelivered') = Cardinality(Undelivered) - 1
    BY <2>2, <2>3, Accounts
  <2>5. Cardinality(Awaiting) + surplus = (Cardinality(Undelivered) - 1) + (lost + 1)
    <3>1. /\ Cardinality(Awaiting) \in Nat /\ Cardinality(Undelivered) \in Nat
          /\ lost \in Nat /\ surplus \in Nat
          /\ Cardinality(Awaiting) + surplus = Cardinality(Undelivered) + lost
      BY Accounts
    <3> QED BY <3>1
  <2>6. Finite' /\ Balance'
    BY <2>1, <2>4, <2>5 DEF Finite, Balance
  <2> QED BY <1>3, <1>4, <1>5, <1>7, <1>9, <2>6 DEF IInv
<1>11. CASE t \in Workers
  <2>1. t \notin Conns /\ lost' = lost /\ surplus' = surplus + 1
    BY <1>1, <1>11, Types
  <2>2. t \in Awaiting /\ Awaiting' = Awaiting \ {t}
    BY <1>1, <1>2, <1>11, Types DEF IInv, Roles, Awaiting
  <2>3. Undelivered' = Undelivered
    <3>1. \A x : x \in Undelivered' <=> x \in Undelivered
      BY <1>1, <1>6, <2>1, UndeliveredIs, UndeliveredIsNext
    <3> QED BY <3>1
  <2>4. /\ IsFiniteSet(Awaiting') /\ Cardinality(Awaiting') = Cardinality(Awaiting) - 1
        /\ IsFiniteSet(Undelivered') /\ Cardinality(Undelivered') = Cardinality(Undelivered)
    BY <2>2, <2>3, Accounts
  <2>5. (Cardinality(Awaiting) - 1) + (surplus + 1) = Cardinality(Undelivered) + lost
    <3>1. /\ Cardinality(Awaiting) \in Nat /\ Cardinality(Undelivered) \in Nat
          /\ lost \in Nat /\ surplus \in Nat
          /\ Cardinality(Awaiting) + surplus = Cardinality(Undelivered) + lost
      BY Accounts
    <3> QED BY <3>1
  <2>6. Finite' /\ Balance'
    BY <2>1, <2>4, <2>5 DEF Finite, Balance
  <2> QED BY <1>3, <1>4, <1>5, <1>7, <1>9, <2>6 DEF IInv
<1> QED BY <1>10, <1>11 DEF Threads

LEMMA NextIInv == IInv /\ [Next]_vars => IInv'
<1> SUFFICES ASSUME IInv, [Next]_vars PROVE IInv'
  OBVIOUS
<1>1. CASE UNCHANGED vars
  <2>1. /\ tasks' = tasks /\ work' = work
        /\ UNCHANGED <<chan, pending, lost, surplus, overlap>>
    BY <1>1 DEF vars
  <2>2. TypeOK'
    BY <2>1 DEF IInv, TypeOK, Chan!TypeOK, chan
  <2> QED BY <2>1, <2>2, QuietKeeps
<1>2. ASSUME NEW c \in Conns, ReaderStep(c) PROVE IInv'
  BY <1>2, EventKeeps, ReplyKeeps, UnaskedKeeps, LoseReplyKeeps, DropKeeps, SendReturnsKeeps
     DEF ReaderStep
<1>3. ASSUME NEW w \in Workers, WorkerStep(w) PROVE IInv'
  BY <1>3, StartKeeps, WriteFailsKeeps, RecvKeeps, ReceivedKeeps, WriteKeeps DEF WorkerStep
<1>4. ASSUME NEW t \in Threads, Transfer(t) PROVE IInv'
  BY <1>4, HandOverKeeps, TakeKeeps, JoinKeeps DEF Transfer
<1>5. ASSUME NEW t \in Threads, Refused(t) PROVE IInv'
  BY <1>5, RefusedKeeps
<1> QED BY <1>1, <1>2, <1>3, <1>4, <1>5 DEF Next

LEMMA Invariance == Spec => []IInv
<1> QED BY InitIInv, NextIInv, PTL DEF Spec

-----------------------------------------------------------------------------
(* Connections, tasks, requests and the channel stay in their types.       *)
THEOREM TypeCorrect == Spec => []TypeOK
<1>1. IInv => TypeOK
  BY DEF IInv
<1> QED BY <1>1, Invariance, PTL

(* Every reply accounts for one waiting worker: what is missing is a       *)
(* worker that waits for ever, what is too much a reader that blocks or an *)
(* answer to somebody else's request (main.zig:95, 223).                   *)
THEOREM AccountsBalance == Spec => []Balance
<1>1. IInv => Balance
  BY DEF IInv
<1> QED BY <1>1, Invariance, PTL

(* Without overlap, loss or surplus each worker gets the answer to its own *)
(* request, whatever the scheduling of readers and workers.                *)
THEOREM AnswersMatch == Spec => []OwnAnswer
<1>1. IInv => OwnAnswer
  BY DEF IInv
<1> QED BY <1>1, Invariance, PTL

=============================================================================
