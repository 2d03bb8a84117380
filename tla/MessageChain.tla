---------------------------- MODULE MessageChain ----------------------------
(***************************************************************************)
(* src/onebot/message.zig, MessageChain and MessageSegment: messages as    *)
(* lists of segments, parsed from the peer's JSON, put together, written.  *)
(*                                                                         *)
(* Chain 0 is the message of an event, parsed from JSON, and outlives the  *)
(* others, which are locals of the handlers: opened and closed like a      *)
(* stack (`var chain = init; defer chain.deinit()`).  chain() copies       *)
(* segments, but not the strings they point to; at() formats its number    *)
(* in the arena of its chain.  `memory' is the chain whose arena a string  *)
(* is in (0: the event's, or none), or Gone; `lent', a history of the      *)
(* segment, says that it was copied into a chain that outlives the one it  *)
(* was copied from, which nothing in the code forbids.                     *)
(*                                                                         *)
(* Left out: a chain appended to itself, at_all (does not compile), lack   *)
(* of memory.                                                              *)
(* (Faulty_X: X with a bug, to see that the properties notice it.)         *)
(***************************************************************************)
EXTENDS Naturals, Sequences, Functions

CONSTANTS Locals,       \* the greatest number of chains open at once
          MaxSegments,  \* of a chain
          Messages,     \* what the peer may send: sequences of JSON segments
          NoName        \* null, for the name of a segment

ASSUME ChainAssumption ==
    /\ Locals \in Nat /\ MaxSegments \in Nat
    /\ \A m \in Messages : \E n \in 0..MaxSegments : DOMAIN m = 1..n

VARIABLES message,  \* the JSON of the event's message
          open,     \* the chains that are open are 0 to open
          chains    \* their segments

chainVars == <<message, open, chains>>

Gone == Locals + 1

Object(k, v) == [x \in {k} |-> v]

-----------------------------------------------------------------------------
(* Segments.  A JSON segment has a type and its data: an object.           *)

ImageKeys == {"file", "filename", "url", "summary", "subType"}

Optional(data, k) == IF k \in DOMAIN data THEN data[k] ELSE NoName

\* MessageSegment.fromJson of a segment that has its keys.
fromJson(j) ==
    [memory |-> 0, lent |-> FALSE, kind |-> j.type, data |->
        CASE j.type = "text"  -> Restrict(j.data, {"text"})
          [] j.type = "at"    -> [qq |-> j.data.qq, name |-> Optional(j.data, "name")]
          [] j.type = "image" -> Restrict(j.data, ImageKeys)
          [] OTHER            -> j.data]

\* What the parser unwraps with `.?`.
Needed(type) == CASE type = "text"  -> {"text"}
                  [] type = "at"    -> {"qq"}
                  [] type = "image" -> ImageKeys
                  [] OTHER          -> {}

Parses(j) == Needed(j.type) \subseteq DOMAIN j.data

Faulty_toJson(s) == [type |-> s.kind, data |-> s.data]   \* a null for a missing name

\* MessageSegment.toJson: of a name and of an image little is written.
toJson(s) ==
    [type |-> s.kind, data |->
        CASE s.kind = "text"  -> Object("text", s.data.text)
          [] s.kind = "at"    -> Object("qq", s.data.qq)
          [] s.kind = "image" -> Object("file", s.data.file)
          [] OTHER            -> s.data]

\* MessageChain.toJson
JsonOf(c) == [i \in DOMAIN chains[c] |-> toJson(chains[c][i])]

-----------------------------------------------------------------------------
(* Chains                                                                  *)

Room(c, n) == Len(chains[c]) + n <= MaxSegments

\* A message that does not parse ends the process: see OneBot.
ChainInit == /\ message \in {m \in Messages : \A i \in DOMAIN m : Parses(m[i])}
             /\ open = 0
             /\ chains = [c \in 0..Locals |->
                             IF c = 0 THEN [i \in DOMAIN message |-> fromJson(message[i])]
                             ELSE <<>>]

init == /\ open < Locals
        /\ open' = open + 1
        /\ UNCHANGED <<message, chains>>

Append1(c, segment) == /\ Room(c, 1)
                       /\ chains' = [chains EXCEPT ![c] = Append(@, segment)]
                       /\ UNCHANGED <<message, open>>

text(c) == Append1(c, [kind |-> "text", data |-> Object("text", "repeating"),
                       memory |-> 0, lent |-> FALSE])

at(c) == Append1(c, [kind |-> "at", data |-> [qq |-> "10001", name |-> NoName],
                     memory |-> c, lent |-> FALSE])

\* A segment of chain d as it is in c: its strings stay where they are.
Copied(s, d, c) == [kind |-> s.kind, data |-> s.data, memory |-> s.memory,
                    lent |-> s.lent \/ d > c]

Others(c) == (0..open) \ {c}

\* append of a segment of another chain
append(c) == \E d \in Others(c) : \E i \in DOMAIN chains[d] :
                 Append1(c, Copied(chains[d][i], d, c))

chain(c) == \E d \in Others(c) :
                /\ Room(c, Len(chains[d]))
                /\ chains' = [chains EXCEPT
                       ![c] = @ \o [i \in DOMAIN chains[d] |-> Copied(chains[d][i], d, c)]]
                /\ UNCHANGED <<message, open>>

\* The arena of c is freed, and what points into it dangles.
Freed(cs, c) == [d \in DOMAIN cs |-> [i \in DOMAIN cs[d] |->
                    IF cs[d][i].memory = c THEN [cs[d][i] EXCEPT !.memory = Gone]
                    ELSE cs[d][i]]]

Faulty_clear(c) == /\ chains' = Freed([chains EXCEPT ![c] = <<>>], c)   \* the arena as well
                   /\ UNCHANGED <<message, open>>

\* clearAndFree: the list goes, the arena stays until deinit.
clear(c) == /\ chains' = [chains EXCEPT ![c] = <<>>]
            /\ UNCHANGED <<message, open>>

deinit == /\ open > 0
          /\ open' = open - 1
          /\ chains' = Freed([chains EXCEPT ![open] = <<>>], open)
          /\ UNCHANGED message

ChainNext == \/ init \/ deinit
             \/ \E c \in 1..open : text(c) \/ at(c) \/ append(c) \/ chain(c) \/ clear(c)

ChainSpec == ChainInit /\ [][ChainNext]_chainVars

-----------------------------------------------------------------------------
(* A string that a chain will write is live, whoever formatted it and      *)
(* whatever was cleared or closed since (toJson copies no string), unless  *)
(* it was at some time copied into a chain opened before its source: no    *)
(* other way to use chains, clear() included, leaves a string dangling.    *)
OnlyLentStringsDangle ==
    \A c \in 0..Locals : \A i \in DOMAIN chains[c] :
        chains[c][i].memory \in 0..open \/ chains[c][i].lent

Own == {[type |-> "text", data |-> Object("text", "repeating")],
        [type |-> "at", data |-> Object("qq", "10001")]}

Within(j, k) == /\ j.type = k.type
                /\ DOMAIN j.data \subseteq DOMAIN k.data
                /\ \A x \in DOMAIN j.data : j.data[x] = k.data[x]

(* What the bot repeats of a message it was sent says nothing the message  *)
(* did not say: no key is invented, no value turned into null, no segment  *)
(* becomes one of another type, the unknown ones included.                 *)
RepeatsOnlyWhatWasSaid ==
    \A c \in 0..Locals : \A i \in DOMAIN JsonOf(c) :
        \/ JsonOf(c)[i] \in Own
        \/ \E k \in DOMAIN message : Within(JsonOf(c)[i], message[k])

=============================================================================
