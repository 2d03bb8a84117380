# A specification of the maimai queue bot

TLA+ models of the program in `src/` (a OneBot chat bot in Zig), the TLC
configurations that check them on small instances, and TLAPS proofs.

## The system

One process, built for x64 Windows (`build.zig`). `main` (`main.zig:19`) opens a
MongoDB client with three collections, a websocket server, one channel and one
thread pool, and listens until the process ends.

| Part | State | Operations | Talks to |
|---|---|---|---|
| Channel (`chanz.zig`) | mutex, optional buffer slots, two lists of pointers to waiters' stack frames, `closed` | `send`, `recv`, `close`, `len` | the readers send, the workers receive |
| Reference counts (`rc.zig`) | strong and weak counter beside the value | `init`, `initCyclic`, `retain`, `downgrade`, `upgrade`, `release`, `releaseUnwrap`, `tryUnwrap`, counts | the arena of each message is an `Arc` |
| Bot core (`main.zig`) | connections with a `Handler` and a reader thread each, pool queue, workers, requests in flight | `clientMessage` (reader), `processMessage`, `writeAction` (worker) | everything |
| OneBot (`onebot/*.zig`) | none (parsing), `MessageChain` (a list of segments) | `fromJson`, `toJson`, `new`, `deinit` | called by reader and worker |
| Commands (`utils.zig`) | none | `splitCommandStart`, `checkCommandStart` | called by worker |
| MongoDB and BSON (`mongodb.zig`) | client and collections, shared by the workers | `find`, `findOne`, `fromBson`, `toBson` | `find` is called by worker |
| Timestamps (`timestamp.zig`) | none | parsing and formatting | events, BSON, replies |
| UUIDs (`uuid.zig`) | none | generation, parsing, printing | the echo of a request |

A message event that arrives on a connection becomes a task. The worker that
runs it writes a request with a fresh echo on the connection and calls `recv` on
the one channel; the reader that gets a reply calls `send` on it; the worker
compares the echo it receives with its own.

What is hard here: the handshake between a waiter and the thread that serves it
(`chanz.zig`), wait-free reference counts (`rc.zig`), and replies that are matched
by waiting order over a single channel with no timeout (`main.zig`), with
connections that drop, replies that get lost and several readers and workers at
once. What makes each part correct:

* channel: first in first out, no value lost or duplicated, nobody waits who need
  not, no pointer to a dead frame is used, whoever is served returns;
* reference counts: memory freed once, by the last owner, after the last access;
  the value handed out once; no dropped value comes back;
* bot core: each worker gets the answer to its request; every task ends; no loss
  of workers; what a task points to is alive;
* parsing and conversion: total on the inputs the peer can send, exact on dates,
  fractions and identifiers.

## The modules

    BoundedChannel   what a channel promises its callers
      ^ implemented by         ^ instantiated by
    Chan             chanz     Bot   main.zig's readers, pool and requests

    Rc               one reference-counted value, single-threaded
      ^ implemented by         ^ implemented by
    Arc              atomic,   Frames   what a frame does to the process: the
                     access             life of its arena from clientMessage
                     by access          to the last releaseUnwrap
                                 | extends
                               OneBot   what a frame means, and what a panic

    Query            find, findOne and the sum of "jt"
      | extends
    Bson             documents to structs and back

    Calendar         ISO dates against a calendar that counts days
    Timestamp        units of time, written and read back
    Commands         command prefixes, on bytes against characters
    MessageChain     segments, chains and their strings
    Uuid             echoes, printed and read

    ChanProofs, RcProofs, ArcProofs, BotProofs, FramesProofs, QueryProofs
                     TLAPS, about the module of that name
    ConversionProofs TLAPS, about Calendar, Timestamp, Commands, MessageChain, Uuid
    Induction        TLAPS, facts about numbers and loops that these rest on

    MCChan, MCArc, MCBot, MCFrames, MCQuery
                     model values, sample inputs and symmetry
    MCSequential     the components without concurrency, in one run

### Chan and BoundedChannel

`Chan` is `BufferedChan` thread by thread. A thread is in a call (`op`) at a place
(`pc`); `data[t]` is the payload field of its frame. A list of frame pointers is
a sequence of threads. Everything between lock and unlock is one step, because
only the holder of `self.mut` touches that state; the one exception, the `data`
of a queued receiver, is not read by its owner before it has been signalled. The
wait is not part of that step: `Unlock` (124, 177), `Wait` (127, 180) and
`WakeReturn` are separate, and `Signalled` wakes only a thread that is `asleep`.
`EnqueueFails` is `append` out of memory. `close` changes the flag and nothing
else. `init`, `deinit` run alone and `debugBuf` only prints.

`BoundedChannel` has neither mutex nor slots: a queue of values whose head is
received first; the first `BufSize` of them are buffered, each further one belongs
to a blocked sender. `Chan!Abstract` maps the packed slots followed by the data of
the queued senders to that queue, and each `(op, pc)` to a phase of the call.

Two things `std.Thread.Condition` may do are kept apart. A signal sent too early
is lost in every specification of `Chan`. A spurious wakeup happens only under
`SpuriousSpec`, which stops once a frame has died while its pointer is still
queued: from there on the code's behaviour is undefined.

### Rc and Arc

One allocation. A *handle* is one `Rc`/`Arc` or `Weak` value; the number of handles
is the only bound. In `Rc` each operation is a step. In `Arc` every atomic
read-modify-write or load is one, the state of a handle says how far its operation
has got, and all handles interleave. The single-threaded and the atomic layer,
managed and unmanaged, do the same to the counters. `initCyclic` is `CreateCyclic`,
then whatever `data_fn` does with copies of the weak pointer, then `FinishCyclic`.
A caller does not use a `Weak` again after `upgrade` returned null; `KeepSpec`
drops that discipline, which the documentation of `rc.zig` does not ask for.

`Arc!Sequential` shows that threads see `Rc`: an operation takes effect at its
access to the strong counter (for a weak handle, the weak one); the deallocation
that follows is invisible.

### Bot

Composes `BoundedChannel` with `BufSize` 0 (what `Chan` implements), the readers
and the workers as its threads, echoes as its values. `pending[c]` are the
requests the peer on connection `c` has not answered. The peer answers in any
order, loses replies, sends unasked ones; connections drop and are replaced
(`lost`, `surplus` count, as history; `MaxFaults` bounds them). Tasks make one
request (`jt`) or two (the echo and `ginfo`); messages that make none are left
out. `WriteFails` stands for every error before the request is on the wire,
`Received` for every way out of `recv`. External and modelled from its use: the
websocket library (one reader per connection, messages one at a time), the pool
(queued tasks start in any order), the peer. A panic (see the hazards) ends the
process and with it the behaviour.

### OneBot and Frames

`OneBot` gives each frame its `Meaning`: a reply, a message event, something that
is ignored, malformed JSON, or a panic. A frame is a record of its keys, a value
its JSON type or, where the code looks at it, a word of that type. Order matters:
`DynamicApiReturn.fromJson` asks for its keys one after the other, a missing one
makes it "no reply" and a key of another type before it makes it a panic.
`Parsed` says the same of the data of an answer, by the request it is taken to be
the answer to.

`Frames` follows each frame: the reader parses it into an arena of its own
(`Receive`), retains it before it calls `send` or `spawn` (`Retain`), hands it over
or fails to (`HandOver`, `HandOverFails`) and releases it in its `defer`; a task
starts, writes its requests, is given replies (`Deliver`), compares the echo,
parses and releases (`Read`, `Drop`, `End`). JSON that does not parse makes the
reader return an error (`ParseFails`); a lack of memory while the segments of a message
are listed becomes a panic (`AppendFails`: null, then `.?`). Which waiting task a reply goes to is
open here, so everything `Frames` shows holds for any order the channel has; `Bot`
has the order. A panic (`ReaderPanics`, `StartPanics`, `AppendFails`, `Read`) sets `process`, after
which nothing happens any more. In a release build without safety checks a panic
of this kind would be undefined behaviour.

The two models split one program: `Bot` knows which reply goes where, when one is
lost and when a connection drops, and has no arenas; `Frames` has the arenas and
the contents, and no connections.

### Bson and Query

`Bson` is `fromBson` and `toBson`: what becomes of a field of each type (the
reflection over a Zig struct is recursion over a record that describes it), what
is an error, what fails an integer cast, what a missing field is taken for, and
what `copyBsonField` leaves out on the way into a nested document. The types in use
(`TypesInOrder`, each after its parts), the values a document may hold (`Values`)
and those the program writes (`Written`) are constants, so that the recursion is a
function of them; a type `??T` is left out, which nothing in the program has.
`Query` walks a
cursor of the driver, converts each document while it is there, and adds up the
people as `main.zig:136` does. The cursor can be null, or break off, and a
conversion can run out of memory; filter and cursor are objects with a life of
their own. `find` and `findOne` differ in what they check, and the model keeps the
difference. The driver is external, modelled from its use.

### Calendar and Timestamp

`timestamp.zig` has no state, so the models supply one that gives its functions
something to be compared with. `Calendar` is a calendar on the wall that only
knows which day follows a day; the code's day count must agree with the number of
pages turned, and its parser must read what its printer writes. A date string is
the record of its fields (separators and the zone are not looked at by the code
either), a number of seconds the pair of its days and the seconds of the day.
`OutOfRange` marks the inputs on which the code fails a safety check. A fraction of
ten digits is taken as a number of nanoseconds, although the comment at
`timestamp.zig:193` says it is cut; a greater one than a `u32` fails the parse.

`Timestamp` writes a timestamp in some unit and reads it back, again and again.
`parseFromString` tells the unit by the length of the number: a number has `n`
digits when it lies between powers of ten, all given by `TenDigits`, the first
number with eleven. What lies in a gap (11, 12, 14, 15, more than 16 digits) is
read as seconds, as the code does by way of `parseFloat`.

Left out: the `float` format (rounding of `f64`), `now`, which does not compile
once it is used, and negative times (`@intCast` fails).

### Commands, MessageChain and Uuid

A message is typed character by character. `Commands` runs the code's byte-wise
comparison on it and compares with what a user means: a mark, the command, the
rest, in characters. Both copies of the code (`splitCommandStart`,
`checkCommandStart`) are in it.

`MessageChain` has the message of an event and the chains a handler opens and
closes like a stack. Each segment remembers in whose arena its string is, because
`chain` copies segments and not strings, while `at` formats into its own arena. A chain
may take from any other that is open. One that takes from a chain opened later (the bot
does not) holds strings that dangle once that one is closed; the segment carries the
mark `lent`, and `OnlyLentStringsDangle` says that nothing else makes a string dangle.

`Uuid` prints a version 4 UUID and lets somebody copy it with slips (a character
replaced, left out, added); `fromString` is its loop round by round (`Rounds`),
with the hyphens it takes anywhere and what it does not look at after the sixteenth
byte.

## The runs

| Run | Question | Bounds |
|---|---|---|
| `chan_buffered` | does `BufferedChan` keep mutex, slots, lists and frames consistent and implement it, with three calls queued at once | 4 threads, 2 values, 2 slots |
| `chan_liveness` | is the mutex always given back; is no queued sender passed over | 3 threads, 1 value, no slot (the channel of the bot) |
| `chan_lost_wakeup` | does a served waiter return (**no**) | 2 threads |
| `chan_spurious` | does a call that is woken spuriously do what it reports (**no**) | 2 threads |
| `arc_atomics` | the same for every interleaving; no resurrection; threads see `Rc` | 5 handles |
| `arc_weak_after_failed_upgrade` | is a `Weak` still counted after a failed upgrade (**no**) | 3 handles |
| `bot_replies` | do replies and waiting workers balance; own answer without overlap or fault | 2 connections, 2 workers, 4 echoes, 1 queued task, 1 fault |
| `bot_liveness` | does every task end, and every reader come back from `send`, if the peer answers and wakeups arrive | the same, no fault, 2 echoes |
| `frames` | are arenas counted, read only while they live, lost only by a failed hand-over; do reader and task use `Rc` as one may | 3 frames of 21 kinds each |
| `frames_onebot_peer` | does the bot survive a peer that keeps to the standard (**no**) | 2 frames of the same kinds |
| `sequential` | seven components without concurrency, one at a time (`part`; the others rest in one reachable state): `Rc`, dates, units of time, commands, chains, echoes, queries | 5 handles; every day 1970-2101, 3 clocks, 27 fractions; 42 instants, `TenDigits` 1000; messages of 5 characters out of 8; 2 open chains beside the message, 2 segments each; 2 slips; up to 2 documents, `MaxI32` 127, `MaxI64` 32767 |
| `mongo_round_trip` | does every record come back from the database as it was written (**no**) | the queries of `sequential` |

Why these are enough to meet the cases: two slots are the least with a shift, a
hole and a top-up, no slot the one case in which `recv` takes from a sender
directly; three queued threads the least that tell first-in-first-out from other
orders of removal; two threads the least for a race with a waiter.
Three handles make an upgrade race with a release and a third party, five leave
room for two such races. Two requests in flight on two connections are the least
in which answers cross. Each echo is reused only after it is gone everywhere, so
four echoes are as good as unboundedly many. Three frames are an event, its reply
and one that comes between (another event, somebody else's reply, one that ends
the process); twenty-one kinds have each meaning `OneBot` tells apart, and each kind
of data. Two documents are the least in which the second fails after the first
was converted. The widths of integers are scaled down so that casts and sums
overflow within reach of TLC: a value is below, at or above a limit, no more is
asked of it. Eight characters have both marks, a sign that shares two bytes with
the wide one, both letters of a command, a blank and a character of the city; five
of them are a command with an argument between blanks. Two chains are a chain and
one that it is made from, before or after it; two slips are the least with one that repairs another
(a character left out and one added). The years up to 2101 hold a leap year
by the rule of 400, years by the rule of 4 and one that is none by the rule of
100; TLC's integers are the reason for `TenDigits` 1000 (10^10 in the code; the
proof covers it) and for `MaxU32` 2 * 10^9. The next size up changes no verdict
where it was tried.

Fairness. `Chan!FairSpec`: a thread inside a call keeps running (the scheduler);
nothing is assumed about new calls, memory or wakeups. `QueuedSenderServed` is
conditional on takes going on. `Bot!FairSpec`: a runnable thread runs. That the
peer answers and that a served thread wakes is the hypothesis `Helped` of
`TasksEnd` and `ReadersReturn`, not part of the specification; `chan_lost_wakeup` shows that the code
does not guarantee the second half.

## What the violations show

1. *Lost wakeup* (`chan_lost_wakeup`). `self.mut` is released before `cond.wait`;
   the serving thread signals without the frame's mutex. If it is fast enough, the
   served thread sleeps for ever. In the bot: a worker is gone, or a reader.
2. *Spurious wakeup* (`chan_spurious`). Neither wait is in a loop, so a call may
   come back with its frame still in a list (`WokenIsServed`). `send` then reports
   success for a value that a later `recv` reads from a dead frame; `recv` reports
   `DataCorruption` and unlocks `self.mut` without holding it, and a later `send`
   writes to its dead frame.
3. *Failed upgrade* (`arc_weak_after_failed_upgrade`). `upgrade` gives up the weak
   count but keeps the pointer; a further `release` takes somebody else's count.
4. *A regular peer* (`frames_onebot_peer`). `Event.fromJson` and `EventData.fromJson` are
   optional and give null for an event they do not know, and `clientMessage` passes over
   a null; but between the two it is unwrapped (`onebot.zig:22`). A notice, which is
   what the OneBot standard sends when somebody joins a group, ends the process. It is
   not the only way: with notices taken out of `Regular`, TLC finds the answer to an
   action that failed, whose data is null (`action.zig:108`), ten steps from the start.
5. *Nested records* (`mongo_round_trip`). `copyBsonField` rebuilds a nested document without
   what is nested in it, so a struct in a struct in a record is written and read back as
   its default, with no error. No type of the program is that deep. What is
   less deep comes back whole (`ShallowReadsBack`).

Where a comment says less than the code does: `timestamp.zig:165` and `204` call the parser
and the day count a simplification without leap years. Both have them, by the full rule,
and `IsoReadsBack` finds each day until 2101 right, 29 February and 1 March 2100 included.

## Proofs

`ChanProofs` (for every set of threads and values and every `BufSize`): `IInv` is
inductive. The invariants worth having are not, one by one: that a signalled
receiver finds data needs that every sender carries a value (`FrameData`); that
frames are live needs that a thread is queued at most once, and only while parked;
that receivers wait only on an empty channel needs that the filled slots are a
prefix (`BufferPacked`), or `len()` would miss values. One lemma per action shows
that `IInv` is kept; `TypeCorrect`, `LockOwned`, `QueuesDisciplined`, `FramesLive` and
`ReceivedData` follow, of which `FramesLive` and `ReceivedData` hold without spurious
wakeups only: see violation 2. Assumed: `ChanAssumption` (`BufSize` is a
`u8`; `NULL` is neither value nor thread).

The refinement, `Spec => Refinement`: every step of `Chan` is a step of
`BoundedChannel` or none that it sees. The queue is the filled slots followed by
the data of the waiting senders' frames. The argument needs `IInv`: because the
slots are packed, dropping the first one and moving up the rest is `Tail`;
because a queued sender has data and is queued once, topping up from its frame
changes neither the values nor their order; because no receiver waits beside a
value, a direct hand-over does not overtake one.

`ArcProofs` (for every finite set of handles): the counters equal the
cardinalities of the sets of handles that stand for a count (`Counted`), between
any two atomic accesses. A few lemmas say what happens to a cardinality when one
handle moves from one set to another; each action is such a move. On its own
`Counted` is not inductive: that the handle which took the strong count to 0 is
alone with the value needs `LeavesLast` and `BuildsAlone`, that `weakCount` does
not wrap needs to relate what was loaded first to the present counter
(`Remembered`), and that nobody reads freed memory needs `FreedByLast`. Assumed:
`ArcAssumption` (finitely many handles).

The refinement, `Spec => Refinement`: every step of `Arc` is a step of `Rc` or
none that it sees. `Sequential`'s counters are what is left of the true ones when
the accesses still ahead are taken as done; a step that takes effect moves one
handle there and nothing else (`MoveSeen`), any other leaves the image as it was
(`Unseen`). That an upgrade which saw a count above 0 may succeed, and that the one
who frees is alone, are not visible in the state of one handle: they come from
`IInv`.

`RcProofs` (for every finite set of handles): the same counts without
interleavings, so the invariant is smaller: `Counted`, memory live exactly while
the weak counter is above 0, and the order of construction (`Fresh`,
`BuildsAlone`, `LeavesLast`). Assumed: `RcAssumption`.

`BotProofs` (for any number of connections, workers and echoes): `Balance` and
`OwnAnswer`. What makes them inductive is where an echo on
its way can be: in one `pending` or in the hands of one reader, never twice
(`OnePlace`), so that a reply moved is not a reply doubled; that readers only send
and workers only receive (`Roles`); and the channel without slots, in which the
queue is the replies of the blocked readers and nobody waits beside them
(`ChanOK`). `OwnAnswer` needs `Asked` besides: what is on its way was asked for by a
worker who still waits, unless the history says otherwise. Assumed: `BotAssumption`.

`FramesProofs` (for any number of frames, whatever the peer sends): `Counted`,
`ReadsLive`, `OnlyFailuresLeak`. The counts need to know where the second reference is
(`Placed`: an event's with its task, a reply's with the one task that received it), and
that no two tasks hold the same reply (`OneReceiver`). Assumed: `FramesAssumption` (the
words for "nobody", "the process is up" and "out of memory" are no frames).

`ImplementsRc` says of each arena that what reader and task do to it are steps of
`Rc` by two handles; it needs that whoever releases is still counted (`Counted`) and
that a second reference is made from a first.

`Induction`: the library's induction theorems have an operator as a parameter, which
the provers cannot instantiate. That `<` is well founded has none: so every set of
numbers has a least member (`LeastNumber`), a set that has 0 and with each number
the next is all of them (`AllNumbers`), and a recursive function over an interval has
the values its definition says (`SumRuns`). The two modules below argue by sets.

`ConversionProofs`, one inductive invariant per component:

* `NoDrift`, for every instant with ten digits of seconds. What has been written
  and not yet read belongs to the invariant; each conversion cuts, cutting twice cuts
  to the coarser unit, and the length tells the unit. Assumed: `TimestampAssumption`.
* `IsoReadsBack` and `OverlongCarries`, for every last year, clock and fraction: the
  date exists and its day count is the number of pages turned (`CalendarIInv`). The
  loop over the years is the recursive function `DaysBeforeYear`, whose one property
  that matters is what it adds from year to year; the table of months is compared
  with the calendar's months one by one. Assumed: `CalendarAssumption` (a fraction
  has one to nine digits).
* `CommandAsMeant`, for every set of characters, every command and every length: the
  bytes are those of the characters, one after the other (`CommandIInv`), so a mark
  at the beginning of the bytes is the first character, and the outermost bytes that
  are not blank belong to the outermost characters that are not. Assumed:
  `CommandsAssumption` (UTF-8: a character of more than one byte has none below 128,
  and three if it begins with 239).
* `OnlyLentStringsDangle` and `RepeatsOnlyWhatWasSaid`, for any number of chains, segments
  and messages: a string is in the message's arena, in that of its chain or of one opened
  earlier, or its segment was lent (`ChainIInv`); a copy of a lent segment is lent as
  well. Assumed: `ChainAssumption`.
* `ReadsOnlyItself`, for all UUIDs and any number of slips: as long as no digit is
  written by mistake, the digits of the text are digits of the UUID, at positions
  that increase (`Copies`). What `fromString` reads are 32 digits in the order of the
  text; 32 increasing positions out of 32 are all of them, so what is read is the
  UUID or an error. That the printed text is no error is a walk through the twenty
  rounds it takes. Assumed: `UuidAssumption`.

`QueryProofs`, for all types, values and documents: `NothingLeft`, `AnswerIsWhole`,
`OnlyNumbersPanic`, `ShallowReadsBack`, `MissingIsDefault`, and `QueryTypeOK` with them.
`Standing` says for each step of a query what is open, how many documents have been
read and converted, and what has been added up. What a conversion does to a type
follows from what it does to the parts, which come earlier in `TypesInOrder`; since
`copyBsonField` drops what is nested in what is nested, what two levels keep of a value
(`Flattened`) says all, and of a type without structs in its structs that is everything
(`ShallowKept`). Assumed: `BsonAssumption` (types are made of earlier ones; what is
written fits its type) and `QueriesAssumption`.

Only model-checked: liveness (`LockReleased`, `QueuedSenderServed`, `TasksEnd`,
`ReadersReturn`), since fairness and `ENABLED` are beyond the proof system. The five
violations are runs and not theorems.

What is composed is composed on paper in one place: `Bot` uses `BoundedChannel`,
which `Chan` implements for every number of threads, and `Frames` uses `Rc`, which
`Arc` implements; that `Bot` and `Frames` describe the same readers and tasks is for
the reader to compare.

## Not modelled

Because the repository does not say:

* whether the driver's client and collections may be used by several workers at
  once (`main.zig:128`), and how it walks the network;
* when the websocket library frees a `Handler` to which a queued task still points
  (`main.zig:228`); `Bot` takes the mildest outcome, that the write fails;
* the inside of the websocket library, of the pool and of `libs/` (vendored headers
  and binaries). What the program relies on is in `Bot`, `Frames` and `Query`.

Because it is not used, or does not compile once it is:

* `close` is in `Chan` and changes the flag, as the code does, but nothing is
  claimed of it: it promises nothing to those who wait, and no one calls it;
* arrays in documents, writing a `Timestamp` or an `ObjectId`, `at_all` and
  `Timestamp.now` are compile errors at their first use;
* UUIDs of versions 1 and 5, and the sources of randomness;
* a chain appended to itself.

Because a model checker adds nothing or cannot reach it:

* the order of memory accesses: `Arc` is sequentially consistent, so what the
  `.monotonic` of `tryUnwrap` (`rc.zig:637`) lets another thread see is open;
* an upgrade inside the `data_fn` of `initCyclic` (`rc.zig:197`), which takes away the
  only weak count;
* the rounding of the `float` format, times before 1970, the unit of a date that is
  read into a number;
* the text of messages and of the bot's answers;
* opening the client and its collections, and the start of `main`, which happen
  once and end the process if they fail; `main` never returns in service, so its
  clean-up (where joining a worker that waits for ever would hang) does not run;
* `maimai.zig`: record types, one of which `MCQuery` reads, with one string for
  five; `ws.rb`: a manual test client, whose frames `MCFrames` has among its inputs;
  the build script.
