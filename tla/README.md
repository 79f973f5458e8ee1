# mydss: a verification development

mydss is a small server that speaks a part of the Redis protocol: one thread,
one edge-triggered epoll instance, a list of sessions, and a number of
in-memory databases. This directory holds TLA+ modules that model it, TLC
configurations that check them, and TLAPS proofs about them. `PROJECT.json`
lists the runs, the mutants that each property catches, the lines of code that
each definition stands for, the hazards and the findings.

    tlc -workers 2 -config SessionSafety.cfg MCSession.tla
    tlapm SessionProofs.tla

## 1. The system

Source paths are relative to `src/`.

| component | files | state | operations |
|---|---|---|---|
| Event loop | `src/net/loop.cpp` | `fds_`: descriptor -> (readable handler, writable handler); the epoll instance | `SetInEvent`, `SetOutEvent`, `Remove`, `Run` |
| Connection | `src/net/conn.cpp` | `sock_`, `loop_`, `recv_reqs_`, `send_reqs_` | `AsyncRecv`, `AsyncSend`, `OnRecv`, `OnSend`, `Close` |
| Acceptor, server | `src/net/acceptor.cpp`, `src/server/server.cpp` | the listening descriptor, `reqs_` | `Start`, `AsyncAccept`, `Accept`, `OnAccept` |
| Session | `src/server/session.cpp` | `map_` of all sessions, a parser, a client name | `Start`, `Send`, `OnRecv`, `OnSend` |
| Parser | `src/server/parser.cpp` | two state machines that survive between reads | `Parse`, `Step`, `Reset` |
| Databases | `src/db/inst.cpp`, `src/module/ctx.cpp`, `include/module/object.hpp` | `dbs_`, `cur_db_` (one for all sessions); an object's value, `expire_time_`, `access_time_` | `GetObject` (drops what has expired), `SetObject`, `DeleteObject`, `Select` |
| Commands | `src/cmd/*.cpp` | none of their own | one function each |
| Pieces, slices | `src/module/piece.cpp`, `include/util/slice.hpp` | none | sizes and serialisation |
| Configuration, main | `src/config.cpp`, `src/arg.cpp`, `src/main.cpp` | `Arg`, `Config` (none that changes after the start) | `Arg::Parse`, `Config::Load`, `main` up to `Loop::Run` |

How they interact: `Loop::Run` takes one event from epoll and calls the
handler of the readable part, then that of the writable part. `Conn::OnRecv`
takes a pending receive, reads, and calls `Session::OnRecv`, which parses the
bytes and hands each request to `Inst::Handle`. A command looks up and changes
objects through `Ctx` and replies through `Ctx::Reply`, that is
`Session::Send` and `Conn::AsyncSend`: written at once if nothing is queued and
the socket takes it, queued otherwise and sent by `Conn::OnSend` later. At the
end `Session::OnRecv` asks for the next receive, which reads at once and so
calls `Session::OnRecv` again, one level deeper, until read returns EAGAIN.
Everything is a callback in one call stack; what runs concurrently is the
clients, the kernel and the clock.

What is hard about it:

- *Edges.* epoll reports an edge once. A client can send, read, close or reset
  between any two system calls of the server, in particular between an EAGAIN
  and the registration for the event. A wake-up that is lost there stalls a
  client for good.
- *Two records of one fact.* `fds_`, the epoll registration and the queues of
  the connection say the same thing three times and are changed one by one,
  with error paths between.
- *Handlers that close.* Any reply may fail and close the connection under the
  handler that sends it, under the loop over the requests, and under the loop
  that is about to call the other handler.
- *The stream.* Replies are written directly, queued, written in part, and
  closed behind by an empty piece; the client must see each once, in order.
- *The clock.* A command reads it several times; a key may expire in between.
- *Several sessions, one database selection.*
- *Two encodings of one value.* A text that begins with a number is kept as a
  number, every command branches on it, and the base class has a member of the
  same name that never changes.
- *Servers one by one.* The first server serves clients before the second one
  listens, and a failure then ends the process.

What makes each part correct: the loop's two records agree and none of its
calls fails; a connection is watched for exactly what it waits for; a session
is heard or about to close; replies are not lost, repeated or reordered; a
close waits for the replies before it; a closed connection stays quiet; every
request is read and every reply leaves in the end; a key that expired cannot be
seen in any way; a command does to a value what it would do to its text, however
the value is kept, and answers once; a piece is as long as it announces; when
the loop runs, every server listens where its entry says, and nobody was served
before there were databases.

## 2. The modules

    Loop    <- Session  <- MCSession     SessionProofs   (theorems)
                 SessionProofs <- SessionStreamProofs (theorems)
    Loop    <- Acceptor                  AcceptorProofs  (theorems)
    Parser  <- Requests                  ParserProofs    (theorems)
    Objects <- Keyspace <- MCKeyspace    KeyspaceProofs  (theorems)
    Objects <- Store                     (Keyspace implements Store)
    Strings <- Commands <- MCCommands    CommandsProofs  (theorems)
    Strings <- Texts                     (Commands implements Texts)
    Startup <- MCStartup                 StartupProofs   (theorems)

    Recursions <- ParserProofs, CommandsProofs, KeyspaceProofs

**Loop** is `Loop` as operators on one descriptor: a record with the two
handlers of `fds_` and, apart from them, the registration in the kernel. Every
operator returns the new record, whether the `Status` is ok, and whether the
kernel polled the descriptor again (an ADD or MOD does, and reports an edge that
came before; this is what makes the code's order EAGAIN-then-register work).
The branch that stops watching is modelled as it is: DEL, then MOD, which fails.

**Session** is `Conn`, `Session` and `Loop::Run` for a set of connections, with
their clients. Its variables are the fields of `Conn` (`sock`, `recv` = length of
`recv_reqs_`, `send` = `send_reqs_`), the descriptor record `fd`, the kernel's
side (`inbuf`, `room` in the send buffer, the ready list `rdy`, and `wire`,
everything ever written), and the thread (`pc`, `cur` and the locals of the
handlers that are running). The places of the thread are between system calls:

| `pc` | the thread is |
|---|---|
| `wait` | at `epoll_wait` |
| `recv` | in the loop of `Conn::OnRecv` |
| `arm`, `listen` | in `Conn::AsyncRecv`, before `read` and before `SetInEvent` |
| `serve` | in the loop of `Session::OnRecv`, in `AsyncSend` for each piece |
| `watch` | in `AsyncSend`, before `SetOutEvent` |
| `out` | in `Loop::Run`, between the two handlers |
| `send` | in the loop of `Conn::OnSend` |
| `down` | the process has ended: assertion, uncaught exception, `abort()` |

Client actions (`PeerSend`, `PeerShut`, `PeerReset`, `PeerDrain`) are possible at
every one of them. A request is abstracted to what it makes the session do: send
a number of pieces, send one and close (QUIT), or fail to parse. The units of a
piece on the wire carry their number and place, so that loss, order and
repetition can be told apart. The nested calls AsyncRecv -> OnRecv -> AsyncRecv
are one loop with the variable `base` for what they return to; their depth is
not modelled. The constant `Debug` says whether assertions are compiled in.

**Acceptor** is `Acceptor`, `Server::OnAccept` and `Loop::Run` for the listening
descriptor, with clients that connect between any two system calls. Its
variables are `reqs_` (a Conn is its number), the record of Loop, the backlog and
the ready list of the kernel, the sessions that were started, and the thread:
`async` and `watch` are in `AsyncAccept` before `accept4` and before `SetInEvent`,
`session` is in `Server::OnAccept`, `accept` and `pop` are in the loop of
`Acceptor::OnAccept` before `accept4` and after the handler. The nested calls of
`AsyncAccept` from the handler are one loop again, with `base` for what they
return to. What a session does when it starts belongs to Session, which in turn
has one action, `Accept`, for an accept that succeeds. An accept that fails with
anything but EAGAIN (switch `Failures`) runs the handler too, and the session on
a Conn without a socket reads from descriptor -1 and aborts.

**Parser** is `BulkStringParser` and `ReqParser`, one byte per action, and the
part of `Session::OnRecv` that feeds them: the end of a read, a request that
closes the connection, the end of the stream. The parser never looks ahead, so
the bytes of a read are chosen one by one as they are parsed and every cut of
every stream is a behaviour. A digit is its value and numbers are in base
`Radix`, the named bytes are the four that the grammar knows: other bytes are
refused or data, and so are these. `stream` and `handled` are histories.

**Requests** says what a stream means as a whole: a grammar that is read from a
position, with headers and data as ranges of positions where Parser counts down
bytes, and strings and requests as rows of parts, each from where the one before
it ends (`Row`, a recursive function of the position). It holds the properties
that compare the two, and is a module of its own because the code has nothing
like it.

**Recursions** models no code: it is what the proofs know of recursive functions
(section 4, Commands).

**Objects** is `Object` and the map of a database as operators of a time that
the caller has read: `PTtl`, `SetPTtl` (with the wrap-around of int64),
`GetObject` with its removal of an expired object.

**Keyspace** is the databases and the commands: one action per command, with
the readings of the clock that it makes (`Readings(n)`: non-decreasing, within
`Drift` of its start). `GET` stands for all commands that look at one object
and change nothing else. The quirks of the code are in it: RENAME of a key to
itself, INCR that never finds a number, the length that APPEND replies, the
replies of SELECT.

**Store** is what the databases promise: keys vanish at the moment they expire,
and a command looks at each key at one moment between its start and its end.
It says in sets what Keyspace does in loops. `Keyspace!KeepsPromise` is the
refinement: the abstract `store` is `dbs` without the objects that have expired.

**Strings** is what the code makes of a text: class `String` (`SetValue`, the two
members called `encoding_`), the library functions it rests on (`atoll`, which
saturates, and `std::to_string`), `I64AddOverflow`, the index arithmetic of
GETRANGE with its unsigned `size() - 1`, and the pieces with the size they
announce and the size they write. A text is a sequence of characters, a digit is
its value, and the code's base 10 and 64 bits are the constants `Radix` and
`MaxInt`, so that TLC can reach both ends of the range.

**Commands** has one action per command of `cmd/string.cpp` and
`cmd/connection.cpp` and per way of refusing one, on concrete texts, without
expiry: the other half of what Keyspace abstracts. It keeps the quirks: GETDEL
without a key reads behind its arguments, INCRBY of no integer and two other
refusals send nothing, INCR finds no number in any value, the replies of SELECT
are exchanged, and its index is narrowed to `int` before it is checked.

**Texts** is the same commands for a client that knows of texts only: numbers
are defined digit by digit, not by the loops of the code, and no encoding
exists. `Commands!EncodingIsInvisible` is the refinement: the abstract `store`
holds the text of each value.

**Startup** is `main`: `Arg::Parse` option by option, `Config::Load` with its
three loaders field by field (a field is absent, null, of the wrong type or a
value), `Inst::Init`, and then the servers in turn, each of which accepts
clients before the next one listens. `json::parse` throws for what is no JSON, which
`Load` catches, and for a number that overflows, which nobody does (`FileThrows`).
A session that is started while the servers are may end the process, for the reasons
that Session, Acceptor and Commands model (`SessionEndsAll`). The status of `LoadServerItem` is ignored,
so an entry with a mistake counts with what was read before it. A field that is
looked up in a `const json` and is absent is undefined behaviour: any value, or
the end of the process.

## 3. The runs

| run | instance | shows |
|---|---|---|
| `session_safety` | 2 connections, 2 requests each (1 or 2 pieces, QUIT, malformed), pieces of 2 units, room for 3, half-close and reset; 3.6 million states | all safety properties of Session |
| `session_live` | 2 connections, 2 requests each, room for 1 unit, half-close | every request is read, every reply leaves, every half-close is answered |
| `session_stream` | 1 connection | violation: `WireIsStream` |
| `session_throw` | 1 connection | violation: `ClosingInHandlerIsSafe` |
| `acceptor_clients` | 3 clients, accepts that fail | all properties of Acceptor, with every client served |
| `parser_streams` | base 2, at most 2 strings of at most 2 bytes, streams of up to 22 bytes in any cut; 1.8 million states | all properties of Parser and Requests |
| `parser_empty_array` | at most 1 string, 20 bytes | violation: `RequestWithinLimit` |
| `keyspace` | 2 keys, 2 values, 2 databases, at most 2 objects at a time, clock to 2, one tick within a command, int64 up to 4, all options of EXPIRE | Keyspace implements Store, also where the time to live overflows; the types |
| `keyspace_nx` | 1 key | violation: `NxKeepsExpiry` |
| `commands` | base 2, integers -4 .. 3, all texts of up to 2 characters and 8 longer ones, 2 keys, 2 databases, `int` of 2 bits | Commands implements Texts; replies, sizes and ends of the process |
| `commands_errors` | the same | violation: `ErrorsSpeakTrue` |
| `startup` | up to 3 arguments of 7 kinds, files of up to 2 servers, `db_num` in -1, 0, 255, 256; 4.5 million states | all properties of Startup |

*Why the bounds are enough.* Room for 3 units and pieces of 2 gives each
outcome of write: a whole piece, a short write, EAGAIN, and a flush that again
ends short; with one unit of room every piece is written in two. Two requests of
two pieces fill the queue behind a short write and let a second request, a QUIT
or a malformed request come while it waits. Two connections are the least that
can take the thread from each other; they share nothing else, so more add no
new interplay. In Acceptor one client is in the hands of a handler while the
next waits in the backlog and a third arrives, so `OnAccept` goes round its loop
with the client after next still to come. In Parser the code's base 10 and limits of
65535 become 2 and 2: what matters is that a number of one digit is within the
limits (`LimitsAssumption`, which holds in the code), that the limit itself and
the number above it both have more digits than one, and that a string of the
limit's length exists. In 22 bytes there is room for two requests of an empty
string (10 bytes each), for a request of two strings of which one has the limit's
length (22), and for what follows the header of an empty array (4). In Keyspace two keys are what RENAME and the commands with
several keys need to meet; with a clock of 0 .. 2 and times of 1 and 4 (and of
2 and 8 in seconds) a key ends before, at and after every moment, and sums pass
`MaxInt` = 4 = `Forever` and wrap around. In Commands the integers -4 .. 3 have the shape of
int64: an end without an opposite, numbers of one and of several digits, and texts that
saturate at either end (`100`, `-101`) or are cut off (`11x`). GETRANGE has every
pair of indexes against every length that occurs. An `int` of two bits is
narrower than the integers, so the narrowing of SELECT happens. In Startup two
servers are the least of which one is serving while the other starts, and with three
arguments a file is named before and after another option. The runs of Keyspace,
Commands and Startup use views without what no later action reads (the last
request and its reply, the arguments once they are parsed): properties are
checked on every step that is taken, the view only joins states that differ in
what was replied before. `FewObjects` bounds how many objects there are at once,
a constraint on what is explored further, not on the steps that are checked.

*Deadlock* is not checked: clients may stop, the process may go down, and the
clock reaches its bound.

*Fairness* (`FairSpec`). A handler that runs goes on: one thread, no locks, no
blocking calls (`WF(Step)`). epoll's ready list and the accept queue are queues,
so each ready descriptor is returned in the end (`WF(Drop \/ Dispatch)`,
`WF(Accept)`). And clients read what they are sent (`WF(PeerDrain)`): without it
no server could empty its queue. Clients are not assumed to send, to close or to
connect. In Acceptor the fairness is the same: `WF(Handler)` for the thread and
`WF(Drop \/ Dispatch)` for epoll. The bound on the requests of a client stands in for an assumption that
the code does need: `Session::OnRecv` keeps reading from one client as long as
data is there, so a client that never pauses keeps the thread.

### What the violations show

- `WireIsStream`: after a short write `AsyncSend` computes the unsent rest and
  queues the whole slice (`conn.cpp:93-94`). The client sees the prefix twice.
- `ClosingInHandlerIsSafe`: one event with both parts, whose readable part ends
  in `Close` (the end of file; QUIT only queues while the writable part is watched), makes `fds_.at` throw (`loop.cpp:154`). It
  needs a queue that is not empty, that is, a client that reads slowly.
- `NxKeepsExpiry`: `old_pttl` is read from the clock after the lookup; a key
  that expires between the two gets a new life from EXPIRE NX. GT has the same
  gap (`0` is less than any new time). Store says what remains true: the old time
  to live may be that of any moment up to the end of the command.
- `RequestWithinLimit`: the array of length 0, `*0\r\n`, is never complete
  (`parser.cpp:204` compares the length after a string was pushed), so everything
  the client sends from then on is collected as its strings, without a limit.
  `HandledWithinLimits` holds all the same: such a request is never handled.
- `ErrorsSpeakTrue`: SELECT replies OK when it failed and "DB index is out of
  range" when it succeeded (`connection.cpp:160`), and INCR of a stored number is
  refused as "not an integer", because `string.cpp:68` asks the encoding of the base
  class, which is raw for every string.

`WireIsStream` fails because of what is queued, not of how: `NoReplyLost`,
`RepliesInOrder` and `CloseAfterFlush` hold and say what remains true of the
stream. `DownOnlyByClient` says how the process of a release build can end: only
in a handler of a client that shut down or reset its connection.

## 4. The proofs

### Session

`SessionProofs` proves, for every set of connections, all sizes, any number of
requests, with or without assertions compiled in and for all faults of clients:

| theorem | property |
|---|---|
| `TypeCorrect` | `TypeOK` |
| `HandlersCorrect` | `HandlersMatchEpoll` |
| `ArmedCorrect` | `ArmedExactlyWhenWaiting` |
| `NeverDeafCorrect` | `NeverDeaf` |
| `LoopCallsCorrect` | `LoopCallsSucceed` |
| `ClosedCorrect` | `ClosedStaysQuiet` |

The assumptions are those of `Session`: `NoConn` is no connection, the sizes
are positive numbers, the switches have their types.

*The argument.* `TypeOK` is inductive by itself. The next four speak of the
moments between events, or of the place right before a call, so they are not:
in the middle of a handler the registration is behind the queue. `IInv` says what
holds at every place of the thread. A connection that no handler runs in is
`Parked`: closed and silent, or open and *heard* (one receive pending, or a
queue whose last piece closes), with handlers that follow from its queues. The
connection that runs is `RunningOpen`: for each place, which of the two handlers
lags behind (`base` tells whether the readable one is set while no receive is
pending) and, after a failed parse, that only the error reply is left
(`LastReply`). With this every call of the loop is made on a descriptor on which
it succeeds: a writable handler is set only when there is none, which makes
`loop.cpp:112` unreachable, and one is cleared only while the other is set,
which makes the fall-through of `loop.cpp:52` unreachable. One lemma per group
of actions shows that the running connection keeps its part; `OthersSame` shows
that the rest is untouched; `INext` combines them.

`ClosedStaysQuiet` is about steps. `IInv` makes a closed connection silent and
unknown to the loop (`ClosedSilent`); `QuietStep` goes through the few handlers
that can still run in it, those on their way out and `AsyncSend` for the rest of
a request; `OthersApart` shows that handlers of other connections do not touch it.

The last part of `SessionProofs` is about what edge-triggered epoll makes hard,
and how the process ends:

| theorem | property |
|---|---|
| `WokenAlways` | the invariant `WakeInv` |
| `NoWakeupLost` | `NoLostWakeup` |
| `DownByClientOnly` | `DownOnlyByClient`, for a build without assertions |

*The argument.* Between events an armed connection with something to report must
be on the ready list of the kernel. In the middle of a handler this is false: the
edge has been taken, and the handler still has data to read or room to fill.
`WakeInv` names the two debts. For each of the two events a connection is *awake*
(watched and possible implies on the list), or it is the one that runs and the
handler is still going to try: `WillRead` until the `read` that returns EAGAIN,
`WillWrite` while the writable event of this wakeup is still to come or is being
handled. A debt is paid by EAGAIN, which shows that the event is not possible, or
by a call to the loop, which polls the descriptor (`CallsPoll`, and `IInv` to
know which calls do: starting to read is no system call when the handler is set
already). This is where the order EAGAIN-then-register matters: data that arrive
between the two are seen by the poll.

`DownOnlyByClient` needs `GoneInv`: `Loop::Run` calls the write handler of a
connection that its read handler has just closed, and this ends the process.
While such an event is ahead (`Doomed`) the client is gone: a writable event means
that replies are queued, and behind a queue QUIT and the reply to a parse error only
join it (`NoCloseWhileQueued`), so only the end of the stream or an error of `read`
can have closed the connection. With assertions compiled in
the process has more ways to end, and the theorem says that it is about the other build
(`~Debug`).

`SessionStreamProofs` proves what the client reads:

| theorem | property |
|---|---|
| `RepliesFlow` | the invariant `StreamInv` |
| `NoReplyLostEver` | `NoReplyLost` |
| `RepliesOrdered` | `RepliesInOrder` |
| `ClosesAfterFlush` | `CloseAfterFlush` |
| `LostOnlyByClose` | `RepliesLostOnlyByClose` |

*The argument.* `NoReplyLost` is about moments when the queue is empty, so it
says nothing to build on while a piece is half sent. `Flow` relates the wire to
the queue at every place: nothing on the wire is of a later piece than an entry
of the queue (`Behind`); the queue is in order and only its front may have been
cut (`InLine`); the wire ends in the units that the front has sent already
(`Resumes`); every piece issued is whole on the wire or has an entry with units
(`Accounted`). An entry without units, from a close after the last piece, is in
the queue too and goes by the number of that piece. A partial write by
`AsyncSend` or `OnSend` keeps all four, whatever number of units the kernel takes:
the lemmas on `Flow` are about sequences alone, in the first part of the module,
and the second part shows that each action of the thread is one of their cases.
A closed connection has no queue left to speak of: `ClosedFor` keeps that, with
its client still there, a piece closed it and nothing after this piece was sent.
`EmptyLater` is needed for the empty piece of `Ctx::Close`: it is never the first
piece of a connection, so it has a number to go by.

### Acceptor

`AcceptorProofs` proves, for every set of clients and with or without failing
accepts:

| theorem | property |
|---|---|
| `AcceptorTypeCorrect` | `TypeOK` |
| `PendingCorrect` | `AcceptPending` |
| `ConnectsNoticed` | `NoLostConnect` |
| `OrderCorrect` | `ServedInOrder` |
| `DownCorrect` | `DownOnlyByFailure` |

The properties of the moments between events need what holds in the handlers.
The parts of `IInv` are: `Queued`, the length of `reqs_` at every place of the
thread (one in `OnAccept`, one more once the handler has asked for the next
accept, so the list is never empty when the handler returns and `reqs_.size() > 0`
holds on entry; the `SetInEvent` at the end of `OnAccept` is unreachable) together
with the registration; `Numbered`, that Conns are used in turn; `Ordered`, that
the arrivals are the served, the accepted and the waiting clients, in this order;
`Noticed`, that a waiting backlog is on the ready list when the thread waits; and `Blamed`, that a handler that is called without a client was called for a
failure.

### Parser

`ParserProofs` proves, for any base, any limits that no single digit exceeds, any
number of bytes and any cut of the stream:

| theorem | property |
|---|---|
| `ParserTypeCorrect` | `TypeOK` |
| `LimitsCorrect` | `HandledWithinLimits` |
| `ReadInOrder` | the invariant `RInv` |
| `WholeCorrect` | `ParsesAsAWhole` of Requests |
| `RefusalCorrect` | `RefusesOnlyBadStreams` of Requests |

The invariant `IInv` ties the counters to what is held: in the data of a string `cur_len_`
is the length of `value_` and less than `target_len_`, behind the data they are
equal, and a length that was accepted is within its limit; the strings of a request
are fewer than `array_len_`, or `array_len_` is 0 and it never completes. `Len(req)` is
compared with `array_len_` after each string, so a request that completes has exactly
as many strings as its length says, at least one and at most the limit. The
assumption on single digits is needed: the code tests the limit from the second
digit on.

*A stream as a whole.* `ParsesAsAWhole` and `RefusesOnlyBadStreams` compare what two
small machines did, byte by byte and read by read, with a grammar that sees all the
bytes at once. Neither is inductive, since they say nothing of a request that has only
begun. `RInv` adds `InOrder`: while the connection is open, the requests handled and
parsed are the complete ones of the stream up to some position `j`, and the parser is in
the middle of the request that begins at `j`. What "in the middle" means is a place in the
stream for each state of the two machines: `TypeRead`, `LengthRead` and `ReturnRead` in
the header, `StrPending` in a string, `ReqPending` in a request. Three groups of lemmas
carry the proof:

- *In the middle is not at the end.* To the grammar, such a part is one that needs more
  bytes, neither complete nor bad (`StrMore`, `ReqMore`). This is what makes `InOrder` imply
  `ParsesAsAWhole`.
- *A byte takes both to the same place.* `BulkStepReads` goes through the states of
  `BulkStringParser` and `ReqStepReads` through those of `ReqParser`: after the byte the part
  is complete for both with the same contents, bad for both, or pending for both. The
  number that the machine builds digit by digit is the value of the digits in the stream
  (section "Numbers"), so the limit is exceeded for both at the same byte.
- *What was read stays read when a byte is appended*: `HeaderStays`, `StringStays`,
  `RequestStays` and `RowStays`. Without it nothing could be said about the requests that
  were given out before.

A row of parts is a recursive function; `RowIs` is its equation, `RowStops`, `RowLong` and
`RowGoesOn` say how it ends, how many parts it can have in so many bytes and how one more is
added. An array of length 0 is a row that does not end: it needs more than there is in any
stream (`RequestPart`), and the machine goes on collecting strings for it.

### Commands

`CommandsProofs` proves, for any base, any width of integers, any keys and texts:

| theorem | property |
|---|---|
| `OverflowExact` | `I64AddOverflow` is true exactly when the sum leaves the range, and its own differences stay in it |
| `RepliesWhole` | `RepliesAreWhole` |
| `CommandsTypeCorrect` | `TypeOK` |
| `CommandsDownCorrect` | `DownOnlyByStrayRead` |
| `ToTextCorrect` | `std::to_string` makes texts, not empty and of a bounded length (`ToTextTyped`) |
| `SizesRight` | `SizesAgree` |
| `ToTextIs`, `AtollIs`, `RoundTrip` | `std::to_string` and `atoll` do what Texts defines; the one reads what the other wrote |
| `EncodingInvisible` | the refinement `EncodingIsInvisible` |

`RepliesWhole` is about single steps and needs no invariant, nor do the theorems about
numbers. The other properties of Commands need `HoldsTexts` (`HoldsAlways`), which adds two
facts to the types. No text in a database is longer than a string
can be: only then is `size() - 1` as an unsigned number what its sign says, and
`RangeThrowsOnlyEmpty` shows that `substr` throws for the empty text alone. And what is kept
as a text begins with no number but 0 (`Plain`), without which OBJECT ENCODING could say
`raw` of a number.

**Recursion.** `Numeral` and the two loops of `atoll` are recursive functions, and the
library's induction theorems have an operator for a parameter, which the provers cannot
instantiate. The proofs use a small theory of their own, the module `Recursions`, which
those of the parser and of the databases use too: a recursion that goes from `x` to
`pre[x]`, of a smaller size, until it is in `B` (`Descends`) defines a function (`Recursion`),
and a *set* that holds the ends and is passed on along the way holds everything (`Descent`).
Both rest on `Least`, that a set of natural numbers has a least one. `DigitInduction` and
`CountInduction` are the two cases that are used most here, and `CountRecursion` is the
recursion that counts from 0.

**Sizes.** A number has no more digits than it says, but for 0 (`NumeralLength`), so a text of
one is never as long as `SIZE_MAX`. In the same way `U64StrLen` of the code counts the digits
that `std::to_string` makes (`U64StrLenIs`); with the sign taken off in `uint64_t`, which
`Unsigned(-n) = -n` down to `INT64_MIN` shows to be right, every piece is as long as it says
(`StrLenIs`, and a lemma for each type of piece). `SizesRight` goes through the replies of all
commands, and uses `HoldsTexts` for those that send a value.

**Texts and numbers.** The number of digits is the only one whose powers of the base
enclose the number (`PlacesBound`, `PlacesOnly`), and each digit is the quotient by its power
(`NumeralDigits`): that is `ToTextIs`. For `AtollIs`, the sum over a set that Texts uses is
a recursion over subsets; any element can be taken off first (`SumsAny`), so the weighted
digits can be summed from the left as the loop does (`ReadTo`), and a text has one split at
most (`RunEnds`).

**The refinement.** `TextsIn` maps a database to the texts of its values. One lemma per
command (`SetStep` to `ClientStep`) shows that its step is the step of Texts of the same
name. The larger ones: MSET, where the last place of a key is the greatest one; GETRANGE,
where the clipped indexes are the ends of the set of places, and `substr` throws exactly
when Texts ends the process; SELECT, where the narrowed index is the only database that is
congruent to the number. `EncodingInvisible` puts them together with `HoldsAlways`.

### Keyspace

`KeyspaceProofs` proves, for any keys and values, any number of databases, lists of
keys of any length, any end and any drift of the clock and any width of integers:

| theorem | property |
|---|---|
| `KeyspaceTypeCorrect` | `TypeOK` |
| `PromiseKept` | the refinement `KeepsPromise` |

The assumptions are those of `Keyspace` and `Objects`. Two of them matter to the
proof: the times that EXPIRE takes are integers of 64 bits, as `atoll`
delivers them (`generic.cpp:98`, `Times` within the range), and the clock stops before
`INT64_MAX` (`MaxTime` less than `MaxInt`), since that value means "never" in
`expire_time_`: an object that ends at the last moment there is would be immortal
and not expired at once.

*The argument.* `TypeOK` is all that is needed of the states; the work is in the
steps. There is one lemma for each command, from `TickStep` to `MSetNxStep`, and
`PromiseStep` puts them together. They rest on a relation of two maps, `Like(a, b, t)`: at
the moment `t` the same keys are found in both, with the same objects. It holds
between a map and the map without what has expired (`LikeAlive`) or without the key
that `GetObject` has just dropped (`LikeSwept`), it goes on holding as the clock advances
(`LikeLater`) and it survives the same change to both maps (`LikePut`, `LikeErase`).
`Becoming` ends each proof: if what a command leaves in the map of the code is like
what the promise leaves, at the time of the last reading, then the step of `Store`
is taken. `Lookup` gives the moment in which a key is looked at.

The EXPIRE commands need what 64-bit arithmetic does (`WrapLaws`): the time is taken from
a sum or product that may have wrapped once already, `now` is subtracted, 0
replaces what is negative and `now` is added again, at a later reading. `ExpireTime` shows
that the result is the moment meant or as much later as the command took; or that
it has wrapped into the past, and then the key is gone in both (`LikeEnded`), or has
met `Forever`, and then it stays in both.

The commands with several keys are loops, and what their recursion computes has to be
found by induction. The library's theorems on induction cannot be used (they take an
operator as a parameter), so the induction is done on sets: in `Recursions`, `Least` takes
the least member of a set of numbers from the well-founded order of `Nat`, `Induct` is
induction for membership in a set and `ListRecursion` shows that a recursive function of
the place in a list exists and obeys its equation. From these come the invariants of the loops: `LooksLike` (MGET and EXISTS: what
was looked at does not change what is found later), `TouchesKeep` (TOUCH: the same keys
with a later access time), `ErasesLeave` (DEL: the keys of the map but those named so
far), `MSetsPut` (MSET: of two pairs with one key the later one is left) and
`NxSetsPut` (MSETNX: a key has the value of the first pair that did not find it,
`First`). For the last one there can be a pair that finds nothing although an earlier one
found the key, as it expired in between; `FirstIsOne`, `FirstComes` and `NxFree` show
that no key is set twice even so, because an object that the command has put does not
expire. The counts that EXISTS, TOUCH and DEL reply are bounded by
the keys that exist at the end and at the start (`Counting`, `CountingKeys`).

### Startup

`StartupProofs` proves, for any arguments, any number of them and of servers, and any
addresses:

| theorem | property |
|---|---|
| `StartupTypeCorrect` | `TypeOK` |
| `ServedCorrect` | `ServedWithDatabases` |
| `ListensCorrect` | `ListensAsAsked` |
| `DownCorrect` | `DownOnlyByFileOrSession` |
| `ArgsCorrect` | `ArgsObeyed` |

The invariant `Ready` has a part for each stretch of the way: before the databases
exist nothing listens and nobody is served; entry by entry the loaded servers are
what sound entries ask for; the end points listened on are a prefix of the servers, at
different places. `ArgsCorrect` is about steps: the arguments passed so far are options
that are known, and `conf_file` is the last file they named. `DownCorrect` goes through the
ways of an entry into the loader: `EntryLoaded` shows that only a `Fatal` one ends
the process, and `Ready` tells the two halves of the start apart, as `dbs` is 0 in the first.

### Only model-checked

The liveness properties, `RequestsRead`, `RepliesFlushed` and `EofCloses` of Session and
`EveryClientServed` of Acceptor: this prover cannot reach fairness. Every other property of
a passing run is a theorem.

## 5. Not modelled, and why

- The remote address, which `Accept` computes from a buffer that `accept4` does not
  fill (its length is 0) and nothing reads, and the backlog of a server: a
  configuration file may name one, no loader reads it.
- A client that goes away while it is in the backlog: `accept4` hands it out on
  Linux, and its session finds the end of its stream.
- Signals (EINTR of `epoll_wait`, SIGPIPE), running out of memory or of descriptors,
  the depth of the stack. A write to a reset connection returns an error in the model.
- Assertions: `Session` has them behind the constant `Debug`, and its theorems hold
  with and without them; the runs are of the release build.
- A clock that is set back.
- The map of sessions, which only grows: it holds a `shared_ptr` to each session, so
  the destructor that would erase the entry never runs. No command walks it.
- The client name: `CLIENT SETNAME` changes a copy (`session.hpp:40`), so there is
  no state to model, and CLIENT GETNAME reads what is gone.
- What the JSON library accepts, `StrToI64`, which nothing calls, the reference
  counts of slices, logging, the texts of help, version and errors.
- That `Config::Load` reports a failure (`config.hpp:89`) is not so for an entry of
  `server` with a mistake, nor for a number that overflows (`1e999`), for which
  `json::parse` throws `out_of_range` past the `catch` of `config.cpp:102`. Startup
  follows the code in both, `ListensAsAsked` says what is still true of the other
  entries, and `DownOnlyByFileOrSession` what in a file can end the process.
- Expiry and concrete texts together: Keyspace and Commands model the same commands
  with one each. They meet in the values, which expiry never looks at.

## 6. Plan

1. *Done*: Loop, Session, their runs, the registration theorems and
   `ClosedStaysQuiet`; Acceptor with its theorems; Parser and Requests with the
   theorem on the limits; Objects, Keyspace, Store and the refinement run; Strings,
   Commands and Texts with theirs; Startup with all of its properties proved.
2. *Done*: the rest of the safety properties of Session, with the ready list and the
   wire in the invariants.
3. *Done*: the types of the databases, and the refinement of Store by Keyspace with every
   command in it.
4. *Done*: `std::to_string` and the sizes of pieces; `atoll`, and the refinement of Texts by
   Commands with every command in it.
5. *Done*: a stream as a whole; Requests has recursive functions, and both of its
   properties are proved, so that all safety properties of the passing runs are.
6. **Sessions and databases together**: the selected database shared by sessions,
   with requests of two clients interleaved, and what each client is promised.
