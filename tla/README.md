# Verification of cppevent

cppevent is a C++20 library for a single-threaded event loop over `io_uring`,
with coroutines (`task`), sockets, an HTTP server and a PostgreSQL client on top
of it. This directory holds TLA+ models of its core, the TLC configurations that
check them, and TLAPS proofs. Source paths below are relative to
`src/src/` of the repository.

## 1. The system

| Part | State | Operations | Talks to |
| --- | --- | --- | --- |
| `event_loop` | `m_running`, `m_events` (FIFO) | `add_event`, `run`, `stop`, factories | bus, io_service |
| `event_bus` | `m_id_counter`, `m_callbacks` | `register`, `deregister`, `notify` | callbacks |
| `event_callback`, `suspended_coro`, `status_awaiter` | an optional status, an optional coroutine handle | `notify`, `set_handle`, `reset`, the three `await_*`, the awaiter's destructor | bus, coroutines |
| `io_service`, `io_listener` | the ring; one callback per listener | `get_sqe` and eight `on_*`; `poll` | kernel, loop |
| `async_signal` | a callback, copyable triggers | `await_signal`, `activate` | loop |
| `async_queue` | items, one callback | `push`, `await_items`, `front`, `pop` | loop |
| `task` | coroutine frame, continuation, exception, `m_linked` | start, `co_await`, end, destruction, `unlink` | every coroutine |
| `timer` | a timerfd and a listener | `wait` | listener |
| `byte_buffer` | storage and two ends | `read`, `write`, chunks | socket |
| `socket` | two buffers, two listeners | `read`, `read_c`, `peek`, `seek`, `skip`, `write`, `flush` | listeners, buffers |
| `client_socket`, `server_socket`, `server` | descriptors, accept task | `connect`, `accept` | listeners, handlers |
| `pg_database` | `m_idle`, `m_waiting`, `m_conn_count` | `get_connection`, `release` | loop, connections |
| `pg_connection` | socket, `m_query_ready` | `init`, `query`, `prepare_query`, `execute` | socket, pool counter |
| `scram`, `pg_result`, `pg_params`, `pg_conv`, `cppevent_crypto` | values | conversions, hashes | pg_connection |
| `http_server`, `http_body`, `http_output`, `http_line` | per request | parse, serve, frame bodies | socket, router |
| `http_router`, `http_request` | path tree; headers | `match`, `process_*` | http_server |

There is one thread, so no data is raced for. What is hard is everything that
can happen *between a suspension and the resumption*: other coroutines run,
objects are destroyed, results for them are still in the kernel, in the
completion queue or in `m_events`, and a condition that was checked before a
`co_await` is no longer true after it. The hazards are listed line by line in
`PROJECT.json`. What makes each part correct:

* loop, bus, ring, callbacks: every result goes to the object it was asked for
  and to no other, once; no coroutine sleeps on a result that is there; no dead
  coroutine is resumed and no dead object notified;
* queue: no consumer sleeps beside an item; no return without an item;
* socket and buffer: the byte streams keep their order with nothing lost,
  repeated or stale, however the kernel splits them, and only the real end of a
  stream looks like one;
* pool: a connection has one user, the counter is right, the limit is kept, and
  clients in line are served;
* tasks, server, client sockets, timers: a stored continuation is that of a frame
  that waits; a descriptor has one holder; which frames and descriptors are lost
  is known exactly;
* connection to PostgreSQL: results are those of the statements that were run,
  "ready" means that nothing is outstanding, a password decides as it should, and
  no call waits for an answer that was never asked for;
* HTTP: each request is read from its first byte, each body by its own endpoint,
  and each response ends where its framing says.

## 2. Modules

| Module | Models | Extends |
| --- | --- | --- |
| `EventCallback` | a callback's operations as functions | |
| `EventLoop` | loop, bus, ring, signals, coroutines | `EventCallback` |
| `MCEventLoop` | symmetry for TLC | `EventLoop` |
| `EventLoopProofs` | theorems: bus, callbacks, coroutines | `EventLoop` |
| `RingProofs` | theorems: where an operation is | `EventLoopProofs` |
| `Channel` | what `async_queue` promises (abstract) | |
| `AsyncQueue` | `async_queue`, refined to `Channel` | `EventCallback` |
| `AsyncQueueProofs` | theorems | `AsyncQueue` |
| `ByteBuffer` | `byte_buffer` as functions | |
| `Socket`, `MCSocket` | `socket` over two buffers | `ByteBuffer` |
| `SocketProofs` | theorems | `Socket` |
| `PgPool` | `pg_database` and the counting of `pg_connection` | |
| `PgPoolProofs` | theorems | `PgPool` |
| `Task` | a coroutine frame's operations as functions | |
| `Server` | `server`, `server_socket`, `client_socket`, `timer`: frames and descriptors | `Task` |
| `ServerProofs` | theorems | `Server` |
| `Encoding` | base64, bit by bit | |
| `Scram` | the client's half of SCRAM-SHA-256 | `Encoding` |
| `PgConnection` | `pg_connection` and `pg_result` against a server | `Scram` |
| `MCPgConnection` | evaluates `RoundTrip` for the run | `PgConnection` |
| `PgConnectionProofs` | theorems | `PgConnection` |
| `HttpRouter` | the tree of paths, and what should match | |
| `HttpServer`, `MCHttpServer` | one connection of `http_server`, with lines, body and output | `HttpRouter` |
| `HttpServerProofs` | theorems | `HttpServer` |

Definitions named `..._something` under a comment "Mutant" are deliberately
wrong variants of the definition that follows them; no specification uses them.
They show that the property they are paired with in `PROJECT.json` would notice
such a bug.

### EventLoop

The thread is described by `stack`: the coroutines on it, the running one first;
when it is empty the thread is in `event_loop::run`. A coroutine of the model is
a whole chain of tasks that `co_await` each other, since such a chain suspends
and resumes as one. `waits[d]` is the callback a suspended chain awaits. The
statement `co_await callback.await_status()` is `Await`: `AwaitReady`,
`AwaitSuspend`, or `AwaitThrow` when `set_handle` throws and the unwinding runs
`~status_awaiter`. An `on_*` of a listener is `OnIo` (queue an sqe, then await),
or `OnIoNullSqe` when the ring is full and `get_sqe` writes through NULL.
`Dispatch`, `PollSubmit`, `PollReap` and `PollThrow` are the steps of `run` and
`poll`; a retry after `EINTR` changes nothing and is a stutter. `Cancel` is the
destruction of a suspended task, which does not cancel what it queued.

A callback object lives in storage (`Listeners`, `Signals`) that may be used
again; `m_id[c] = 0` means that no object is there. The owner of a callback
outlives the awaiters on it, but not the operations queued through it.

A status is abstracted to the identity of the operation it reports
(`[inc, n]`: which construction of the callback, and a name). So the properties
can say *whose* result is where. Operation names are recycled once nothing refers to
them, so behaviours have no end and no bound on the number of operations.

The kernel (`Submit`, `Complete`) is external: it takes any prefix of the
submission queue when `KernelFaults` holds, the whole of it otherwise, and
completes operations in any order.

### AsyncQueue and Channel

The consumer is running, suspended elsewhere, or waiting in `await_items`. Of
`m_events` only the number of the queue's own events matters. The refinement
maps the consumer's state to the `Channel`'s reader; `Deliver`
to a consumer that finds no item, and stale statuses, are stutters of the
`Channel`. Liveness: `Channel` has weak fairness of `Unblock`, which
`AsyncQueue` implements with weak fairness of `Deliver`.

### ByteBuffer and Socket

A step is what a coroutine does between two suspensions: a call runs its loop
until it ends or waits in `recv_incoming` or `on_send`. The peer's bytes are
numbered in the order sent, and so are the bytes handed to `write`; so stale,
lost or repeated bytes show. The kernel answers a recv with any number of bytes
that are there and fit, with 0 at the end of the stream *and also when given no
room*, or with an error. `seek` is called, as its callers do, with no more than
`peek` showed. `read` into memory and into a string differ only in the
destination and are one action.

### PgPool

A client is a coroutine that calls `get_connection` and `release`. The two
suspension points of `get_connection` (connect and init, or waiting in line) are
steps of their own, as is the dispatch of a wakeup. Ids of callbacks in
`m_waiting` and `m_events` are written as the client that owns them, or `Dead`
after the client was destroyed; this uses what EventLoop shows of the bus
(`BusConsistent`, `NoMisdelivery`). After `front()` on an empty `m_idle`, which
is undefined behaviour, the model stops with `undefined` set.

### Task and Server

A frame has a state, the promise's `m_linked` and `m_outer`, and `owned`: does a
task object exist whose destructor will destroy it? `Task` has one function per
thing that happens to a frame; `Server` applies them to the accept loop, the
`accept()` it awaits and one frame per connection. A step is what runs between
two suspensions: `Accepted` is `accept()` resumed, its end, the loop resumed by
it, `on_connection` up to its first suspension *or to its end*, `unlink`, the
destruction of both temporary tasks and the next `accept()`. `holds` says who
will close, or hand on, which descriptor; the kernel may give a closed number out
again at once. `lost` counts the descriptors that nobody will ever close.
Destroying a server leaves its operation in the kernel (`stale`), which may still
produce a descriptor. `timer` is there for its descriptor and its failing
constructor; when it ticks is the kernel's choice. Address resolution is left out.

### Encoding, Scram and PgConnection

The wire carries units: a message's header, with its type and the length that
counts itself, and one unit for its payload if it has one. Each message handled
is one step. `Send` is `write` and `flush` together; `out` keeps what
`prepare_query` has written and not flushed. `populate_result` is called without
`co_await`: it gets its row if the kernel has already delivered it (`RowWhole`)
and is destroyed in its read otherwise (`RowCut`). Where a payload is about to be
read as a header the model stops, since what follows depends on the data. A type
without a `case` has only its header read (`QueryOther`, `ExecuteOther`). On a
broken connection any write or flush may throw: the first of a call
(`CallFails`, which leaves `m_query_ready` as it was) or one that a call makes
after a read (`FlushFails`).

The PostgreSQL server is external, modelled from the messages the client expects
and from the protocol: it runs the statements of a query one by one until one
fails (`ServeStatement`) and then says it is ready (`ServeQuery`), holds
its answers in the extended protocol until `Flush` or `Sync`, suspends a portal at
its row limit, and passes everything over up to `Sync` after an error. `Lose`
breaks the connection with any prefix of the answer still to be read.

Hashes are terms: `hmac(k, m)` equals another only if key and message do. The salt
and the number of iterations are octets in base64 and decimal text, and are
decoded as the code does it, so that a slip in the padding shows as a different key.
`Encoding` and `Scram` are functions; the constants of a run decide how many
salts of every length modulo 3 pass through them.

### HttpRouter and HttpServer

A router is a set of nodes (paths whose elements are names or a parameter), the
parameter names each node has learnt, and the endpoints. `set_endpoint` inserts
nodes one by one and keeps those it made when it throws; `match` walks down
without ever going back (`Stages`: the node behind each number of segments).
`Covers` and `Shadows` are the reference definitions.

The client's bytes are tokens: lines by what their parsing tells apart, and single
bytes of bodies, named by request and position. `ReadRequestLine`,
`ReadHeaderLine`, `Match`, `End` and `Keep` are the stages of `on_connection`;
`ReadRound` is one round of a `read` or `skip` with `has_incoming`. The endpoint
is a program of the user: it may make any calls, in any order, up to `MaxCalls`,
return or throw. `Cut` is the client closing its end, and `RecvFails` an error of
recv, thrown out of `on_connection`. `input` stands for the
stream as `Socket` delivers it (`ReadInOrder`, `ShortOnlyAtEnd`). Query strings,
trimming and letter case are left out.

## 3. Runs

| Run | Instance | Distinct states | Shows |
| --- | --- | --- | --- |
| `event_loop` | 3 coroutines, 2 listeners, 1 signal, 3 operations at a time, 3 constructions, ring of 2, kernel faults, symmetry | 643,715 | safety of the loop |
| `event_loop_live` | 2 coroutines, 1 listener, 2 signals, no faults | 266,305 | `IoServed`, `SignalServed` |
| `double_await` | 2 coroutines | violation | finding 1 |
| `async_queue` | 4 items, 4 events | 605 | `NoLostWakeup`, refinement of `Channel` |
| `socket` | buffer of 2, streams of 4, calls of up to 3 bytes | 371,880 | order and completeness of both streams |
| `pg_pool` | 3 clients, limit 2, line of 4, 1 leak | 39,930 | exclusiveness, count, service |
| `pg_pool_limit` | 2 clients, limit 1 | violation | finding 2 |
| `pg_pool_front` | 2 clients, limit 1 | violation | finding 3 |
| `server` | 4 descriptors, 3 connections, 1 coroutine, 2 peers, 1 stale accept | 131,712 | ownership of frames and descriptors, `PeerServed` |
| `pg_connection` | up to 2 statements of 5 kinds, 2 rows, limits 0, 1, 2, 5 ways to authenticate, salts of up to 4 octets | 21,322 | results, readiness, authentication, no standstill |
| `pg_rows` | selects of 1 row | violation | finding 4 |
| `http` | 74 scenarios of routes and requests, calls of size 1 and 3, 3 calls | 111,173 | boundaries of requests, bodies and responses; routing |

Why the bounds are enough. Three constructions over three places let storage be
used again while a result of the earlier object is still under way; three
coroutines let one wait, one await a second time and one destroy; a ring of two
overflows. The queue's bounds let it empty and fill again before an event is
delivered, which is what makes stale events. A buffer of two with calls of three
makes every read and write cross the buffer's end, stop in it and rewind it.
With a limit of two and three clients the limit is both kept and exceeded, and a
client waits while others hold, connect and drop. Four descriptors for a
listening socket, an accepted one, a handler's and a coroutine's are used up, so
`accept` fails for want of one, and numbers are used again while old holders are
still there; one stale accept outlives its server into the next. Two statements
of two rows tell results, and rows within them, apart; a limit of one suspends a
portal in the middle, and of two at its end. Salts of 0 to 4 octets have every
amount of padding with and without a whole group before it. A body of chunks of 1
and 2 bytes read in pieces of 1 and 3 is read up to, short of and across the end
of a chunk and past the last one, and the plain request behind it shows where the
reading stopped.

`CHECK_DEADLOCK FALSE` stands where the system may stop: in the loop after
`stop`, after a crash, or when nothing is left that could complete; in the pool
after undefined behaviour or when dead ids fill the line (its bound); in the
connection to PostgreSQL once it is closed, or where the model stops before
reading a payload as a header; in the HTTP connection when it ends.

Fairness. `LiveSpec` of EventLoop: a running coroutine goes on to its next step
and `run` never rests while it can go on, since both are plain code on the one
thread; the kernel completes each operation submitted to it. `SignalServed`
needs no more. `IoServed` is stated for behaviours in which `run` finds
`m_events` empty again and again: without that TLC shows two coroutines that
activate each other's signals and keep `run` from ever polling. `LiveSpec` of
PgPool: the loop dispatches, the server answers or fails, and clients let go of
their connections, which is an assumption about the users of the pool.
`WaiterServed` excludes lost connections and destroyed waiters, after which a
waiter may indeed be stranded: neither `~pg_connection` nor the bus passes the
turn on. `Server`: the kernel answers an accept while a peer waits, the loop
resumes `accept()`, and handlers end; the last is needed only because the model
has a bounded number of frames for them. `PgConnection`: weak fairness of the
client's steps (the loop resumes a read that has something to read) and of the
server's. Neither assumes that the connection stays up.

## 4. Proofs

The proofs hold for every value of the constants that the named assumptions
allow. Those say that bounds are numbers, sets are disjoint, clients are finitely
many (`LiveBound` counts them), requests and routes are made of what a client can
send and a program can register, and markers (`Noop`, `NoStatus`, `NoCallback`,
`NoCall`) are not values.

**EventLoop.** `EventLoopProofs` has `TypeCorrect`, `BusCorrect`,
`NeverMisdelivers`, `NeverSleepsOnStatus`, `HandlesLive` and `WaitersKnown`, all
from `Inductive: Spec => []IndInv`. The invariant has three parts, proved one after
the other:

* `Registry`: types, the bus, and that ids are given out in order, so that the
  construction an object is (`inc`) equals its id; awaited callbacks exist.
  `BusConsistent` alone is inductive only with the last two, since registering
  must not overwrite a live id and `Unawait` must touch a live object.
* `Waiting`: a coroutine on the stack awaits nothing and is there once; storage
  without an object is blank; then `NoSleepOnStatus`, `HandleLive` and
  `WaiterKnown`. Without the fact about the stack a running coroutine could
  suspend twice and overwrite its own place.
* `TrueIds`: whatever is on its way carries the id of the construction it was
  made for. `NoMisdelivery` follows with `Registry`: a known id leads to that
  construction.

`RingProofs` adds what becomes of an operation:

* `Once`: an operation is in one of five places (the submission queue, the
  kernel, the completion queue, `m_events`, a callback's status), and there once.
  `NeverDuplicates` (`NoDuplicate`) is a part of it, and
  `NeverLosesCompletion` (`NoLostCompletion`) needs it: taking an operation out of
  one place must not take another one along.
* `Awaited`: operations and triggers belong to constructions that have been, and
  whoever made one through a callback that nobody else had used waits there until
  it is answered. `CompletionsOwn` (`OwnCompletion`) follows.
* `Ringed`: what is in the submission queue is of listeners that are still there,
  unless a wait was abandoned or doubled. So a full queue, which a NULL sqe needs
  (`Loaded`), has by `Awaited` a waiting coroutine for each of its entries:
  `OverflowMeansLoad` (`OverflowNeedsLoad`), for programs that abandon no
  operation and await no callback twice.

**AsyncQueue.** `NeverLosesWakeup`, from the invariant that the handle is stored
exactly while the consumer waits, with no status beside it; and `QueueIsChannel`,
the safety part of the refinement.

**Socket.** For every buffer size, size of a call and answer of the kernel:
`TypeCorrect` (both buffers stay within their storage) and `AlwaysRoom`
(`RecvHasRoom`), from `Inductive`: a call suspends only with the buffer empty, an
emptied buffer has been rewound, and the kernel has not handed over more than was
sent. On top of it:

* `Stream`: what lies between the ends of `m_in_buffer` is the piece of the stream
  between what calls have taken and what has been received (`Holds`), and what a
  call has so far is the piece before it. `ReadsInOrder` (`ReadInOrder`) and
  `ShortAtEnd` (the action property `ShortOnlyAtEnd`) follow.
* `Written`: what the kernel has accepted, with what lies in `m_out_buffer` behind
  it, are the bytes handed to `write` up to those that a waiting write still has to
  store: all of them, or in order after a send that failed. It gives `WritesInOrder` (`WriteInOrder`); a plain statement that the
  accepted bytes are a prefix is not inductive, since nothing would tie the
  buffer's content to it.

**Server.** For any numbers of descriptors, connections, coroutines and peers:
`HoldersDistinct` (`OneHolder`), `ResumedFramesLive` (`ResumesLive`) and the
action property `HandlersIndependent` (`HandlerIndependent`), from `Inductive`.
Its invariant adds to `OneHolder` two things: `Awaited`, that only `accept()` is
ever awaited, by a loop that is suspended and whose frame owns its task, so that
destroying the loop takes the continuation with it; and `Sockets`, that a
suspended handler is unlinked and holds its socket, and that an answered accept
has a descriptor to hand on. Without `Sockets` the end of a handler might close
nothing; without `OneHolder`, another's. `LossesExact` (`LostExactly`) counts: the
open descriptors that nobody holds are as many as `lost` says, which each step
changes by the number of descriptors it strands.

**PgPool.** For any clients, connections and limit: `NeverShared` (`Exclusive`),
`AlwaysInLine` (`InLineOnce`), `NeverStranded` (`NoStrandedWaiter`), `CountCorrect`
(`CountExact`) and `ConnectionsBounded` (`LiveBound`). The invariant says that
exactly the clients in `init` and `holding` have a connection (`Having`), that
whoever is in line waits and is there once (`Lined`), that whoever waits is in
line (`Placed`, until the undefined `front()`), and that no connection has two
places (`Apart`). They need each other: a woken client may take a connection
only because it has none, which `Lined` and `Having` give, and it leaves no second
id behind because it was there once. On top of it, `Turns` adds that without
destroyed waiters no dead id uses up a wakeup, and `Counted` follows the number of
open connections through each step; losing one lowers it by one because of `Apart`.
For the bound, a client asks for a new connection only when none is idle, so the
connections there are have each a client of their own, who is not connecting.

**PgConnection.** `Inv` describes the conversation from both ends: `Greeted`
follows `init` through start-up, password and the SCRAM messages, each with what
is on the wire in either direction, and `Later` says which of a query, a `Sync`
or nothing the server owes. `ReadyIdle` (`ReadyMeansIdle`) follows: while
`m_query_ready` is set between calls neither end waits for the other. `AuthSound`:
`init` succeeds only with a server that needs no password or has the client's,
whatever decoding does. `AuthDecided` (`AuthDecides`) and `SaltsAgree`
(`SaltAgrees`) have the hypothesis `RoundTrip`: on the salts and counts of the
run decoding undoes encoding. It is about constants alone, and TLC evaluates it
for the run's salts in `MCPgConnection`.

`Matched` goes on from `Inv` to what calls return: `ResultsRight`
(`ResultsMatch`), for all statements, limits and sequences of calls. It says that
what has been read (`Built`: the results so far are the answer's first, and the
last is a beginning of the next) and what is still to come (`Remaining`) are
together the server's answer. `Leads` makes that exact: each message on the way
takes the client from one point of the answer, so many results and so many rows
of the next, to another, and the last one ends at its end. A break cuts the units
anywhere, so what remains is then the beginning of something that leads there.
`execute` needs more, since `PortalSuspended` ends it and `close_sync` goes on
after it: `Executing` says that an `s` is the last unit on its way and finds the
server with nothing else to answer, and `Final` that nothing the server has still
to handle changes the result that `close_sync` will return. The lemmas follow
`Leads` through a read, an answer of the server and a break. TLC has checked
`Matched` on the states of the run `pg_connection`, with the part about a break,
whose rest it cannot enumerate, left out.

**HttpServer.** `Responding` describes what `http_output` has written: every
response is whole except the one being written, which has whole chunks only, none
of them of size 0, and goes on the way its head says, whatever headers were set
after that. `ResponsesFramed` (`ResponseFramed`) follows, for any calls of the
endpoints. It needs that the server's own answer, which declares a length of 0,
is never given to an endpoint to write to.

`Received` describes the other direction, for any requests and calls: where in
the client's requests the connection is. It ties four things together: the
place in `input`, the headers seen so far (`InHeading`, `Known`), the chunk that
is being read with the bytes of it that are left (`InBody`), and what the calls
of the endpoint have got (`taken`, `Called`). `BackAtBoundary` (`AtBoundary`),
`NoneDropped` (`NoRequestDropped`) and `BodiesInOrder` (`BodyInOrder`) follow.
The last says that every call takes its bytes off the stream in order and each
once, and that what a string call returns, or a memory call of one round, is
those bytes; a memory call of several rounds is the exception (see 5).
None of them is inductive: a line is read where a request starts only because
`m_incoming` was exactly what the current chunk had left. The proof rests on
where the tokens of a request lie in `input` (`Laid`, `LengthLaid`,
`ChunksLaid`, `EndingLaid`), which come from the lengths and places of
sequences joined one after the other (`JointSteps`). Each stage then has a lemma
that it keeps `Received`; `Advances` is `has_incoming`, and `Taking` one round of
a read. TLC has checked `Received` on the states of the run `http`.

`EndpointsRight` (`RightEndpoint`) is about the router, for any routes, in any
order of registration, with any of them failing on the way, and for any request.
It rests on `RoutingInductive`: the router is a tree (`Planted`) in which the
beginnings of a node are nodes, a node has a parameter's name exactly if it has
the child for it, and an endpoint is at its route's end, with its route's names on
the way. The second part is what lets `match` go down `m_param_route` after it
has looked only at `m_path_param`. It would break if a failed registration left a
name without the child, so `PlantsOn` follows `set_endpoint` node by node.
`Trodden` then says where `match` is behind each segment (`StageNodes`, by the
least segment at which it would not hold). `FoundExact` and `NoneExact` compare
that with any other path: the first place at which the two part is one where the
other has a parameter and `match` took a name.

Every safety property that a passing run checks is stated by a theorem. Only
model-checked is everything about liveness (`IoServed`, `SignalServed`,
`PeerServed`, `WaiterServed`, `CallEnds`, the liveness part of the refinement of
`Channel`), which is outside the prover's reach, and what base64 computes: the
hypothesis `RoundTrip` of two theorems about PgConnection, which TLC evaluates.

## 5. Findings

1. **A refused second awaiter silences the first** (`double_await`).
   `set_handle` throws "handle already set", but the second `status_awaiter`
   still points to the callback and its destructor resets it, the first
   coroutine's handle included. The first coroutine is never resumed.
2. **The connection limit can be exceeded** (`pg_pool_limit`). It is checked
   before `co_await connect()` and counted after it. `LiveBound` says how far:
   one connection per client.
3. **`front()` of an empty queue** (`pg_pool_front`). A client that arrives
   between `release` and the dispatch of its event takes the connection, and the
   woken client does not look again.

4. **Rows are read without `co_await`** (`pg_rows`). `query` and `execute` call
   the coroutine `populate_result` and drop its task. A row that is not wholly in
   the socket's buffer is not added, and the next header is read from within it.

Observed while modelling and not findings of a run; properties that would fail by
one of them state it as an exception:

* `IoServed` needs its premise (starvation of I/O by signals);
* `~pg_connection` wakes nobody, and move assignment of `pg_connection` never
  counts off the socket it closes (`leaked` in `CountExact`);
* a handler that ends before its task is unlinked leaves its frame and its open
  socket to nobody; failing constructors and connects, and accepts that outlive
  their server, leave their descriptors open (`lost` in `LostExactly`);
* an error of accept ends the accept loop, and nobody is told (`PeerServed`);
* the switches of `query` and `execute` have no default: the payload of a
  ParameterStatus is left unread (the second way to leave `InStep`);
* `http_body::read(void*)` writes every round to the same place, so a read across
  two chunks overwrites itself (`rounds` in `BodyInOrder`);
* a `query` whose flush throws leaves `m_query_ready` set, though what it wrote
  may have reached the server (`ReadyMeansIdle` speaks of live connections);
* `match` does not go back, and a registration that throws leaves nodes that hide
  others (`Shadows` in `RightEndpoint`);
* of the lines after the last chunk only one is read, so a connection whose client
  sends trailers is closed (`AtBoundary`, `NoRequestDropped`);
* a HEAD or OPTIONS request to an existing path throws and drops the connection.

Where a property states one of these as an exception it does not catch it: in
`PROJECT.json` such a hazard is listed with a note and without that property.

## 6. Limits

Every part that keeps state is modelled, and every safety property of a passing run
is proved. Not modelled, and why:

* `pg_params`, `pg_conv`, the typed access of `pg_result`, `get_row`: stateless
  conversions by `std::to_chars` and `from_chars`; a statement stands for its text
  and parameters.
* the query string, trimming and letter case in `http_request` and `util`:
  stateless string functions with unit tests.
* the OpenSSL wrappers, big-endian helpers, error texts and build files: no state
  of their own.
* address resolution: blocking, and over before the first suspension.
* writes of the kernel into a socket buffer after a task was destroyed: the loop's
  model keeps results and not memory.
* a coroutine destroyed while `query` flushes, before `m_query_ready` is cleared:
  PgConnection sends a message in one step.
