# cuerpc in TLA+

cuerpc is a header-only RPC framework on boost.asio: `cue::rpc::client`
(`include/cuerpc/client.hpp`) sends requests to a `cue::rpc::server`
(`include/cuerpc/server.hpp`), which looks up a function by name and sends the
response back. This directory holds TLA+ models of the parts of it that keep state
across threads, handlers and connections, the configurations that check them
with TLC, and proofs checked by TLAPS.

All paths below are relative to `src/include/cuerpc/` unless they say otherwise.

## 1. The system

### Components and their state

| component | source | state | operations |
|---|---|---|---|
| pending invocations | `client.hpp` 142-297, 428-444, 505-552 | `request_id_`, `invokes_` under `invokes_mutex_`, a timer per call | `invoke`, `async_invoke`, `invoke_oneway`, `handle`, `release`, timer handlers |
| connection of the client | `client.hpp` 110-140, 299-426, 446-503 | `socket_`, `ready_`, `reconnect_count_`, `heartbeat_*`, `write_queue_` under `write_queue_mutex_` | `ready`, `do_connect`, `close_all`, `do_heartbeat`, `redo_heartbeat`, `do_read_*`, `request`, `do_write` |
| wait event | `detail/wait_event.hpp` | `stop_`, a condition variable | `wait`, `wait_for`, `stop` |
| session | `detail/session.hpp` | `socket_`, deadline timer, `header_`, `write_queue_` | `run`, `do_read_*`, `reply`, `do_write`, `do_check_heartbeat` |
| dispatcher | `detail/dispatcher.hpp` | `invokes_`: name -> function | `serve`, `dispatch`, `reply` |
| acceptor | `server.hpp` | `acceptor_` | `listen`, `do_accept`, `swap` |
| engines | `detail/engines.hpp` | the `io_context`s, `index_` | `get`, `run`, `stop` |
| future adapter | `detail/use_future.hpp` | a `std::promise` per call | set by the callback, broken when the callback is destroyed |
| awaitable adapter | `detail/use_awaitable.hpp` | `ready_`, a coroutine handle, a result | `await_ready`, `await_suspend`, `set_value`, `get` |
| codec | `detail/stub.hpp` on the vendored `../msgpack` | while unpacking: the parser's and the visitor's stack, the zone of the objects | `pack`, `unpack` |
| protocol, byte order | `detail/protocol.hpp`, `endian.hpp` | whether the header of a queued request was converted | conversions in `do_write`, `do_read_header` |
| traits | `common.hpp`, vendored `deps/string_view.hpp` | none | |

### How they interact

* **Threads.** A client has one *run thread*, which executes `client::run` and so
  every handler (connect, read, write, timers), and any number of *user threads*,
  which call `ready`, `invoke`, `async_invoke` and `invoke_oneway`. Callbacks run
  on the run thread and may make calls themselves. A server has one thread per
  `io_context`; a session lives on one of them.
* **Calls.** A call takes an id from `request_id_`, arms its timer, enters its
  callback in `invokes_` and appends its request to `write_queue_`; the thread
  that finds the queue otherwise empty starts the write. `handle`, on the run
  thread, moves the callback out of the table and calls it.
* **Connection.** Every failed or aborted handler calls `close_all`, which closes
  the socket, thereby aborts the other operations and starts a new connect. The
  queue survives: its front request is written again on the new connection.
* **Heartbeats.** The client sends one after 15 s without a response and closes
  after 3 misses. The session closes after 90 s without a header.
* **Server.** The session reads a frame, starts reading the next and hands the
  request to the dispatcher, which replies through the session's queue.

### What is hard, and what makes each part correct

* *Invocations*: user threads, the run thread and timers meet in one table;
  responses may be late, repeated or missing. Correct means: no callback is used
  twice, none is lost, none is answered with the reply to another call, nothing
  accumulates, `invoke` returns.
* *Connection*: handlers of an old connection run after the new one was begun;
  aborted handlers begin connections of their own; users write concurrently.
  Correct means: the client is never left without connection attempt, heartbeat,
  read loop or writer; no request is lost; what is sent is well-formed.
* *Session*: replies come from two handlers while writes and a deadline are in
  flight, and every frame may be malformed. Correct means: one read and one
  write at a time, the right replies in order, a bad session is closed and freed.
* *Wait event*: several threads call `ready()` while the run thread connects.
  Correct means: one of them connects, all of them learn the outcome, none misses
  the notification.
* *Acceptor, engines*: accept loops on several threads share `index_`, which is
  not synchronised. Correct means: accepting never ends, `get` returns an engine
  that exists and loads them evenly.
* *Dispatcher*: engines look functions up while others are registered. Correct
  means: one reply on every path, by the right function.
* *Client and server together*: requests are written again after a reconnect, while
  the session of the old connection may still execute what it received. Correct
  means: a function is executed at most once for a request, a request is lost
  only with a connection, and on a connection that lasts every call is answered.
* *Heartbeat and deadline*: both ends watch the other with timers, while functions
  keep the session from reading. Correct means: a connection that works is kept,
  a silent one is given up by both ends.
* *Codec*: bytes from the network drive two stacks that are never compared, and an
  allocator; numbers are packed by value and read by type. Correct means: memory
  stays in bounds, every payload is decoded as the format says or refused, and a
  value is read back whole or refused, never cut off.
* *Awaitable adapter*: a response may come before the coroutine is suspended, or
  while it is. Correct means: it is resumed once, with its result.

`PROJECT.json` lists each hazard at its line with the properties that cover it.

## 2. Modules

| module | models | status |
|---|---|---|
| `AbstractCalls` | what the client promises about a call | checked, proved |
| `Invocations` | `invokes_`, ids, timers, `handle`, `release`, `invoke`'s wait | checked, proved |
| `InvocationsProofs` | theorems about `Invocations` | proved |
| `AsioOperations` | asynchronous operations as boost.asio runs them (external) | used by `Session` |
| `Session` | `session.hpp` and the outcome of `dispatcher.hpp` | checked, proved |
| `SessionProofs` | theorems about `Session` and `Dispatcher` | proved |
| `ClientConnection` | connect, reconnect, read loop, heartbeat, write queue | checked, proved |
| `ClientConnectionProofs` | theorems about `ClientConnection` | proved |
| `WaitEvent` | `wait_event.hpp` and `ready()` above it, with `call_once` | checked, proved |
| `Server` | `listen`, the accept loop, `engines::get` and `run` | checked, proved |
| `ServerProofs` | theorems about `Server` | proved |
| `Dispatcher` | `serve`, `dispatch`, `invoke_proxy`, `reply` | checked, proved |
| `Awaitable` | coroutines that await calls, and the run thread that resumes them | checked, proved |
| `AwaitableProofs` | theorems about `Awaitable` | proved |
| `AbstractRpc` | what client and server together promise about a request | checked, proved |
| `EndToEnd` | the queue of the client, a session per connection, the callbacks; refines `AbstractRpc` | checked, proved |
| `EndToEndProofs` | theorems about `EndToEnd` | proved |
| `KeepAlive` | heartbeat and deadline with discrete time | checked, proved |
| `ReadyKeepAliveProofs` | theorems about `WaitEvent` and `KeepAlive` | proved |
| `Unpack` | msgpack's parser, its visitor and its zone | checked, proved |
| `Formats` | the formats the packer chooses for integers and lengths, what a type makes of a number | checked, proved |
| `UnpackProofs` | theorems about `Unpack` and `Formats` | proved |
| `Codec` | packing, conversion to a type, the format as a grammar | checked |
| `MC...` | the instances TLC checks | |

The modules meet at these points. `Invocations` hands a request to a channel;
`ClientConnection` is that channel's client side and `Session` its server side.
`EndToEnd` composes the three, with coarser steps, and `KeepAlive` composes the
timers of the two sides. `Codec` extends `Unpack` and `Formats`; the outcomes of
unpacking are choices in `Dispatcher` and `Session`. `Session` and `Dispatcher`, and
`WaitEvent` and `KeepAlive`, do not compose each other: two of them share a module of
proofs, so `Dispatcher` and `KeepAlive` call their specifications `DispatcherSpec` and
`KeepAliveSpec`.
`ClientConnection` has the test, the sleep and the notification of `ready()`, each a
step; `WaitEvent` adds the mutex, the sides of `call_once` and the two halves of the
event's `stop()`, and reduces the connection to its outcomes. `Session`
takes the dispatcher as a choice of reply codes, `Dispatcher` says where they come
from. `Server` starts sessions. `Awaitable` takes the entry of `invokes_` that
owns its promise as a record that lives until it was called or released.

### Invocations

An action is a step between two points at which another thread may see a
difference. `AllocateId` is the atomic increment (197, 217), `ArmTimer` is
`callback_adapter::run` (205, 236), `LockInvokes` and `Register` the two ends of
the critical section around `emplace` (206-207, 237-238), `Request` the call of
`request` (209, 240), after which `invoke` waits. On the run thread
`FindHandler` is the first critical section of `handle` (431-436), `Callback`
stops the timer and calls the callback without the lock (438-441), `EraseEntry`
is the second critical section (442-443).

`release` (505-508) takes `write_queue_mutex_` although it changes `invokes_`.
While nobody is inside `emplace` it is one step, `Release`. While somebody is,
it is a data race: `ReleaseRaces` keeps any subset of the entries, and
`RegisterLost` lets the insertion itself be lost. `raced` remembers that this has
happened; properties that cannot be kept then say so.

The connection is a channel here: a request that was handed over may be
answered never, once or repeatedly.

### Session

Every handler is one step, since only one thread runs the session's
`io_context`. `ops` counts, per operation, what is in flight and which handlers
are queued with which result (module `AsioOperations`), so a session with two
reads or two timers in flight is a state the model can be in. Closing the socket
or cancelling the timer turns what is *in flight* into queued handlers with
`operation_aborted`; a handler that is queued already keeps its result. The
peer sends frames of any type, may send a bad first byte, may vanish; `arrived`
numbers the frames, which serves as the request id.

`PayloadRead(code)` starts the next read and then dispatches, in that order
(156, 161); `code` is what the dispatcher replies with: the result, `exception`
if the payload cannot be unpacked, `nonsupport` if the name is unknown.
`FunctionThrows` is the case in which the registered function throws, which
nothing catches.

### ClientConnection

`done` is the queue of the `io_service`: handlers run in the order in which
their operations finished. That order matters here, because several handlers of
one closed connection each close again, and because a connect that has just
succeeded may be queued behind them. Each handler is one step, with one
exception: in the handler of `async_connect` user threads act between
`connect_wait_event_.stop()` (316) and the look at `write_queue_` (319), so the
handler is `Connected` followed by `Flush`. A user's `request` is three steps,
as its `do_write` is outside the lock: `Enqueue`, `GetRequest`, `Write`.

`ready()` is `AlreadyReady` or `CallReady` (110-122), then the wait on the condition
variable (`wait_event.hpp` 38-41): `TestTrue` or `TestFalse` evaluates the predicate,
`Sleep` goes to sleep, `WakesSpuriously` may end the sleep; `Return` is the look at
`ready_` (123); who got false may call again (`CallsAgain`). `Connected` and `GiveUp` set
the event and wake up those who are *asleep* (`Notified`); as they hold no mutex, a thread
between its test and its sleep (`Overtaken`) misses that and sleeps until
the next connect that succeeds, or the last that fails, notifies again.

`Stop` is the user's `stop()` (138-140), after which no handler runs. `overlap`
remembers that two `do_write` were under way at a time; `crashed` records the
first undefined step: an assertion (501), the use of a request that was popped, a
`pop()` on an empty queue.

### WaitEvent

`ready()` is a step per access to shared state: the test of `ready_` (111), the
three sides of `call_once` (115), the mutex of the event (`wait_event.hpp` 39),
the test of the predicate, the sleep, which releases the mutex, and the return
(124). `stop()` (48-51) is two steps, `SetStop` and `NotifyAll`, as it holds no
mutex; a notification reaches the threads that are asleep at that moment. A
thread may wake up without one.

### Server

`engines::get` (50-55) is three steps: the test that wraps `index_`, its load and its
store. Any thread may be between them, since nothing locks. `raced` remembers
that two calls overlapped and `crashed` that a subscript was out of bounds. The
main thread calls `listen`, any number of times and on any server, and then
`run`; from then on the handler of an accept runs on the thread of the engine
that the acceptor lives on. A second `listen` on a server replaces its acceptor
and thereby aborts its accept, whose handler then accepts on the new one as well.

### Dispatcher

A registration is two steps, because an engine may look up while the table
changes: the look-up may then miss any entry, and `raced` is set. On a thread of
an engine, unpacking the name, the look-up, unpacking the arguments with the call
and the return are steps of their own; each error is an action that replies and
returns. An entry of the table is the number of its registration, and `constants` has
the numbers of those that are const member functions: the overload of `invoke_proxy`
for them (119-123) hands the pointer on with its `const` and so calls itself. `Recurse`
is that; the thread either stays there for ever or, as `StackOverflows`, ends the process.

### Awaitable

`promise[c]` is the promise of the call that coroutine `c` made last. It belongs
to the callback in `invokes_` and dies with it; the coroutine has a plain pointer.
The run thread goes through `set_value` step by step: the result, `ready_`,
`resume()`. A coroutine that is resumed runs on the run thread, inside the
callback, until it is suspended again; only then does `handle` erase the entry.

### EndToEnd

`queue`, `write` and `link` are the client: `Request` queues and, if the queue was
empty, writes (446-461); `RequestWritten` is the handler of a write, which pops
and writes the next (483-497); `Breaks` is a handler that fails, with the
`close_all` it leads to; `Connected` is the handler of `async_connect` (312-324).
`StaleConnect` is that handler run for a socket that another handler has closed
meanwhile: its `do_write` converts the front request, for the new socket. A write on a
socket that is not connected yet fails at once or is pending until the connect ends, and
is then doubled by `Connected`; `DoWrite` chooses. `net` is the byte order of a header,
flipped by every `do_write` (472-476).

Each connection has a session of its own, with the frames on their way to it and
the responses on their way back. A session goes on executing what it received
after the client has left (`session[c]` stays `"open"` until `Ends(c)`). A frame in
host order makes it `"deaf"`: the length of the payload, reversed, takes all that
follows for payload, and only the deadline ends that (`SwappedRead`). A heartbeat
has length 0 in either order and is answered. `sent` is the connection a request
left on. If user and connect handler write the front request at once, `doubled`
is set and nothing is claimed from there on; that is the finding of
`client_assert`.

### KeepAlive

Time is discrete and handlers take none of it: `Tick` waits until no handler is
queued, no timer is at zero and no message has been under way for `MaxDelay`. `done`
holds the client's handlers in the order in which they became ready: the wait for
the next heartbeat, expired or aborted, and the failed read or write. The order
matters, as the handler of an aborted wait counts as a miss unless
`heartbeat_check_response_` says otherwise (354). A function occupies the session
for up to `MaxBusy` ticks, in which it reads nothing.

### Unpack and Codec

A step of `Unpack` is a pass of the loop of `context::execute` (`v3/parse.hpp`
244-627) or of the loop of `consume` inside it (168-218). `levels` is the
parser's stack (what each open container lacks), `cursors` the visitor's (where
the next object of each goes), `zone` and `chunks` the allocator, `blocks` what it
has handed out. `Single`, `FixAggregate`, `Announces` and `Unknown` read a selector,
`Scalar`, `Length` and `LongAggregate` its trail, `Insufficient` is the end of the
payload; `ItemEnds`, `KeyEnds`, `ValueEnds` tell a container that an object is
complete. When the zone is full, `ChunkFor` doubles the size of a chunk until the
request fits; if `size_t` overflows first, after `Doublings` times, the chunk gets
the size of the request.

`Formats` is apart from `Codec` because nothing in it is recursive: `PackInt`, the
shortest format for a number, `PackStr`, `PackBin` and `PackArray`, those for a length, and
`AsInt`, the conversion of a number with its limits. A number is a sign and 64 bits as
bytes, so that all widths can be told apart.

`Codec` has the rest of the packer (`Pack`), the conversion of objects to a type (`As`)
and, to compare with, the format as a grammar (`Decode`) and what a value of one type
means to a reader of another (`ReadAs`). The dispatcher depends on the latter: it reads
a payload as a tuple of the name only, then again as name and arguments. A
`std::vector<unsigned char>` is not packed like other vectors but as BIN, and is read
from BIN or STR and nothing else (`Kind`); a `std::string` likewise.

## 3. Runs

| run | asks | instance |
|---|---|---|
| `invocations` | is every callback in one place, used once, with its own reply; does the table implement `AbstractCalls`; does an answered or timed `invoke` end, does a timed entry leave the table? | three calls (invoke, invoke with timeout, async_invoke with timeout), one further id |
| `session` | one read, one write, replies in order; is a session whose peer falls silent closed, a closed one freed? | three frames |
| `client` | do connection attempts, heartbeat, reading and writing go on whatever fails; is no request lost; does `ready()` return unless it misses the notification or the client was stopped, does a lost connection come back or give up? | one user, 2 attempts, 2 misses, one heartbeat |
| `client_assert` | does `get_request` always find a request? **No** | same |
| `ready` | is one connection begun, does nobody return early, does a thread that waits after the event return? | `ready(500)`, `ready()`, `ready(2000)` |
| `ready_wakeup` | does `ready(1000)` return? **No** | two threads |
| `server` | is `get` in bounds and even as long as its calls do not overlap; does one accept loop never overlap with itself; is every connection accepted? | two servers, two engines, three `listen`, one error |
| `dispatcher` | one reply to each request that is done with, by the function registered first? | two engines, two names, two registrations, const member functions or others, two requests each |
| `awaitable` | is no resumption lost; can only the first `co_await` be overtaken? | two coroutines with two calls each, one with timeouts |
| `end_to_end` | is a request executed at most once, lost only with a connection, answered on one that lasts; does the whole implement `AbstractRpc`? | a call, a timed call, a oneway request, a heartbeat, two connections |
| `codec` | do the two stacks agree, is memory in bounds, is every payload read as the format says, does a reader get what was packed? | all payloads of up to 3 bytes from 26 and of 4 from 10, the messages of `MCCodec` with all their prefixes |
| `keep_alive` | is a working connection kept, a silent one noticed in time? | interval 3, deadline 18 ticks, 3 misses, delay 1, functions up to 1 tick, two calls |

### Bounds

* *Calls*: with three calls two can be at any two points of their way while the
  third's timer fires; each kind (waiting, timed, both) is present. The theorems
  hold for any number.
* `MaxOtherId`: one heartbeat or oneway request is enough to shift the ids; it
  shares nothing else with calls.
* `MaxFrames`: with three frames, two responses queue up behind the one being
  written, and a third follows a bad or oneway frame.
* `MaxReconnects = 1`, `MaxMissed = 2`: the code has 5 and 3. Only "another
  attempt is allowed" and "the last one" differ, and both occur.
* `MaxBeats`: how many heartbeats become due in a behaviour; each is a request
  in the queue. With one it is queued behind, or ahead of, the user's request. The
  run was also done with two, where one may still be queued when the other is due:
  1,554,722 states, with the same outcome.
* `MaxDone`: the world stands still while more handlers than that wait; handlers
  themselves queue as many as they abort. With two, a handler of the old
  connection and one of the new one can wait together.
* *Threads in `ready()`*: one that connects, one that waits for `call_once` and one
  that comes later; the arguments allow none, five and two further attempts.
* `EngineCount = 2`, `MaxListens = 3`, `MaxConnections = 2`, `MaxErrors = 1`: the
  index wraps several times, two servers listen and one of them again.
* `MaxServes = 2`, `MaxRequests = 2`: two registrations of one name or of two, with
  requests on each engine before, between and after them.
* `Awaits = 2`: the first call is made on the user's thread, the second inside a
  callback; all later ones are like the second.
* `MaxConns = 2` in `end_to_end`: whatever a connection leaves behind meets the next
  one, and the last may break as well. One request of each kind is enough, as
  they meet only in the queue; each may be first, last or alone in it.
* `keep_alive`: a tick is 5 s. The values are those of the code (15 s, 3 misses,
  90 s), so a heartbeat that is due in the middle of a function, after it, or
  together with a response occurs. `MaxConns = 3`: misses and aborted waits of a
  connection reach the next, twice. `PromptAssumption` says how short functions
  and delays have to be for the properties to be claimed: two delays and all the
  functions of the connection take less than `MaxMissed - 1` intervals, which the
  client's misses allow, and one interval, two delays and one function less than the
  session's deadline. The values of the code leave a wide margin in both. Without
  the interval in the second, a response that comes late puts the next heartbeat
  off by an interval and the deadline falls in between: with interval 1, deadline 3
  and delay 1 TLC finds a working connection closed.
* `codec`: every format is among the payloads, those with long trails among the
  longer ones, which are also cut off after every byte; the numbers are those
  around each limit of a format or a type, the vectors of bytes those with 0, 1, 2, 255
  and 256. `ChunkSize = 64` (the code has
  8192) makes arrays of three and more objects open a chunk of their own size, and
  lets strings leave the zone at any alignment and a chunk full to its last bytes.
  With `Doublings = 8` (a `size_t` allows about fifty), requests that doubling
  satisfies and requests too large for it both occur.

`CHECK_DEADLOCK FALSE` where the system may stop: a stopped client, a terminated
process, a session without operations and an exhausted bound have nothing left to
do. `codec` checks deadlock: parsing ends only with a result.

### Fairness

Threads are scheduled and timers expire: weak fairness of each call's own steps
and of the run thread. That a response arrives, that a peer sends or reads or
that the server is there is never assumed. `session` assumes that the session's
thread runs and that 90 seconds pass, `client` and `ready` that `connect` ends
in some way, `server` that an accept ends when a connection waits, all of which
the operating system guarantees; neither `client` nor `ready` assumes that a sleeping
thread wakes up by itself. `session` and `end_to_end` take every registered function to
return or to throw, so that their liveness says nothing of a function that never does,
a const member function among them. `end_to_end` assumes that handlers run, that a write to a
connection that stands ends, and that sessions read what has arrived; nothing
makes a connection break, end or last. `codec` and `keep_alive` need no fairness:
time that may not pass before something is done makes the bounds of
`SilenceIsNoticed` safety. `SyncInvokeReturns` speaks of calls that were answered or have a
timeout: without either, `invoke` waits by design, and it does so also after `stop()`.

### Findings

1. `client_assert`: `ready()` is released before the connect handler has looked at the
   queue, so two threads write the same first request. Depending on the order
   the assertion of `get_request` fails, a request that was popped is used, or
   `pop()` meets an empty queue.
2. `ready_wakeup`: a thread between its test of `stop_` and its sleep misses the
   notification, and `ready()` does not return, with or without a timeout: the
   argument limits the number of attempts, not the wait. `client` meets the same state
   with the connection in full (`Overtaken`), and `ReadyReturnsAtLast` excludes it.

What else the models show, without a line of the repository that says otherwise:

* `release()` destroys the callback of a call that timed out. The code `timeout` and
  its message "invoke timeout" exist and are delivered to nobody; a future is
  broken, a plain callback never hears of it, a coroutine stays suspended.
* A deadline of the session whose handler is queued when a header is read still
  closes the session.
* `ready()` without an argument gives up after six attempts; the README of the
  repository says that it keeps waiting.
* A request that is written again after a reconnect is converted a second time
  (472-476) and leaves in host order, although `session.hpp` 119 expects "big
  endian". The session then takes what follows for its payload and is deaf until its
  deadline or the client's third miss; requests sent behind it are lost. Hence the
  `"deaf"` in `RequestAccountedFor`, and no promise in `AnsweredUnlessLost` for that
  connection.
* A request that left in the moment the connection broke is not sent again, as its
  handler pops it, and the caller is not told: at most once, and never an error.
* A response that arrives before `await_suspend` resumes a null handle (`crashed =
  "null"`), although the README of the repository (343) says that `co_await` yields
  the result; `OvertakenAtFirstOnly` says that only a coroutine's first call can
  meet this.
* Misses survive a reconnect (355), so a new connection may be closed at its first
  heartbeat; and a response that is handled while an expired wait is queued makes
  the aborts of waits count as misses. `WorkingIsKept` excludes these two cases.
* Functions that together take longer than about two heartbeat intervals cost the
  connection, whatever the deadline: see `PromptAssumption`.
* `stop()` does not release the threads that wait in `ready()`.
* A const member function can be registered and is found, but never called nor
  answered: `Recurse`. The repository's README (93) and `examples/server/main.cpp` (91)
  register one, `f7`. A thread that calls it serves nobody else from then on.
* With two accept loops, `get` may load the same index twice or step over the
  end of `io_contexts_`; from there on it never wraps again.

## 4. Proofs

`InvocationsProofs` proves, for every set of calls, for `Spec` of `Invocations`:
`TypeOK`, `CallbackInOnePlace`, `OnlyTimedDropped`, `ResponseFindsEntry`,
`OwnReply`, `NoGhostEntry`, and that `Invocations` implements `AbstractCalls`
(`KeepsPromise`). The only assumption is `InvocationsAssumption`: timed and
waiting calls are calls, `Null` is none.

None of these is inductive as it stands. `IInv` adds why they hold:

* `UniqueIds`: ids that were given out are below `requestId` and pairwise
  different. Without it an `emplace` could meet an entry of another call, or an
  erase remove it.
* `EntriesFiled`: an entry is filed under its call's id, and a null entry is the one
  the run thread is about to erase.
* `RequestsOwned`: a request that was sent carries the id of the call that sent it.
* `HandlerInHand`: what the run thread holds belongs to the response it handles.
* `CallsKept`: where the callback of each registered call is, exactly one place.

There is one lemma per action that it preserves `IInv`, one that `Init` implies
it, and `NextIInv` puts them together. The refinement maps each step to one of
`AbstractCalls` or to none: `Register` opens a call, `Callback` answers it,
`Release` drops at most the callback of a timed call, `ReleaseRaces` and
`RegisterLost` are undefined behaviour and may lose any. `IInv` was found with TLC on the
instance of `invocations` before it was proved.

`ReadyKeepAliveProofs` proves, for any number of threads and any arguments of `ready()`,
`TypeOK` (with it, that at most one connection is begun), `NoEarlyReturn` and
`BegunBeforeWaiting`, from `WaitEventAssumption`: the arguments are natural numbers
and `Nobody` is not a thread. `IInv` strengthens them with `OnlyOneConnects`: the
thread that is about to connect is alone and holds the flag, and nothing was
begun before; without it a second `StartConnect` could not be excluded.

The same module proves `SilenceIsNoticed` and `WorkingIsKept` of `KeepAlive`, for any
interval, deadline, delay, duration of functions and numbers of calls, misses and
connections that `PromptAssumption` allows. `SilenceIsNoticed` needs two sums: the
ticks since the last response and those of the client's wait are at most the misses,
and the one to come, times the interval (`ClientWatches`); the ticks since the last
header and those of the session's wait are at most the deadline (`SessionWatches`).
`WorkingIsKept` needs to know where the heartbeat is:

* `Fed`: the header the session waits for is on its way and will be there before the
  deadline, or as far off as the client's wait, or behind a response to the client that
  may still put the next heartbeat off, once, by an interval.
* `Answering`: since the first miss, a heartbeat is under way with a number of
  requests before it, each good for `MaxBusy` ticks, or its response is; what is left
  to wait and what has been waited never add up to more than `Bound`.
* `FewCalls` and `InOrder`: the sums count requests, not messages, and bound a message
  by the age of those before it.
* `OneHandler`: on a connection that works, at most one of the client's handlers is
  queued, and that of a wait that was aborted by a response counts no miss.

`EndToEndProofs` proves, for any requests of any kind and any number of
connections, `RequestAccountedFor`, `ResponseAccountedFor`, and that `EndToEnd`
implements `AbstractRpc` (`KeepsRpcPromise`), from `EndToEndAssumption`: heartbeats,
oneway requests and timed calls are requests, each of one of these kinds at most.
The properties leave open *where* a request is, and that is what is inductive:

* `QueuedOrSent`: the requests in the queue are distinct, and one that was sent is
  still queued only at the front, while the handler of its write has not run.
  This is the one moment in which it could be sent again; without it "executed at
  most once" does not survive a reconnect.
* `OnItsWay`: a frame under way was sent on that connection and not executed yet.
* `SentAccountedFor`, `OnlySentExecuted`, `RepliesDue`: what was sent is under way,
  executed, or lost with its session, and what was executed has its response on
  the connection it came on for as long as its caller waits.

The refinement maps `Request` to `Ask`, `RequestRead` to `Execute`, `Answered` to `Answer` (or
to a stutter, if nobody waits any more), `TimesOut` to `GiveUp`, and everything that
happens to connections and frames to a stutter.

`SessionProofs` proves `OneReadOneWrite`, `NoStall` and `RepliesInOrder` for any number
of frames (`MaxFrames \in Nat`). The three need each other: that `reply` starts no second
write follows from `NoStall`, by which the queue is empty exactly when no write is
in flight; `NoStall` from `OneReadOneWrite`, by which the handler that runs was the
only one; `RepliesInOrder` from both. `IInv` adds that a payload is read only for a
header that announced one, and that nothing happens before `Run`. The lemmas
about `AsioOperations` say how starting, finishing, taking and aborting change the
count of an operation's handlers.

`ClientConnectionProofs` proves `NeverStranded`, `ConnectionWatched`, `NoRequestLost` and
`RequestsMove`, for any number of users and any limits of attempts and misses,
from `ClientConnectionAssumption`. The properties speak of a moment; what is
inductive speaks of the queue of handlers, `done`:

* `OneWrite`: unless two `do_write` overlapped, one write is in flight or its handler
  is queued, not both, and what it wrote is at the front. Without it the handler
  of a write could pop a request that was never sent (`NoneLost`).
* `ConnectGoesOn`, `BeatGoesOn`, `ReadGoesOn`: each of the three chains has an operation
  in flight or a handler in `done` that will start the next. A handler that starts
  nothing, as one that was aborted, must not be the last of its chain.
* `RequestsMoveOn`: `RequestsMove` with a queued *error* in place of the state of the
  socket, which alone says nothing of who will notice.
* `NotBegun`: before the first `ready()` nothing was started.

`SessionProofs` also proves `AnsweredOnce` and `RegisteredIsCalled` for any threads, names,
requests and registrations, for `DispatcherSpec` from `DispatcherAssumption`.
`Registered` is what makes the second hold: what a thread could have found in the table
when its request arrived is still there and still the same, because `emplace` replaces
nothing.

`ServerProofs` proves `GetStaysBalanced` and `OneLoopNeverRaces` for any number of servers,
engines, listens, connections and errors, from `ServerAssumption` (there is an
engine). `OneLoop`: after one `listen` an accept loop is one thing, a thread in `get`, a
pending accept or a queued handler. `InTurn`: without an overlap one thread is inside
`get`, and the index it loaded is still `index_` when it stores. `Balanced`: the engines
below `index_` were handed out once more than those above, which is the even
distribution at every moment and not only when `index_` wraps.

`AwaitableProofs` proves `SuspendedCanBeResumed` (of coroutines without timeout, as the
property says) and `OvertakenAtFirstOnly`, for any coroutines and any number of calls of
each, from `AwaitableAssumption`. The invariant relates the place of a coroutine to
the stage of the run thread: `AtFirstOnly`, the user's thread is ahead of the answer
only at the first call, and then the run thread is between `ready_` and `resume()`;
`OnRunThread` and `Serving`, a coroutine that was resumed goes on inside the callback
that resumed it; `LaterIsFresh`, so that no response to a later call is processed
before the coroutine is suspended. It is claimed while nothing undefined has happened
(`crashed = "no"`); that a null handle is resumed only for a first call is proved
without that condition.

`UnpackProofs` proves `StacksAgree` and `MemoryInBounds` for every payload and every size
of the chunks, from `UnpackAssumption` (payloads are sequences of bytes, a chunk is
not empty). `StacksAgree` is not inductive, because the visitor writes its objects
into the same memory in which the open containers are, and what the parser has
counted is compared with the size that stands there:

* `ScanOK`: while an object is read there is a byte to read, and the trail that is
  awaited is that of the format, until a length was read from it.
* `ZoneOK` and `BlocksOK`: the zone allocates from its last chunk and knows what is left
  of it; a block begins where those before it in its chunk have ended. For this
  `ChunkFor` has to return at least the size it was asked for, which it did not say
  of sizes whose doubling overflows before it was given the branch of the code for it.
* `StacksOK`: the memory of an open container was handed out (`Handed`) and lies behind
  that of the one it is in (`Before`), and each container has room for the next
  object where the visitor's pointer is (`Houses`). Hence the places of the open
  containers and that of the next object are all different, and no write changes
  a container that is open.

That the function inside `Loaded` exists is proved by writing it down for the four
lengths there are, as induction is not to be had.

The same module proves what becomes of integers and strings, for every number of 64
bits, signed or not, every string of less than 2^16 bytes, and every payload:

* `NumbersArrive`: if the payload begins with what `PackInt` made of the number,
  whatever follows, exactly those bytes are read, and `AsInt` gives the number to
  every integer type that has it and `type_error` to every other.
* `StringsArrive`: likewise, the string is read back as it was.
* `CutNumbersRefused`, `CutStringsRefused`: what was cut off anywhere, in the length of a
  string too, ends with `insufficient_bytes`.
* `NameArrives`: if the payload begins with an array of up to 15 items (a `fixarray`; a
  request has two, a response one) and a string, and unpacking it succeeds, then the
  first item of the array is that string, whatever the other items are, nested in any way,
  and whatever follows. So the dispatcher looks up the name the client sent.
  If the string is the only item, unpacking does succeed.

The parts are the structure of what is sent (`Packed`, `StrHead`), that a reader who
loads or extends the bytes has all of them again (`LowExtended`, `StoreTwo`), that
comparing byte by byte with the limits of a type is having its range (`BelowMax`,
`AboveMin`), and the phases of the parser (`Begins`, `Announced` or `LengthDue` and
`BodyDue`, `Read`, `Given`). The lemmas about strings are for any place in a payload
(`StrNext`). `NameArrives` also rests on `IInv`: once the parser has counted the first
item, everything the visitor still writes lies behind it (`BehindFirst`), in the array
or in the memory of a container that was opened later, so the name is not written over.
TLC checks the same within `ReadsWhatWasSent`, at the limits only.

In every module one lemma per action, or per group of handlers that do the same,
shows that `IInv` is kept, `NextIInv` puts them together, and each theorem follows from
`IInv`. Each `IInv` was checked with TLC before it was proved, on the instance of the
module's run or a smaller one (`ClientConnection` 325,866 states, `EndToEnd` 500,249,
`Session` 13,831, `Dispatcher` 947,213, `Server` 52,234, `Awaitable` with three calls 1,246,
`KeepAlive` 33,768, `Unpack` 118,586). The
`TypeOK` of `Invocations` and `WaitEvent` are among their runs' invariants; those of the
other modules stand beside the proofs and are proved only.

Some properties leave out cases that the model reaches, because the code does not keep
there what they say:

* `TimedEntryLeaves` speaks of a timer that fires after its entry was made; the entry of
  a call whose timer fired before (205, 206) stays in the table.
* `KeepsPromise`, `GetStaysBalanced` and `RegisteredIsCalled` claim nothing of what
  follows a race on `invokes_`, `index_` or the dispatcher's table (`raced`).
* `NoRequestLost`, `RequestAccountedFor` and `AnsweredUnlessLost` claim nothing once
  two `do_write` overlapped (`overlap`, `doubled`): that is finding 1.
* `ConnectionWatched` asks for a reader and a heartbeat, not for one of each only.
* `WorkingIsKept` excludes the first heartbeat of a new connection and the aborted
  waits that follow a response handled late (see above).
* `SyncInvokeReturns` excludes calls with neither a timeout nor an answer.

Only model-checked:

* All liveness: `SyncInvokeReturns`, `TimedEntryLeaves`, `SilentIsClosed`, `ClosedIsFreed`,
  `ReadyReturnsAtLast`, `Recovers`, `LateWaiterReturns`, `BacklogServed`, `ResponseResumes`,
  `AnsweredUnlessLost`. Fairness and ENABLED are beyond the prover.
* `ParserAgrees` and, beyond single integers and strings and a string that leads an
  array, `ReadsWhatWasSent`: `Codec` is recursive, and what it computes for every
  payload would be an induction over data.

## 5. Not modelled

* Most of the vendored `msgpack` and its preprocessor library, by far the largest
  part of the tree: adaptors of types that cuerpc does not use, C++03 variants
  generated for every arity, the parsers of older API versions (`v1/unpack.hpp`,
  `v2/parse.hpp`), which the version the framework compiles does not use, and
  macros. None of it keeps state of the RPC system.
* In the codec: lengths of 2^16 and more (`Loaded` is used for sizes, which are
  small in every payload of the run), the limits of `unpack_limit`, which are never
  set, references into the buffer, finalizers, floating-point values beyond their
  bytes, and the `object_with_zone` conversions.
* Memory that cannot be had: the zone's `malloc` always succeeds, `std::bad_alloc` is
  not among the outcomes of unpacking.
* `common.hpp` and `string_view.hpp`: type machinery without state.
* The payload of a response: whether the callback gets a value, a default or an
  exception does not change the table.
* `socket_` as an object: the run thread assigns it (329) while a user thread may
  start a write on it. The model takes the write to be started on the old or the
  new socket.
* More than one run thread.
* `wait_event::wait_for` and `engines::stop`, which nothing calls.
* `server::swap` and move: they exchange acceptors under handlers that captured
  `this`.
* What a registered function computes, and coroutines that await each other
  (`awaitable` of `awaitable`, whose `return_void` never makes the promise ready).

## 6. Plan

The order was: the invocation table with its proofs, the session, the connection
of the client, the smaller components, the composition of client and server, the
timers and the codec; then the proofs. Every safety property that a run checks is now
also a theorem, except the two of `Codec` above. What is left:

1. The arguments behind the name, and arrays of more than 15 items: for a bounded depth
   the parser's steps can take the place of the induction over data, as they do in
   `NameArrives`.
2. `swap` and move of `server`, and more than one run thread, with the races that
   this brings.
