-------------------------- MODULE ClientConnection --------------------------
(***************************************************************************)
(* The connection of client.hpp: connecting and reconnecting, the read     *)
(* loop, the heartbeat and the queue of requests.  What a response means   *)
(* for its call is the subject of Invocations.                             *)
(*                                                                         *)
(* Threads: the run thread executes handlers in the order in which their   *)
(* operations finished (the queue of an io_service run by one thread is    *)
(* first in, first out).  User threads call ready() and, if it returns     *)
(* true, make one request each.  Inside ready() a user's test of the event *)
(* and its sleep are two steps; stop_mutex_, which orders users among      *)
(* themselves only, is left out.  A handler is one step, except that of    *)
(* async_connect: users act between its release of those who wait and its  *)
(* look at write_queue_.  connect_wait_event_.stop() sets the event and    *)
(* notifies in one step (WaitEvent has them as two): whoever tests between *)
(* the two behaves as if after both, whoever sleeps as if before.          *)
(***************************************************************************)
EXTENDS Integers, Sequences, FiniteSets

CONSTANTS
    Users,         \* user threads
    MaxReconnects, \* reconnect_max_count_
    MaxMissed,     \* heartbeat_failed_max_count_
    MaxBeats,      \* bound of the model: heartbeats that become due
    MaxDone        \* bound of the model: handlers waiting when the world acts

ASSUME ClientConnectionAssumption ==
    /\ MaxReconnects \in Nat
    /\ MaxMissed \in Nat \ {0}
    /\ MaxBeats \in Nat
    /\ MaxDone \in Nat \ {0}

VARIABLES
    ready,    \* ready_
    event,    \* connect_wait_event_ is set
    failures, \* reconnect_count_
    stopped,  \* engine_ is stopped
    sock,     \* socket_: closed, connecting, connected, broken
    flushing, \* the run thread is in async_connect's handler, before write_queue_
    pending,  \* reads, connects and waits started and not finished
    writes,   \* writes started and not finished: the request each refers to
    done,     \* what finished and waits for the run thread
    answered, \* heartbeat_check_response_
    missed,   \* heartbeat_failed_count_, up to MaxMissed
    beats,    \* heartbeats that became due
    queue,    \* write_queue_, the requests by id
    upc,      \* how far each user is
    front,    \* the request each user's get_request returned a reference to
    server,   \* the server is reachable
    halted,   \* the read loop of this connection met a bad byte (history)
    issued,   \* requests ever queued (history)
    wire,     \* requests sent (history)
    overlap,  \* two do_write were under way at a time (history)
    crashed   \* why the program is undefined from here on, or "no"

link     == <<ready, event, failures, stopped, halted>>
io       == <<pending, writes, done>>
beating  == <<answered, missed, beats>>
users    == <<upc, front>>
requests == <<queue, issued, wire, overlap>>
vars == <<link, sock, flushing, io, beating, requests, users, server, crashed>>

ReadOps == {"match", "header", "payload"}
Ops     == ReadOps \cup {"connect", "beat"}

Init == /\ ready = FALSE /\ event = FALSE /\ failures = 0 /\ stopped = FALSE
        /\ sock = "closed" /\ flushing = FALSE
        /\ pending = [op \in Ops |-> 0] /\ writes = <<>> /\ done = <<>>
        /\ answered = TRUE /\ missed = 0 /\ beats = 0
        /\ queue = <<>> /\ issued = {} /\ wire = {} /\ overlap = FALSE
        /\ upc = [u \in Users |-> "start"] /\ front = [u \in Users |-> <<>>]
        /\ server \in {"up", "down"}
        /\ halted = FALSE
        /\ crashed = "no"

-----------------------------------------------------------------------------
(* Operations.  d stands for the handlers queued so far, p and w for the   *)
(* operations and writes in flight so far in the same handler.             *)

Finish(op, result) == [op |-> op, result |-> result]
Abort(op, n) == [i \in 1..n |-> Finish(op, "error")]

\* Closing the socket aborts its operations, readers first.
SocketAborts(p, w) ==
    Abort("match", p["match"]) \o Abort("header", p["header"])
        \o Abort("payload", p["payload"]) \o Abort("connect", p["connect"])
        \o Abort("write", Len(w))

\* do_reconnect: the assignment to socket_ closes the old socket; do_connect.
Reconnect(d, p, w) ==
    /\ sock' = "connecting"
    /\ pending' = [op \in Ops |-> IF op = "connect" THEN 1
                                  ELSE IF op = "beat" THEN p["beat"] ELSE 0]
    /\ writes' = <<>>
    /\ done' = d \o SocketAborts(p, w)

\* close
Close(d, p, w) == ready' = FALSE /\ Reconnect(d, p, w)

\* heartbeat_timer_.cancel()
BeatAborts(p) == Abort("beat", p["beat"])

\* Mutant: close without connecting again.
CloseOnly(d) ==
    /\ ready' = FALSE
    /\ sock' = "connecting"
    /\ pending' = [op \in Ops |-> 0]
    /\ writes' = <<>>
    /\ done' = d \o BeatAborts(pending) \o SocketAborts(pending, writes)

\* close_all
CloseAll(d) == Close(d \o BeatAborts(pending), [pending EXCEPT !["beat"] = 0], writes)

\* do_heartbeat: setting the timer aborts the wait in flight.
Beating(p) == [p EXCEPT !["beat"] = 1]

Reading(op, p) == [p EXCEPT ![op] = @ + 1]

\* do_write, if wanted: the writes afterwards.
WritesAfter(q, write) == IF write THEN Append(writes, q[1]) ELSE writes

Queued(op, result) == \E i \in 1..Len(done) : done[i] = Finish(op, result)

\* A user has found its request first in the queue, but not yet written it.
AboutToWrite(u) == upc[u] \in {"get", "write"}

\* Another do_write is under way: decided on by one of the users given, or in
\* flight until its handler has run.
UnderWay(others) == \/ writes # <<>>
                    \/ Queued("write", "ok")
                    \/ \E u \in others : AboutToWrite(u)

Overlaps(write, others) == overlap' = (overlap \/ (write /\ UnderWay(others)))

-----------------------------------------------------------------------------
(* The run thread.                                                         *)

Running == ~stopped /\ crashed = "no"

Handles(op, result) ==
    /\ Running
    /\ ~flushing
    /\ done # <<>>
    /\ Head(done) = Finish(op, result)

\* connect_wait_event_.stop(): who sleeps in wait() wakes up.
Notified == [u \in Users |-> IF upc[u] = "asleep" THEN "test" ELSE upc[u]]

\* async_connect succeeded: the part up to do_heartbeat.
Connected ==
    /\ Handles("connect", "ok")
    /\ ready' = TRUE
    /\ failures' = 0
    /\ event' = TRUE
    /\ upc' = Notified
    /\ halted' = FALSE
    /\ flushing' = TRUE
    /\ pending' = Beating(Reading("match", pending))
    /\ done' = Tail(done) \o BeatAborts(pending)
    /\ UNCHANGED <<stopped, sock, writes, beating, requests, front, server, crashed>>

\* Mutant: nothing is written after a reconnect.
FlushNothing ==
    /\ crashed = "no"
    /\ flushing
    /\ flushing' = FALSE
    /\ UNCHANGED <<link, sock, io, beating, requests, users, server, crashed>>

\* The rest: write what waits in write_queue_.
Flush ==
    /\ crashed = "no"
    /\ flushing
    /\ flushing' = FALSE
    /\ writes' = WritesAfter(queue, queue # <<>>)
    /\ Overlaps(queue # <<>>, Users)
    /\ UNCHANGED <<link, sock, pending, done, beating, queue, issued, wire, users, server, crashed>>

\* Mutant: the event is set, who sleeps in wait() is not notified.
GiveUpSilently ==
    /\ Handles("connect", "error")
    /\ failures >= MaxReconnects
    /\ ready' = FALSE
    /\ failures' = failures + 1
    /\ event' = TRUE
    /\ stopped' = TRUE
    /\ done' = Tail(done)
    /\ UNCHANGED <<halted, sock, flushing, pending, writes, beating, requests, users,
                   server, crashed>>

\* async_connect failed or was aborted, for the last time: give up.
GiveUp ==
    /\ Handles("connect", "error")
    /\ failures >= MaxReconnects
    /\ ready' = FALSE
    /\ failures' = failures + 1
    /\ event' = TRUE
    /\ upc' = Notified
    /\ stopped' = TRUE
    /\ done' = Tail(done)
    /\ UNCHANGED <<halted, sock, flushing, pending, writes, beating, requests, front,
                   server, crashed>>

\* Mutant: sleep, and that is all.
SleepOnly ==
    /\ Handles("connect", "error")
    /\ failures < MaxReconnects
    /\ ready' = FALSE
    /\ failures' = failures + 1
    /\ done' = Tail(done)
    /\ UNCHANGED <<event, stopped, halted, sock, flushing, pending, writes, beating, requests,
                   users, server, crashed>>

\* Otherwise: sleep, connect again.
ConnectAgain ==
    /\ Handles("connect", "error")
    /\ failures < MaxReconnects
    /\ ready' = FALSE
    /\ failures' = failures + 1
    /\ Reconnect(Tail(done), pending, writes)
    /\ UNCHANGED <<event, stopped, halted, flushing, beating, requests, users, server, crashed>>

\* Mutant: the request whose write failed is removed.
OperationFailedDrops ==
    /\ \E op \in ReadOps \cup {"write"} : Handles(op, "error")
    /\ CloseAll(Tail(done))
    /\ queue' = IF Head(done).op = "write" /\ queue # <<>> THEN Tail(queue) ELSE queue
    /\ UNCHANGED <<event, failures, stopped, halted, flushing, beating, issued, wire, overlap,
                   users, server, crashed>>

\* A read or a write failed or was aborted: close_all.
OperationFailed ==
    /\ \E op \in ReadOps \cup {"write"} : Handles(op, "error")
    /\ CloseAll(Tail(done))
    /\ UNCHANGED <<event, failures, stopped, halted, flushing, beating, requests, users,
                   server, crashed>>

MatchRead(matches) ==
    /\ Handles("match", "ok")
    /\ pending' = IF matches THEN Reading("header", pending) ELSE pending
    /\ halted' = (halted \/ ~matches)
    /\ done' = Tail(done)
    /\ UNCHANGED <<ready, event, failures, stopped, sock, flushing, writes, beating,
                   requests, users, server, crashed>>

\* Mutant: a response cancels the heartbeat for good.
HeaderReadCancels(next) ==
    /\ Handles("header", "ok")
    /\ missed' = 0
    /\ answered' = TRUE
    /\ pending' = Reading(next, [pending EXCEPT !["beat"] = 0])
    /\ done' = Tail(done) \o BeatAborts(pending)
    /\ UNCHANGED <<link, sock, flushing, writes, beats, requests, users, server, crashed>>

\* The header of a response: redo_heartbeat, then its payload if it has one.
HeaderRead(next) ==
    /\ Handles("header", "ok")
    /\ missed' = 0
    /\ answered' = TRUE
    /\ pending' = Beating(Reading(next, pending))
    /\ done' = Tail(done) \o BeatAborts(pending)
    /\ UNCHANGED <<link, sock, flushing, writes, beats, requests, users, server, crashed>>

\* The payload of a response was read: read on.
PayloadRead ==
    /\ Handles("payload", "ok")
    /\ pending' = Reading("match", pending)
    /\ done' = Tail(done)
    /\ UNCHANGED <<link, sock, flushing, writes, beating, requests, users, server, crashed>>

\* do_write's handler: pop, write the next.
RequestWritten ==
    /\ Handles("write", "ok")
    /\ queue # <<>>
    /\ LET q == Tail(queue)
       IN  /\ queue' = q
           /\ writes' = WritesAfter(q, q # <<>>)
           /\ overlap' = (overlap \/ (q # <<>> /\ (writes # <<>> \/ \E u \in Users : AboutToWrite(u))))
    /\ done' = Tail(done)
    /\ UNCHANGED <<link, sock, flushing, pending, beating, issued, wire, users, server, crashed>>

\* ... pop() on an empty queue.
PopEmpty ==
    /\ Handles("write", "ok")
    /\ queue = <<>>
    /\ crashed' = "pop"
    /\ UNCHANGED <<link, sock, flushing, io, beating, requests, users, server>>

\* The end of do_heartbeat's handler while no response is known of: close
\* after too many misses, else wait again.
Miss(d, p, w) ==
    /\ missed' = IF missed < MaxMissed THEN missed + 1 ELSE missed
    /\ IF missed + 1 >= MaxMissed
       THEN Close(d, p, w)
       ELSE /\ pending' = Beating(p)
            /\ writes' = w
            /\ done' = d \o BeatAborts(p)
            /\ UNCHANGED <<ready, sock>>

\* The heartbeat is due: send it.
BeatDue ==
    /\ Handles("beat", "ok")
    /\ answered' = FALSE
    /\ beats' = beats + 1
    /\ LET id == <<"beat", beats>>
           q == Append(queue, id)
       IN  /\ issued' = issued \cup {id}
           /\ queue' = q
           /\ Overlaps(Len(q) = 1, Users)
           /\ Miss(Tail(done), pending, WritesAfter(q, Len(q) = 1))
    /\ UNCHANGED <<event, failures, stopped, halted, flushing, wire, users, server, crashed>>

\* The wait was aborted while no response is known of.
BeatAbortedUnanswered ==
    /\ Handles("beat", "error")
    /\ ~answered
    /\ Miss(Tail(done), pending, writes)
    /\ UNCHANGED <<event, failures, stopped, halted, flushing, answered, beats, requests,
                   users, server, crashed>>

BeatAbortedAnswered ==
    /\ Handles("beat", "error")
    /\ answered
    /\ done' = Tail(done)
    /\ UNCHANGED <<link, sock, flushing, pending, writes, beating, requests, users, server,
                   crashed>>

-----------------------------------------------------------------------------
(* Users.                                                                  *)

\* ready() at once, if ready_.
AlreadyReady(u) ==
    /\ crashed = "no"
    /\ upc[u] = "start"
    /\ ready
    /\ upc' = [upc EXCEPT ![u] = "go"]
    /\ UNCHANGED <<link, sock, flushing, io, beating, requests, front, server, crashed>>

\* ready() otherwise: the first call connects (call_once), each waits.
CallReady(u) ==
    /\ crashed = "no"
    /\ upc[u] = "start"
    /\ ~ready
    /\ upc' = [upc EXCEPT ![u] = "test"]
    /\ IF sock = "closed" THEN Reconnect(done, pending, writes) ELSE UNCHANGED <<io, sock>>
    /\ UNCHANGED <<link, flushing, beating, requests, front, server, crashed>>

\* wait(): u takes the step from one place to the next, nothing else changes.
Waiting(u, from, to) ==
    /\ crashed = "no"
    /\ upc[u] = from
    /\ upc' = [upc EXCEPT ![u] = to]
    /\ UNCHANGED <<link, sock, flushing, io, beating, requests, front, server, crashed>>

\* wait() evaluates its predicate, and sleeps if it is false.
TestTrue(u)        == event /\ Waiting(u, "test", "result")
TestFalse(u)       == ~event /\ Waiting(u, "test", "sleep")
Sleep(u)           == Waiting(u, "sleep", "asleep")
WakesSpuriously(u) == Waiting(u, "asleep", "test")

\* ready() returns what ready_ is by then.
Return(u)          == Waiting(u, "result", IF ready THEN "go" ELSE "refused")

\* Who got false may call ready() again.
CallsAgain(u)      == Waiting(u, "refused", "start")

\* request(): queue it, under the lock.
Enqueue(u) ==
    /\ crashed = "no"
    /\ upc[u] = "go"
    /\ queue' = Append(queue, <<"user", u>>)
    /\ issued' = issued \cup {<<"user", u>>}
    /\ upc' = [upc EXCEPT ![u] = IF Len(queue') = 1 THEN "get" ELSE "sent"]
    /\ UNCHANGED <<link, sock, flushing, io, beating, wire, overlap, front, server, crashed>>

\* do_write: get_request, under the lock.
GetRequest(u) ==
    /\ crashed = "no"
    /\ upc[u] = "get"
    /\ queue # <<>>
    /\ front' = [front EXCEPT ![u] = Head(queue)]
    /\ upc' = [upc EXCEPT ![u] = "write"]
    /\ UNCHANGED <<link, sock, flushing, io, beating, requests, server, crashed>>

\* ... whose assertion fails.
GetRequestFails(u) ==
    /\ crashed = "no"
    /\ upc[u] = "get"
    /\ queue = <<>>
    /\ crashed' = "assert"
    /\ UNCHANGED <<link, sock, flushing, io, beating, requests, users, server>>

Refers(id) == queue # <<>> /\ Head(queue) = id

\* do_write: the rest, through the reference.
Write(u) ==
    /\ crashed = "no"
    /\ upc[u] = "write"
    /\ Refers(front[u])
    /\ writes' = WritesAfter(queue, TRUE)
    /\ Overlaps(TRUE, Users \ {u})
    /\ upc' = [upc EXCEPT ![u] = "sent"]
    /\ UNCHANGED <<link, sock, flushing, pending, done, beating, queue, issued, wire, front,
                   server, crashed>>

\* The run thread removed the request referred to.
WriteDangles(u) ==
    /\ crashed = "no"
    /\ upc[u] = "write"
    /\ ~Refers(front[u])
    /\ crashed' = "freed"
    /\ UNCHANGED <<link, sock, flushing, io, beating, requests, users, server>>

\* stop(): the run thread leaves engine_ after the handler it is in.
Stop ==
    /\ Running
    /\ stopped' = TRUE
    /\ UNCHANGED <<ready, event, failures, halted, sock, flushing, io, beating, requests, users,
                   server, crashed>>

-----------------------------------------------------------------------------
(* The world.                                                              *)

Acts == Running /\ Len(done) < MaxDone

ConnectEnds ==
    /\ Acts
    /\ pending["connect"] > 0
    /\ pending' = [pending EXCEPT !["connect"] = @ - 1]
    /\ sock' = IF server = "up" THEN "connected" ELSE "broken"
    /\ done' = Append(done, Finish("connect", IF server = "up" THEN "ok" ELSE "error"))
    /\ UNCHANGED <<link, flushing, writes, beating, requests, users, server, crashed>>

\* The connection is lost.
ConnectionBreaks ==
    /\ Acts
    /\ sock = "connected"
    /\ sock' = "broken"
    /\ UNCHANGED <<link, flushing, io, beating, requests, users, server, crashed>>

ServerChanges ==
    /\ Acts
    /\ server' = IF server = "up" THEN "down" ELSE "up"
    /\ UNCHANGED <<link, sock, flushing, io, beating, requests, users, crashed>>

ReadEnds(op) ==
    /\ Acts
    /\ pending[op] > 0
    /\ sock \in {"connected", "broken"}
    /\ pending' = [pending EXCEPT ![op] = @ - 1]
    /\ done' = Append(done, Finish(op, IF sock = "connected" THEN "ok" ELSE "error"))
    /\ UNCHANGED <<link, sock, flushing, writes, beating, requests, users, server, crashed>>

\* The front request is on its way.
WriteLeaves ==
    /\ Acts
    /\ writes # <<>>
    /\ sock = "connected"
    /\ Refers(Head(writes))
    /\ wire' = wire \cup {Head(queue)}
    /\ writes' = Tail(writes)
    /\ done' = Append(done, Finish("write", "ok"))
    /\ UNCHANGED <<link, sock, flushing, pending, beating, queue, issued, overlap, users,
                   server, crashed>>

\* The buffers of the write belong to a request that was removed.
WriteOfFreed ==
    /\ Acts
    /\ writes # <<>>
    /\ sock = "connected"
    /\ ~Refers(Head(writes))
    /\ crashed' = "freed"
    /\ UNCHANGED <<link, sock, flushing, io, beating, requests, users, server>>

WriteBreaks ==
    /\ Acts
    /\ writes # <<>>
    /\ sock = "broken"
    /\ writes' = Tail(writes)
    /\ done' = Append(done, Finish("write", "error"))
    /\ UNCHANGED <<link, sock, flushing, pending, beating, requests, users, server, crashed>>

BeatExpires ==
    /\ Acts
    /\ pending["beat"] > 0
    /\ beats + Len(SelectSeq(done, LAMBDA f : f = Finish("beat", "ok"))) < MaxBeats
    /\ pending' = [pending EXCEPT !["beat"] = 0]
    /\ done' = Append(done, Finish("beat", "ok"))
    /\ UNCHANGED <<link, sock, flushing, writes, beating, requests, users, server, crashed>>

-----------------------------------------------------------------------------
Handler ==
    \/ Connected \/ Flush \/ GiveUp \/ ConnectAgain \/ OperationFailed
    \/ \E matches \in BOOLEAN : MatchRead(matches)
    \/ \E next \in {"match", "payload"} : HeaderRead(next)
    \/ PayloadRead \/ RequestWritten \/ PopEmpty
    \/ BeatDue \/ BeatAbortedUnanswered \/ BeatAbortedAnswered

User(u) == \/ AlreadyReady(u) \/ CallReady(u)
           \/ TestTrue(u) \/ TestFalse(u) \/ Sleep(u) \/ Return(u)
           \/ Enqueue(u) \/ GetRequest(u) \/ GetRequestFails(u) \/ Write(u) \/ WriteDangles(u)

World ==
    \/ ConnectEnds \/ ConnectionBreaks \/ ServerChanges
    \/ \E op \in ReadOps : ReadEnds(op)
    \/ WriteLeaves \/ WriteOfFreed \/ WriteBreaks
    \/ BeatExpires

Next == \/ Handler \/ World \/ Stop
        \/ \E u \in Users : User(u) \/ WakesSpuriously(u) \/ CallsAgain(u)

Spec == Init /\ [][Next]_vars

\* Threads are scheduled, and connect() ends; the server need not be there, and
\* nobody wakes without a reason or has to call ready() again.
Fairness == /\ WF_vars(Handler)
            /\ WF_vars(ConnectEnds)
            /\ \A u \in Users : WF_vars(User(u))

LiveSpec == Spec /\ Fairness

-----------------------------------------------------------------------------
(* Properties.                                                             *)

Alive == ~stopped /\ crashed = "no"

\* Once ready() was called, a client that is not connected is connecting:
\* whatever failed last, a connect is in flight or its handler is to run.
NeverStranded ==
    Alive /\ ~ready /\ sock # "closed" =>
        \/ pending["connect"] = 1
        \/ Queued("connect", "ok") \/ Queued("connect", "error")

\* A connection in use is watched from both ends.  While the client is ready
\* the chain of heartbeats goes on: a wait is in flight or has expired, no
\* abort of a wait ends it.  And somebody notices the end of the connection: a
\* read is in flight or to be handled, unless reading met a bad byte.
ConnectionWatched ==
    Alive /\ ready =>
        /\ pending["beat"] = 1 \/ Queued("beat", "ok")
        /\ ~halted => \E op \in ReadOps :
                           pending[op] > 0 \/ Queued(op, "ok") \/ Queued(op, "error")

\* Reconnecting loses no request: as long as writes do not overlap, every
\* request is still in write_queue_ or was sent.
NoRequestLost ==
    ~overlap => issued = {queue[i] : i \in 1..Len(queue)} \cup wire

\* Requests do not get stuck: while the client is ready and they wait, a
\* write is in flight or to be handled, a thread is about to write, or
\* another failure is about to start the connection again.
RequestsMove ==
    Alive /\ ready /\ queue # <<>> =>
        \/ writes # <<>> \/ Queued("write", "ok")
        \/ flushing \/ \E u \in Users : AboutToWrite(u)
        \/ \E op \in (Ops \ {"beat"}) \cup {"write"} : Queued(op, "error")
        \/ sock # "connected"

\* In wait(), or about to return from it.
Waits(u) == upc[u] \in {"test", "sleep", "asleep", "result"}

\* The event was set between u's test and its sleep: stop() does not take
\* stop_mutex_, so that its notification can come too early.  Such a user
\* sleeps until the next connect or until it wakes for no reason.
Overtaken(u) == upc[u] = "sleep" /\ event

\* ready() returns, with the answer false in the worst case, unless its thread
\* misses the notification between the test of wait() and its sleep, or the
\* client is stopped before the event is set: client::stop() does not set it.
ReadyReturnsAtLast ==
    \A u \in Users :
        upc[u] = "test" ~> \/ ~Waits(u) \/ Overtaken(u) \/ crashed # "no"
                           \/ stopped /\ ~event /\ failures <= MaxReconnects

\* A client that lost its connection is ready again or gives up.
Recovers == sock # "closed" /\ ~ready ~> ready \/ ~Alive

\* Violated.  client.hpp:501 asserts that get_request finds a request.  A
\* user that was released by async_connect's handler and queued the first
\* request is overtaken by the handler's own do_write.
FrontExists == crashed # "assert"
=============================================================================
