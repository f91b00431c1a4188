------------------------------- MODULE Server -------------------------------
(***************************************************************************)
(* The servers of a process: server.hpp and the engines they share         *)
(* (detail/engines.hpp).  The main thread listens and then runs; from then *)
(* on engine e has a thread, which executes the handlers of the acceptors  *)
(* that live on it.  engines::get is called by all of these threads and    *)
(* is not synchronised.                                                    *)
(***************************************************************************)
EXTENDS Integers, FiniteSets

CONSTANTS
    Servers,
    EngineCount,    \* std::thread::hardware_concurrency()
    MaxListens,     \* bound of the model: calls of listen
    MaxConnections, \* bound of the model: connections that arrive
    MaxErrors       \* bound of the model: accepts that fail

ASSUME ServerAssumption ==
    /\ EngineCount \in Nat \ {0}
    /\ {MaxListens, MaxConnections, MaxErrors} \subseteq Nat

Engines == 0..(EngineCount - 1)
Main    == -1
Threads == Engines \cup {Main}
None    == -1  \* no engine: acceptor_ is null

VARIABLES
    running,  \* engines::run was called
    index,    \* index_
    task,     \* what each thread calls engines::get for, and how far it is
    acceptor, \* the engine acceptor_ of each server lives on
    accepts,  \* asynchronous accepts that are pending or whose handler is queued
    backlog,  \* connections waiting at each server's port
    sessions, \* sessions running on each engine
    listens, arrived, errors, issued, \* counters of the model
    given,    \* how often each engine was handed out (history)
    raced,    \* two calls of get overlapped (history)
    crashed   \* get used a subscript out of bounds

counters == <<listens, arrived, errors>>
vars == <<running, index, task, acceptor, accepts, backlog, sessions, counters, issued, given,
          raced, crashed>>

Idle == [for |-> "nothing", server |-> None, at |-> "wrap", sub |-> 0]

Getting(what, s) == [for |-> what, server |-> s, at |-> "wrap", sub |-> 0]

Init == /\ running = FALSE
        /\ index = 0
        /\ task = [t \in Threads |-> Idle]
        /\ acceptor = [s \in Servers |-> None]
        /\ accepts = {}
        /\ backlog = [s \in Servers |-> 0]
        /\ sessions = [e \in Engines |-> 0]
        /\ listens = 0 /\ arrived = 0 /\ errors = 0 /\ issued = 0
        /\ given = [e \in Engines |-> 0]
        /\ raced = FALSE
        /\ crashed = FALSE

-----------------------------------------------------------------------------
(* engines::get: its accesses to index_.                                   *)

Inside(t) == task[t].at \in {"load", "store"}

Access(t) == raced' = (raced \/ \E other \in Threads \ {t} : Inside(other))

Gets(t, at) == ~crashed /\ task[t].for # "nothing" /\ task[t].at = at

\* Mutant: the index wraps one call late.
WrapLate(t) ==
    /\ Gets(t, "wrap")
    /\ index' = IF index > EngineCount THEN 0 ELSE index
    /\ task' = [task EXCEPT ![t].at = "load"]
    /\ Access(t)
    /\ UNCHANGED <<running, acceptor, accepts, backlog, sessions, counters, issued, given, crashed>>

Wrap(t) ==
    /\ Gets(t, "wrap")
    /\ index' = IF index = EngineCount THEN 0 ELSE index
    /\ task' = [task EXCEPT ![t].at = "load"]
    /\ Access(t)
    /\ UNCHANGED <<running, acceptor, accepts, backlog, sessions, counters, issued, given, crashed>>

Load(t) ==
    /\ Gets(t, "load")
    /\ task' = [task EXCEPT ![t].at = "store", ![t].sub = index]
    /\ Access(t)
    /\ UNCHANGED <<running, index, acceptor, accepts, backlog, sessions, counters, issued,
                   given, crashed>>

\* index_++ is stored, and io_contexts_ has no such element.
StoreOutOfBounds(t) ==
    /\ Gets(t, "store")
    /\ task[t].sub \notin Engines
    /\ index' = task[t].sub + 1
    /\ crashed' = TRUE
    /\ Access(t)
    /\ UNCHANGED <<running, task, acceptor, accepts, backlog, sessions, counters, issued, given>>

\* ... and it has: get returns.
Returns(t) ==
    /\ Gets(t, "store")
    /\ task[t].sub \in Engines
    /\ index' = task[t].sub + 1
    /\ given' = [given EXCEPT ![task[t].sub] = @ + 1]
    /\ Access(t)

-----------------------------------------------------------------------------
(* listen and the accept loop.                                             *)

\* listen_impl takes an engine for the resolver, ...
Listen(s) ==
    /\ ~running /\ task[Main] = Idle
    /\ listens < MaxListens
    /\ listens' = listens + 1
    /\ task' = [task EXCEPT ![Main] = Getting("resolver", s)]
    /\ UNCHANGED <<running, index, acceptor, accepts, backlog, sessions, arrived, errors, issued,
                   given, raced, crashed>>

\* ... one for the acceptor, ...
Resolve(t) ==
    /\ Returns(t)
    /\ task[t].for = "resolver"
    /\ task' = [task EXCEPT ![t] = Getting("acceptor", task[t].server)]
    /\ UNCHANGED <<running, acceptor, accepts, backlog, sessions, counters, issued, crashed>>

\* ... which replaces one that is there, aborting its accept.
MakeAcceptor(t) ==
    /\ Returns(t)
    /\ task[t].for = "acceptor"
    /\ LET s == task[t].server
       IN  /\ acceptor' = [acceptor EXCEPT ![s] = task[t].sub]
           /\ accepts' = {IF a.server = s THEN [a EXCEPT !.result = "error"] ELSE a : a \in accepts}
           /\ backlog' = [backlog EXCEPT ![s] = 0]
           /\ task' = [task EXCEPT ![t] = Getting("session", s)]
    /\ UNCHANGED <<running, sessions, counters, issued, crashed>>

\* do_accept: take an engine for the session to come, accept.
DoAccept(t) ==
    /\ Returns(t)
    /\ task[t].for = "session"
    /\ LET s == task[t].server
       IN  accepts' = accepts \cup {[ticket |-> issued, server |-> s, thread |-> acceptor[s],
                                     session |-> task[t].sub, result |-> "pending"]}
    /\ issued' = issued + 1
    /\ task' = [task EXCEPT ![t] = Idle]
    /\ UNCHANGED <<running, acceptor, backlog, sessions, counters, crashed>>

CanHandle(a) == /\ running /\ ~crashed
                /\ a.result # "pending"
                /\ task[a.thread] = Idle

\* Mutants: the loop ends with a connection; the engine of the session
\* accepts, too.
AcceptedOnce(a) ==
    /\ CanHandle(a)
    /\ accepts' = accepts \ {a}
    /\ sessions' = IF a.result = "ok" THEN [sessions EXCEPT ![a.session] = @ + 1] ELSE sessions
    /\ task' = IF a.result = "ok" THEN task
                                  ELSE [task EXCEPT ![a.thread] = Getting("session", a.server)]
    /\ UNCHANGED <<running, index, acceptor, backlog, counters, issued, given, raced, crashed>>

AcceptedByBoth(a) ==
    /\ CanHandle(a)
    /\ accepts' = accepts \ {a}
    /\ sessions' = IF a.result = "ok" THEN [sessions EXCEPT ![a.session] = @ + 1] ELSE sessions
    /\ task' = [task EXCEPT ![a.thread] = Getting("session", a.server),
                            ![a.session] = Getting("session", a.server)]
    /\ UNCHANGED <<running, index, acceptor, backlog, counters, issued, given, raced, crashed>>

\* The handler of async_accept: run the session, whatever the result accept
\* again (acceptor_ is open, nothing closes it).
Accepted(a) ==
    /\ CanHandle(a)
    /\ accepts' = accepts \ {a}
    /\ sessions' = IF a.result = "ok" THEN [sessions EXCEPT ![a.session] = @ + 1] ELSE sessions
    /\ task' = [task EXCEPT ![a.thread] = Getting("session", a.server)]
    /\ UNCHANGED <<running, index, acceptor, backlog, counters, issued, given, raced, crashed>>

\* engines::run
Run ==
    /\ ~running /\ ~crashed /\ task[Main] = Idle
    /\ running' = TRUE
    /\ UNCHANGED <<index, task, acceptor, accepts, backlog, sessions, counters, issued, given,
                   raced, crashed>>

-----------------------------------------------------------------------------
(* The world.                                                              *)

ConnectionArrives(s) ==
    /\ acceptor[s] # None
    /\ arrived < MaxConnections
    /\ arrived' = arrived + 1
    /\ backlog' = [backlog EXCEPT ![s] = @ + 1]
    /\ UNCHANGED <<running, index, task, acceptor, accepts, sessions, listens, errors, issued,
                   given, raced, crashed>>

Ends(a, result) ==
    /\ running
    /\ a.result = "pending"
    /\ accepts' = (accepts \ {a}) \cup {[a EXCEPT !.result = result]}

AcceptEnds(a) ==
    /\ Ends(a, "ok")
    /\ backlog[a.server] > 0
    /\ backlog' = [backlog EXCEPT ![a.server] = @ - 1]
    /\ UNCHANGED <<running, index, task, acceptor, sessions, counters, issued, given, raced,
                   crashed>>

AcceptFails(a) ==
    /\ Ends(a, "error")
    /\ errors < MaxErrors
    /\ errors' = errors + 1
    /\ UNCHANGED <<running, index, task, acceptor, backlog, sessions, listens, arrived, issued,
                   given, raced, crashed>>

-----------------------------------------------------------------------------
Thread(t) ==
    \/ Wrap(t) \/ Load(t) \/ StoreOutOfBounds(t)
    \/ Resolve(t) \/ MakeAcceptor(t) \/ DoAccept(t)
    \/ \E a \in accepts : a.thread = t /\ Accepted(a)

Next == \/ \E s \in Servers : Listen(s) \/ ConnectionArrives(s)
        \/ Run
        \/ \E t \in Threads : Thread(t)
        \/ \E a \in accepts : AcceptEnds(a) \/ AcceptFails(a)

Spec == Init /\ [][Next]_vars

\* Threads are scheduled, and an accept sees the connections that wait.
Fairness == /\ \A t \in Threads : WF_vars(Thread(t))
            /\ \A s \in Servers : WF_vars(\E a \in accepts : a.server = s /\ AcceptEnds(a))

LiveSpec == Spec /\ Fairness

-----------------------------------------------------------------------------
(* Properties.                                                             *)

\* As long as no two calls of get overlap, index_ stays in bounds, whichever
\* calls came before, and the engines are handed out evenly, so that sessions,
\* acceptors and resolvers of all servers together load them alike.
GetStaysBalanced ==
    ~raced => /\ \A t \in Threads : task[t].at = "store" => task[t].sub \in Engines
              /\ \A e, f \in Engines : given[e] <= given[f] + 1

\* As long as listen has been called once, on one server, there is one accept
\* loop: get is called from one thread at a time, although it is not
\* synchronised.
OneLoopNeverRaces == listens <= 1 => ~raced

\* Every connection that arrives at a running server is accepted.
BacklogServed ==
    \A s \in Servers : running /\ backlog[s] > 0 ~> backlog[s] = 0 \/ crashed
=============================================================================
