------------------------------ MODULE WaitEvent ------------------------------
(***************************************************************************)
(* client::ready() and the wait_event under it: user threads test and      *)
(* sleep on a condition variable, while the run thread, which finds out    *)
(* how connecting went, sets the event and notifies without the mutex.     *)
(*                                                                         *)
(* The connection itself is reduced to its outcomes; ClientConnection has  *)
(* the rest of it, and of ready() the wait without the mutex.              *)
(***************************************************************************)
EXTENDS Integers

CONSTANTS
    Users,        \* threads that call ready()
    Milliseconds, \* the argument of each call of ready()
    Nobody        \* no thread

ASSUME WaitEventAssumption == Milliseconds \in [Users -> Nat] /\ Nobody \notin Users

VARIABLES
    upc,      \* how far the ready() of each user is
    answer,   \* what it returned
    once,     \* flag_: new, in the hands of a user, or done
    mutex,    \* the owner of stop_mutex_
    stop,     \* stop_
    ready,    \* ready_
    rpc,      \* what the run thread does about the connection
    failures, \* reconnect_count_
    limit,    \* reconnect_max_count_
    starts    \* how often do_connect was called by ready() (history)

user == <<upc, answer, once, mutex>>
engine == <<rpc, failures, limit, starts>>
vars == <<user, stop, ready, engine>>

\* reconnect_max_count_ and reconnect_default_timeout_, in milliseconds
DefaultLimit   == 5
DefaultTimeout == 1000

Init == /\ upc = [u \in Users |-> "start"]
        /\ answer = [u \in Users |-> FALSE]
        /\ once = "new"
        /\ mutex = Nobody
        /\ stop = FALSE
        /\ ready = FALSE
        /\ rpc = "off"
        /\ failures = 0
        /\ limit = DefaultLimit
        /\ starts = 0

Goes(u, from, to) == upc[u] = from /\ upc' = [upc EXCEPT ![u] = to]

-----------------------------------------------------------------------------
(* ready(), step by step.                                                  *)

AlreadyReady(u) ==
    /\ Goes(u, "start", "returned")
    /\ ready
    /\ answer' = [answer EXCEPT ![u] = TRUE]
    /\ UNCHANGED <<once, mutex, stop, ready, engine>>

NotReady(u) ==
    /\ Goes(u, "start", "once")
    /\ ~ready
    /\ UNCHANGED <<answer, once, mutex, stop, ready, engine>>

\* Mutant: whoever finds the client not connected connects.
OnceForEach(u) ==
    /\ Goes(u, "once", "connect")
    /\ UNCHANGED <<answer, once, mutex, stop, ready, engine>>

\* call_once: the first one does the work, ...
OnceTaken(u) ==
    /\ Goes(u, "once", "connect")
    /\ once = "new"
    /\ once' = "taken"
    /\ UNCHANGED <<answer, mutex, stop, ready, engine>>

\* ... which is to set the limit and call do_connect; ...
StartConnect(u) ==
    /\ Goes(u, "connect", "lock")
    /\ limit' = IF Milliseconds[u] > 0 THEN Milliseconds[u] \div DefaultTimeout ELSE limit
    /\ rpc' = "connecting"
    /\ starts' = starts + 1
    /\ once' = "done"
    /\ UNCHANGED <<answer, mutex, stop, ready, failures>>

\* ... the others wait for that.
OnceDone(u) ==
    /\ Goes(u, "once", "lock")
    /\ once = "done"
    /\ UNCHANGED <<answer, once, mutex, stop, ready, engine>>

Lock(u) ==
    /\ Goes(u, "lock", "test")
    /\ mutex = Nobody
    /\ mutex' = u
    /\ UNCHANGED <<answer, once, stop, ready, engine>>

\* The predicate holds: unlock and go on.
TestTrue(u) ==
    /\ Goes(u, "test", "result")
    /\ stop
    /\ mutex' = Nobody
    /\ UNCHANGED <<answer, once, stop, ready, engine>>

\* Mutant: the condition variable is waited for without a predicate.
TestNothing(u) ==
    /\ Goes(u, "test", "sleep")
    /\ UNCHANGED <<answer, once, mutex, stop, ready, engine>>

\* It does not, ...
TestFalse(u) ==
    /\ Goes(u, "test", "sleep")
    /\ ~stop
    /\ UNCHANGED <<answer, once, mutex, stop, ready, engine>>

\* ... so unlock and sleep, in one step.
Sleep(u) ==
    /\ Goes(u, "sleep", "asleep")
    /\ mutex' = Nobody
    /\ UNCHANGED <<answer, once, stop, ready, engine>>

\* Mutant: a thread that wakes up takes it for the event.
WakesAndLeaves(u) ==
    /\ Goes(u, "asleep", "result")
    /\ UNCHANGED <<answer, once, mutex, stop, ready, engine>>

\* A condition variable may wake up a thread without being notified.
WakesSpuriously(u) ==
    /\ Goes(u, "asleep", "lock")
    /\ UNCHANGED <<answer, once, mutex, stop, ready, engine>>

\* return ready_
Return(u) ==
    /\ Goes(u, "result", "returned")
    /\ answer' = [answer EXCEPT ![u] = ready]
    /\ UNCHANGED <<once, mutex, stop, ready, engine>>

-----------------------------------------------------------------------------
(* The handler of async_connect, on the run thread.                        *)

RunGoes(from, to) == rpc = from /\ rpc' = to

Succeeds ==
    /\ RunGoes("connecting", "succeeded")
    /\ ready' = TRUE
    /\ failures' = 0
    /\ UNCHANGED <<user, stop, limit, starts>>

FailsAgain ==
    /\ rpc = "connecting"
    /\ failures < limit
    /\ ready' = FALSE
    /\ failures' = failures + 1
    /\ UNCHANGED <<user, stop, rpc, limit, starts>>

FailsForGood ==
    /\ RunGoes("connecting", "failed")
    /\ failures >= limit
    /\ ready' = FALSE
    /\ failures' = failures + 1
    /\ UNCHANGED <<user, stop, limit, starts>>

\* wait_event::stop(), first half: stop_ = true, without the mutex.
SetStop(from, to) ==
    /\ RunGoes(from, to)
    /\ stop' = TRUE
    /\ UNCHANGED <<user, ready, failures, limit, starts>>

\* Second half: notify_all() wakes up those who sleep.
NotifyAll(from, to) ==
    /\ RunGoes(from, to)
    /\ upc' = [u \in Users |-> IF upc[u] = "asleep" THEN "lock" ELSE upc[u]]
    /\ UNCHANGED <<answer, once, mutex, stop, ready, failures, limit, starts>>

\* The connection is lost: close() connects again.
Lost ==
    /\ RunGoes("connected", "connecting")
    /\ ready' = FALSE
    /\ UNCHANGED <<user, stop, failures, limit, starts>>

-----------------------------------------------------------------------------
User(u) ==
    \/ AlreadyReady(u) \/ NotReady(u)
    \/ OnceTaken(u) \/ StartConnect(u) \/ OnceDone(u)
    \/ Lock(u) \/ TestTrue(u) \/ TestFalse(u) \/ Sleep(u) \/ Return(u)

Run ==
    \/ Succeeds \/ FailsAgain \/ FailsForGood
    \/ SetStop("succeeded", "told") \/ NotifyAll("told", "connected")
    \/ SetStop("failed", "gaveUp") \/ NotifyAll("gaveUp", "stopped")

Next == \/ \E u \in Users : User(u) \/ WakesSpuriously(u)
        \/ Run
        \/ Lost

Spec == Init /\ [][Next]_vars

\* Threads are scheduled and connects end; a sleeping thread need not wake
\* up unless notified.
Fairness == WF_vars(Run) /\ \A u \in Users : WF_vars(User(u))

LiveSpec == Spec /\ Fairness

-----------------------------------------------------------------------------
(* Properties.                                                             *)

UserStates == {"start", "once", "connect", "lock", "test", "sleep", "asleep", "result",
               "returned"}
RunStates  == {"off", "connecting", "succeeded", "told", "connected", "failed", "gaveUp",
               "stopped"}

\* The variables have their types.
TypeOK ==
    /\ upc \in [Users -> UserStates]
    /\ answer \in [Users -> BOOLEAN]
    /\ once \in {"new", "taken", "done"}
    /\ mutex \in Users \cup {Nobody}
    /\ stop \in BOOLEAN
    /\ ready \in BOOLEAN
    /\ rpc \in RunStates
    /\ failures \in Nat
    /\ limit \in Nat
    /\ starts \in 0..1

\* ready() does not return before the outcome of connecting is known: with
\* false only after the client connected once or gave up, whichever threads
\* call it and however often they wake up.
NoEarlyReturn ==
    \A u \in Users :
        /\ upc[u] = "result" => stop
        /\ upc[u] = "returned" => stop \/ answer[u]

\* Nobody waits for an event that was never going to be set: who is beyond
\* call_once finds the connection begun.
BegunBeforeWaiting ==
    \A u \in Users :
        upc[u] \in {"lock", "test", "sleep", "asleep", "result"} => once = "done" /\ starts = 1

\* A thread that begins to wait when the event was set returns.
LateWaiterReturns ==
    \A u \in Users : upc[u] = "lock" /\ stop ~> upc[u] = "returned"

\* Violated.  README.md:278 says that ready() can be given a time to wait.
\* A thread that tested stop_ before it was set and sleeps only after the
\* notification is never woken up.
ReadyTimesOut ==
    \A u \in Users : upc[u] = "lock" ~> upc[u] = "returned"
=============================================================================
