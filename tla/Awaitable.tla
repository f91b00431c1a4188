----------------------------- MODULE Awaitable -----------------------------
(***************************************************************************)
(* Coroutines that co_await async_invoke(..., use_awaitable), see          *)
(* detail/use_awaitable.hpp.  A coroutine starts on a user thread and      *)
(* continues, once it was suspended and resumed, on the run thread, inside *)
(* the callback that resumed it.  The promise of a call belongs to its     *)
(* callback in invokes_; the coroutine refers to it by a plain pointer.    *)
(***************************************************************************)
EXTENDS Naturals

CONSTANTS
    Coroutines,
    Timed,      \* those whose calls have a timeout
    Awaits      \* bound of the model: calls each of them awaits

ASSUME AwaitableAssumption == Timed \subseteq Coroutines /\ Awaits \in Nat

VARIABLES
    at,      \* how far each coroutine is
    where,   \* the thread each coroutine is on
    promise, \* the promise of the call it made last
    got,     \* how many results it received
    run,     \* the run thread: what it does for the call of which coroutine
    crashed  \* what ended the program, or "no"

vars == <<at, where, promise, got, run, crashed>>

\* n: the number of the call; handle: handle_ is set; alive: not destroyed.
NewPromise(n) == [n |-> n, ready |-> FALSE, handle |-> FALSE, result |-> "none", alive |-> n > 0]

RunIdle == [stage |-> "idle", for |-> {}, n |-> 0]

Init == /\ at = [c \in Coroutines |-> "call"]
        /\ where = [c \in Coroutines |-> "user"]
        /\ promise = [c \in Coroutines |-> NewPromise(0)]
        /\ got = [c \in Coroutines |-> 0]
        /\ run = RunIdle
        /\ crashed = "no"

-----------------------------------------------------------------------------
(* A coroutine.                                                            *)

Serves(c, stage) == run.stage = stage /\ run.for = {c}

\* The thread of c has c to run.
Runs(c, place) ==
    /\ crashed = "no"
    /\ at[c] = place
    /\ where[c] = "run" => Serves(c, "resumed")

\* When a coroutine on the run thread is suspended or done, resume() returns
\* and the callback is over.
ResumeReturns(c) == run' = IF where[c] = "run" THEN [run EXCEPT !.stage = "erase"] ELSE run

\* async_invoke: register the callback with a new promise, send the request.
Call(c) ==
    /\ Runs(c, "call")
    /\ got[c] < Awaits
    /\ promise' = [promise EXCEPT ![c] = NewPromise(@.n + 1)]
    /\ at' = [at EXCEPT ![c] = "ask"]
    /\ UNCHANGED <<where, got, run, crashed>>

Done(c) ==
    /\ Runs(c, "call")
    /\ got[c] = Awaits
    /\ at' = [at EXCEPT ![c] = "done"]
    /\ ResumeReturns(c)
    /\ UNCHANGED <<where, promise, got, crashed>>

\* await_ready
AwaitReady(c) ==
    /\ Runs(c, "ask")
    /\ promise[c].alive
    /\ at' = [at EXCEPT ![c] = IF promise[c].ready THEN "get" ELSE "suspend"]
    /\ UNCHANGED <<where, promise, got, run, crashed>>

\* Mutant: the handle is not stored.
SuspendOnly(c) ==
    /\ Runs(c, "suspend")
    /\ promise[c].alive
    /\ at' = [at EXCEPT ![c] = "suspended"]
    /\ ResumeReturns(c)
    /\ UNCHANGED <<where, promise, got, crashed>>

\* await_suspend stores the handle; the coroutine is suspended.
AwaitSuspend(c) ==
    /\ Runs(c, "suspend")
    /\ promise[c].alive
    /\ promise' = [promise EXCEPT ![c].handle = TRUE]
    /\ at' = [at EXCEPT ![c] = "suspended"]
    /\ ResumeReturns(c)
    /\ UNCHANGED <<where, got, crashed>>

\* await_resume: take the result.
AwaitResume(c) ==
    /\ Runs(c, "get")
    /\ promise[c].alive
    /\ promise[c].result = "value"
    /\ got' = [got EXCEPT ![c] = @ + 1]
    /\ at' = [at EXCEPT ![c] = "call"]
    /\ UNCHANGED <<where, promise, run, crashed>>

\* ... or rethrow the exception, out of a function that is noexcept.
AwaitResumeThrows(c) ==
    /\ Runs(c, "get")
    /\ promise[c].alive
    /\ promise[c].result = "error"
    /\ crashed' = "terminate"
    /\ UNCHANGED <<at, where, promise, got, run>>

\* The callback, and the promise with it, was destroyed.
PromiseDangles(c) ==
    /\ \E place \in {"ask", "suspend", "get"} : Runs(c, place)
    /\ ~promise[c].alive
    /\ crashed' = "freed"
    /\ UNCHANGED <<at, where, promise, got, run>>

-----------------------------------------------------------------------------
(* The run thread.                                                         *)

Waits(c) == promise[c].alive /\ promise[c].result = "none"

\* Mutant: a second thread takes handlers, too.
RespondMeanwhile(c, result) ==
    /\ crashed = "no"
    /\ run.stage \in {"idle", "resumed"}
    /\ Waits(c)
    /\ promise' = [promise EXCEPT ![c].result = result]
    /\ run' = [stage |-> "ready", for |-> {c}, n |-> promise[c].n]
    /\ UNCHANGED <<at, where, got, crashed>>

\* The response: set_value or set_exception stores the result, ...
Respond(c, result) ==
    /\ crashed = "no"
    /\ run.stage = "idle"
    /\ Waits(c)
    /\ promise' = [promise EXCEPT ![c].result = result]
    /\ run' = [stage |-> "ready", for |-> {c}, n |-> promise[c].n]
    /\ UNCHANGED <<at, where, got, crashed>>

\* ... sets ready_, ...
SetReady(c) ==
    /\ crashed = "no"
    /\ Serves(c, "ready")
    /\ promise' = [promise EXCEPT ![c].ready = TRUE]
    /\ run' = [run EXCEPT !.stage = "resume"]
    /\ UNCHANGED <<at, where, got, crashed>>

\* handle_ of the promise that was answered.  A coroutine that has gone on to
\* its next call found the result and never set it.
HandleSet(c) == promise[c].n = run.n /\ promise[c].handle

\* Mutant: the result is stored and nobody is resumed.
ResumeNobody(c) ==
    /\ crashed = "no"
    /\ Serves(c, "resume")
    /\ HandleSet(c)
    /\ run' = [run EXCEPT !.stage = "erase"]
    /\ UNCHANGED <<at, where, promise, got, crashed>>

\* ... resumes the coroutine, ...
Resume(c) ==
    /\ crashed = "no"
    /\ Serves(c, "resume")
    /\ HandleSet(c)
    /\ at' = [at EXCEPT ![c] = "get"]
    /\ where' = [where EXCEPT ![c] = "run"]
    /\ run' = [run EXCEPT !.stage = "resumed"]
    /\ UNCHANGED <<promise, got, crashed>>

\* ... if it was suspended: handle_ is null otherwise.
ResumeNull(c) ==
    /\ crashed = "no"
    /\ Serves(c, "resume")
    /\ ~HandleSet(c)
    /\ crashed' = "null"
    /\ UNCHANGED <<at, where, promise, got, run>>

\* The end of handle(): the callback is destroyed.
Erase(c) ==
    /\ crashed = "no"
    /\ Serves(c, "erase")
    /\ promise' = IF promise[c].n = run.n THEN [promise EXCEPT ![c].alive = FALSE] ELSE promise
    /\ run' = RunIdle
    /\ UNCHANGED <<at, where, got, crashed>>

\* release() destroys the callback of a call that timed out.
Release(c) ==
    /\ crashed = "no"
    /\ c \in Timed
    /\ run.stage = "idle"
    /\ Waits(c)
    /\ promise' = [promise EXCEPT ![c].alive = FALSE]
    /\ UNCHANGED <<at, where, got, run, crashed>>

-----------------------------------------------------------------------------
Coroutine(c) == \/ Call(c) \/ Done(c) \/ AwaitReady(c) \/ AwaitSuspend(c)
                \/ AwaitResume(c) \/ AwaitResumeThrows(c) \/ PromiseDangles(c)

Answers(c) == SetReady(c) \/ Resume(c) \/ ResumeNull(c) \/ Erase(c)

Next == \E c \in Coroutines :
            \/ Coroutine(c)
            \/ \E result \in {"value", "error"} : Respond(c, result)
            \/ Answers(c)
            \/ Release(c)

Spec == Init /\ [][Next]_vars

\* Threads are scheduled; whether a call is answered is left open.
Fairness == \A c \in Coroutines : WF_vars(Coroutine(c)) /\ WF_vars(Answers(c))

LiveSpec == Spec /\ Fairness

-----------------------------------------------------------------------------
(* Properties.                                                             *)

\* No resumption is lost: without timeouts the promise outlives the await, and
\* a suspended coroutine can be found through its promise, which is still to
\* be answered or on its way to resume it.
SuspendedCanBeResumed ==
    \A c \in Coroutines \ Timed :
        crashed = "no" =>
            /\ at[c] \in {"ask", "suspend", "suspended", "get"} => promise[c].alive
            /\ at[c] = "suspended" =>
                   /\ promise[c].handle
                   /\ Waits(c) \/ Serves(c, "ready") \/ Serves(c, "resume")

\* A response overtakes only the first co_await of a coroutine, on the user
\* thread, and resumes a null handle there: later ones run inside a callback,
\* before the next response.
OvertakenAtFirstOnly ==
    /\ crashed = "null" => run.n = 1
    /\ \A c \in Coroutines :
           crashed = "no" /\ promise[c].n > 1 /\ at[c] \in {"ask", "suspend"} =>
               promise[c].alive /\ promise[c].result = "none"

\* A coroutine that is suspended when its response arrives goes on.
ResponseResumes ==
    \A c \in Coroutines :
        Serves(c, "ready") /\ at[c] = "suspended" ~> at[c] # "suspended" \/ crashed # "no"
=============================================================================
