---------------------------- MODULE Invocations ----------------------------
(***************************************************************************)
(* The table of pending invocations of client.hpp: how a call obtains its  *)
(* request id, arms its timer, registers its callback in invokes_ and is   *)
(* sent; and how the run thread answers it (handle) or gives it up         *)
(* (release).                                                              *)
(*                                                                         *)
(* Threads: every call is made by a thread of its own (a user thread, or a *)
(* callback running on the run thread, which takes the same steps); one    *)
(* run thread executes client::run, hence every handler.  The connection   *)
(* and the server are a channel: a response may arrive at any time after   *)
(* its request was queued, more than once (the request was sent again on a *)
(* new connection) or never.                                               *)
(***************************************************************************)
EXTENDS Integers, Functions

CONSTANTS
    Calls,     \* calls that expect a result: async_invoke_impl
    Timed,     \* those made with _Timeout > 0
    Sync,      \* those made by invoke: the caller waits on the future
    Null,      \* a null shared_ptr; the sender of a request nobody waits for
    MaxOtherId \* bound of the model: heartbeats and oneway requests take ids below it

ASSUME InvocationsAssumption ==
    /\ Timed \subseteq Calls
    /\ Sync \subseteq Calls
    /\ Null \notin Calls
    /\ MaxOtherId \in Nat

VARIABLES
    requestId, \* request_id_, the next request id
    pc,        \* how far each call is
    rid,       \* the id each call was given
    timer,     \* callback_adapter::timer_: off, armed, or its handler queued
    invokes,   \* invokes_: request id -> the call whose callback it holds
    sent,      \* requests handed to the write queue
    run,       \* the run thread inside handle()
    answers,   \* how often each call's callback was called (history)
    dropped,   \* calls whose callback was destroyed uncalled (history)
    raced,     \* invokes_ was modified by two threads at a time (history)
    stopped    \* engine_ is stopped

userVars == <<pc, rid>>
history  == <<answers, dropped>>
vars == <<requestId, pc, rid, timer, invokes, sent, run, answers, dropped, raced, stopped>>

Idle == [stage |-> "idle", id |-> 0, handler |-> Null, origin |-> Null]

Init == /\ requestId = 0
        /\ pc = [c \in Calls |-> "idle"]
        /\ rid = [c \in Calls |-> 0]
        /\ timer = [c \in Calls |-> "off"]
        /\ invokes = [i \in {} |-> Null]
        /\ sent = {}
        /\ run = Idle
        /\ answers = [c \in Calls |-> 0]
        /\ dropped = {}
        /\ raced = FALSE
        /\ stopped = FALSE

-----------------------------------------------------------------------------
(* The table.                                                              *)

\* The callbacks a table holds.
Callbacks(table) == {table[i] : i \in DOMAIN table} \ {Null}

\* unordered_map::emplace: an entry that is there stays.
Emplaced(table, id, c) ==
    [i \in DOMAIN table \cup {id} |-> IF i \in DOMAIN table THEN table[i] ELSE c]

\* Mutant: find without moving the callback out.
CopiedOut(table, id) == table

\* unordered_map::erase by key.
Erased(table, id) == Restrict(table, DOMAIN table \ {id})

\* std::move out of an entry: the key stays, with a null pointer.
MovedOut(table, id) == [table EXCEPT ![id] = Null]

\* Nobody is inside emplace, the only critical section of invokes_mutex_
\* that is not a single step here.
InvokesMutexFree == \A c \in Calls : pc[c] # "emplace"

-----------------------------------------------------------------------------
(* A call.                                                                 *)

\* request_id_++ is one atomic operation.
NextId(id) == id + 1

AllocateId(c) ==
    /\ pc[c] = "idle"
    /\ rid' = [rid EXCEPT ![c] = requestId]
    /\ requestId' = NextId(requestId)
    /\ pc' = [pc EXCEPT ![c] = "arm"]
    /\ UNCHANGED <<timer, invokes, sent, run, history, raced, stopped>>

\* Mutants: the request is sent before its callback is registered; a timer is
\* armed although the timeout is 0.
ArmTimerAndSend(c) ==
    /\ pc[c] = "arm"
    /\ timer' = [timer EXCEPT ![c] = IF c \in Timed THEN "armed" ELSE "off"]
    /\ sent' = sent \cup {[id |-> rid[c], from |-> c]}
    /\ pc' = [pc EXCEPT ![c] = "lock"]
    /\ UNCHANGED <<requestId, rid, invokes, run, history, raced, stopped>>

ArmTimerAlways(c) ==
    /\ pc[c] = "arm"
    /\ timer' = [timer EXCEPT ![c] = "armed"]
    /\ pc' = [pc EXCEPT ![c] = "lock"]
    /\ UNCHANGED <<requestId, rid, invokes, sent, run, history, raced, stopped>>

\* func_adapter->run(), before the entry is in the table.
ArmTimer(c) ==
    /\ pc[c] = "arm"
    /\ timer' = [timer EXCEPT ![c] = IF c \in Timed THEN "armed" ELSE "off"]
    /\ pc' = [pc EXCEPT ![c] = "lock"]
    /\ UNCHANGED <<requestId, rid, invokes, sent, run, history, raced, stopped>>

LockInvokes(c) ==
    /\ pc[c] = "lock"
    /\ InvokesMutexFree
    /\ pc' = [pc EXCEPT ![c] = "emplace"]
    /\ UNCHANGED <<requestId, rid, timer, invokes, sent, run, history, raced, stopped>>

Register(c) ==
    /\ pc[c] = "emplace"
    /\ invokes' = Emplaced(invokes, rid[c], c)
    /\ pc' = [pc EXCEPT ![c] = "request"]
    /\ UNCHANGED <<requestId, rid, timer, sent, run, history, raced, stopped>>

\* The table was damaged by an unsynchronised erase: the entry may be lost.
RegisterLost(c) ==
    /\ pc[c] = "emplace"
    /\ raced
    /\ dropped' = dropped \cup {c}
    /\ pc' = [pc EXCEPT ![c] = "request"]
    /\ UNCHANGED <<requestId, rid, timer, invokes, sent, run, answers, raced, stopped>>

\* request(...), then invoke waits on the future and async_invoke returns.
Request(c) ==
    /\ pc[c] = "request"
    /\ sent' = sent \cup {[id |-> rid[c], from |-> c]}
    /\ pc' = [pc EXCEPT ![c] = IF c \in Sync THEN "wait" ELSE "returned"]
    /\ UNCHANGED <<requestId, rid, timer, invokes, run, history, raced, stopped>>

\* Mutant: heartbeats use the counter without advancing it.
OtherRequestSharesId ==
    /\ requestId < MaxOtherId
    /\ sent' = sent \cup {[id |-> requestId, from |-> Null]}
    /\ UNCHANGED <<requestId, userVars, timer, invokes, run, history, raced, stopped>>

\* A heartbeat or a oneway request: an id, but no entry.
OtherRequest ==
    /\ requestId < MaxOtherId
    /\ requestId' = NextId(requestId)
    /\ sent' = sent \cup {[id |-> requestId, from |-> Null]}
    /\ UNCHANGED <<userVars, timer, invokes, run, history, raced, stopped>>

\* result.wait() or wait_for() sees the future ready: get() returns the
\* value, or throws because the promise was destroyed.
WaitReady(c) ==
    /\ pc[c] = "wait"
    /\ answers[c] > 0 \/ c \in dropped
    /\ pc' = [pc EXCEPT ![c] = IF answers[c] > 0 THEN "returned" ELSE "thrown"]
    /\ UNCHANGED <<requestId, rid, timer, invokes, sent, run, history, raced, stopped>>

\* Mutant: invoke waits without a limit, whatever its timeout.
WaitForever(c) == FALSE

\* wait_for gives up; the entry stays in the table.
WaitTimeout(c) ==
    /\ pc[c] = "wait"
    /\ c \in Timed
    /\ answers[c] = 0 /\ c \notin dropped
    /\ pc' = [pc EXCEPT ![c] = "thrown"]
    /\ UNCHANGED <<requestId, rid, timer, invokes, sent, run, history, raced, stopped>>

UserStop ==
    /\ ~stopped
    /\ stopped' = TRUE
    /\ UNCHANGED <<requestId, userVars, timer, invokes, sent, run, history, raced>>

-----------------------------------------------------------------------------
(* The run thread.                                                         *)

\* A handler starts only between two others and while engine_ runs.
CanStartHandler == run.stage = "idle" /\ ~stopped

\* handle(): find the entry and move the callback out of it, under the lock.
\* Without an entry handle() returns, which changes nothing.
FindHandler(response) ==
    /\ CanStartHandler
    /\ InvokesMutexFree
    /\ response.id \in DOMAIN invokes
    /\ run' = [stage |-> IF invokes[response.id] = Null THEN "erase" ELSE "callback",
               id |-> response.id, handler |-> invokes[response.id],
               origin |-> response.from]
    /\ invokes' = MovedOut(invokes, response.id)
    /\ UNCHANGED <<requestId, userVars, timer, sent, history, raced, stopped>>

\* steady_timer::cancel: a wait that is queued already is not called back.
Cancelled(state) == IF state = "armed" THEN "off" ELSE state

\* handler->stop(); handler->handle(...), without the lock.
Callback ==
    /\ run.stage = "callback"
    /\ timer' = [timer EXCEPT ![run.handler] = Cancelled(@)]
    /\ answers' = [answers EXCEPT ![run.handler] = @ + 1]
    /\ run' = [run EXCEPT !.stage = "erase"]
    /\ UNCHANGED <<requestId, userVars, invokes, sent, dropped, raced, stopped>>

\* Mutant: the moved-out entry is left behind.
LeaveEntry ==
    /\ run.stage = "erase"
    /\ InvokesMutexFree
    /\ run' = Idle
    /\ UNCHANGED <<requestId, userVars, timer, invokes, sent, history, raced, stopped>>

EraseEntry ==
    /\ run.stage = "erase"
    /\ InvokesMutexFree
    /\ invokes' = Erased(invokes, run.id)
    /\ run' = Idle
    /\ UNCHANGED <<requestId, userVars, timer, sent, history, raced, stopped>>

\* The reactor finds the timer expired and queues its handler.
TimerExpires(c) ==
    /\ timer[c] = "armed"
    /\ ~stopped
    /\ timer' = [timer EXCEPT ![c] = "queued"]
    /\ UNCHANGED <<requestId, userVars, invokes, sent, run, history, raced, stopped>>

\* Mutants: the timer's handler reports the timeout and keeps the entry;
\* erases nothing.
ReleaseCallsBack(c) ==
    /\ CanStartHandler
    /\ timer[c] = "queued"
    /\ InvokesMutexFree
    /\ timer' = [timer EXCEPT ![c] = "off"]
    /\ answers' = [answers EXCEPT ![c] = @ + 1]
    /\ UNCHANGED <<requestId, userVars, invokes, sent, run, dropped, raced, stopped>>

ReleaseNothing(c) ==
    /\ CanStartHandler
    /\ timer[c] = "queued"
    /\ InvokesMutexFree
    /\ timer' = [timer EXCEPT ![c] = "off"]
    /\ UNCHANGED <<requestId, userVars, invokes, sent, run, history, raced, stopped>>

\* The timer's handler calls release(), which takes write_queue_mutex_ and
\* not invokes_mutex_: it excludes nobody from invokes_.
Release(c) ==
    /\ CanStartHandler
    /\ timer[c] = "queued"
    /\ InvokesMutexFree
    /\ timer' = [timer EXCEPT ![c] = "off"]
    /\ invokes' = Erased(invokes, rid[c])
    /\ dropped' = dropped \cup (Callbacks(invokes) \ Callbacks(invokes'))
    /\ UNCHANGED <<requestId, userVars, sent, run, answers, raced, stopped>>

\* release() while another thread is inside emplace, a data race: any of the
\* entries may be gone afterwards, the one to erase may still be there.
ReleaseRaces(c) ==
    /\ CanStartHandler
    /\ timer[c] = "queued"
    /\ ~InvokesMutexFree
    /\ timer' = [timer EXCEPT ![c] = "off"]
    /\ raced' = TRUE
    /\ \E keep \in SUBSET DOMAIN invokes :
          /\ invokes' = Restrict(invokes, keep)
          /\ dropped' = dropped \cup (Callbacks(invokes) \ Callbacks(Restrict(invokes, keep)))
    /\ UNCHANGED <<requestId, userVars, sent, run, answers, stopped>>

-----------------------------------------------------------------------------
CallGoesOn(c) == \/ ArmTimer(c) \/ LockInvokes(c)
                 \/ Register(c) \/ RegisterLost(c) \/ Request(c)
                 \/ WaitReady(c) \/ WaitTimeout(c)

TimerHandler(c) == Release(c) \/ ReleaseRaces(c)

RunThread == \/ Callback \/ EraseEntry
             \/ \E c \in Calls : TimerHandler(c)

Next == \/ \E c \in Calls : AllocateId(c) \/ CallGoesOn(c) \/ TimerExpires(c)
        \/ OtherRequest
        \/ UserStop
        \/ \E response \in sent : FindHandler(response)
        \/ RunThread

Spec == Init /\ [][Next]_vars

\* Threads are scheduled and time passes; that a response arrives is not
\* assumed.
Fairness == /\ \A c \in Calls : WF_vars(CallGoesOn(c)) /\ WF_vars(TimerExpires(c))
            /\ WF_vars(RunThread)

LiveSpec == Spec /\ Fairness
-----------------------------------------------------------------------------
(* Properties.                                                             *)

PcStates == {"idle", "arm", "lock", "emplace", "request", "wait", "returned", "thrown"}

Registered(c) == pc[c] \in {"request", "wait", "returned", "thrown"}
Finished(c)   == pc[c] \in {"returned", "thrown"}

InTable(c) == c \in Callbacks(invokes)
InHand(c)  == run.stage = "callback" /\ run.handler = c

\* The variables have their types; in particular no callback is ever called
\* twice, however often a response arrives and whenever the timer fires.
TypeOK ==
    /\ requestId \in Nat
    /\ pc \in [Calls -> PcStates]
    /\ rid \in [Calls -> Nat]
    /\ timer \in [Calls -> {"off", "armed", "queued"}]
    /\ DOMAIN invokes \subseteq Nat
    /\ invokes \in [DOMAIN invokes -> Calls \cup {Null}]
    /\ sent \subseteq [id : Nat, from : Calls \cup {Null}]
    /\ run \in [stage : {"idle", "callback", "erase"}, id : Nat,
                handler : Calls \cup {Null}, origin : Calls \cup {Null}]
    /\ answers \in [Calls -> 0..1]
    /\ dropped \subseteq Calls
    /\ raced \in BOOLEAN
    /\ stopped \in BOOLEAN

\* From its registration on a call's callback is in exactly one place: in
\* invokes_, moved out and about to be called by the run thread, called, or
\* destroyed by release().  So none is lost, none is used twice.
CallbackInOnePlace ==
    \A c \in Calls : Registered(c) =>
        /\ InTable(c) \/ InHand(c) \/ answers[c] = 1 \/ c \in dropped
        /\ ~(InTable(c) /\ InHand(c))
        /\ (InTable(c) \/ InHand(c)) => answers[c] = 0 /\ c \notin dropped
        /\ answers[c] = 1 => c \notin dropped

\* invoke without a timeout waits for ever: no timer of another call and no
\* response to another call ever destroys its callback.
OnlyTimedDropped == raced \/ dropped \subseteq Timed

\* Whenever the response to a call without timeout arrives, its callback is
\* in the table or has been called: the entry is there before the request
\* leaves (lines 207 and 209, 238 and 240).
ResponseFindsEntry ==
    \A response \in sent :
        response.from \in Calls \ Timed /\ ~raced =>
            \/ response.id \in DOMAIN invokes /\ invokes[response.id] = response.from
            \/ InHand(response.from)
            \/ answers[response.from] = 1

\* The callback the run thread takes out for a response is the one of the
\* call that sent the request, although calls, heartbeats and oneway
\* requests of all threads share one id counter.
OwnReply == run.stage # "idle" => run.handler = run.origin

\* Between two handlers every entry of invokes_ holds the callback of a call
\* that is still unanswered: nothing accumulates in the table.
NoGhostEntry ==
    run.stage = "idle" =>
        \A i \in DOMAIN invokes : invokes[i] # Null /\ answers[invokes[i]] = 0

\* invoke returns or throws if its response was handled, and in any case if
\* it has a timeout, even if the engine was stopped.
SyncInvokeReturns ==
    \A c \in Sync :
        pc[c] = "wait" /\ (c \in Timed \/ answers[c] > 0) ~> Finished(c)

\* The entry of a timed call whose timer has not fired yet leaves invokes_,
\* by a response or by release(), unless the engine is stopped.
TimedEntryLeaves ==
    \A c \in Timed :
        InTable(c) /\ timer[c] # "off" ~> ~InTable(c) \/ stopped \/ raced

\* The detailed table implements the promise of AbstractCalls.
StatusOf(c) == IF answers[c] > 0 THEN "answered"
               ELSE IF c \in dropped THEN "dropped"
               ELSE IF Registered(c) THEN "open" ELSE "new"

Promise == INSTANCE AbstractCalls WITH
               status <- [c \in Calls |-> StatusOf(c)], undefined <- raced

\* Every step of the client is a step of AbstractCalls or changes nothing
\* there: a callback is called at most once, and dropped only if timed.
KeepsPromise == Promise!Spec
=============================================================================
