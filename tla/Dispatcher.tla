----------------------------- MODULE Dispatcher -----------------------------
(***************************************************************************)
(* The dispatcher of a process (detail/dispatcher.hpp): the table of the   *)
(* functions that were registered, and the threads of the engines, which   *)
(* look functions up, call them and reply.  Registration is not            *)
(* synchronised with the look-up.                                          *)
(***************************************************************************)
EXTENDS Integers, Sequences, Functions

CONSTANTS
    Threads,     \* threads of the engines
    Names,       \* names of functions
    Nothing,     \* no name, no registration
    MaxServes,   \* bound of the model: calls of serve
    MaxRequests  \* bound of the model: requests each thread dispatches

ASSUME DispatcherAssumption ==
    /\ Nothing \notin Names
    /\ MaxServes \in Nat
    /\ MaxRequests \in Nat

VARIABLES
    invokes,    \* invokes_: name -> the registration that is called
    inserting,  \* the registration the registering thread is inserting
    serves,     \* registrations so far; each is identified by its number
    constants,  \* those of a const member function
    at,         \* how far each thread is with its request
    request,    \* the request of each thread
    function,   \* the entry it found
    replies,    \* the replies to it (history)
    known,      \* invokes_ when the request arrived (history)
    handled,    \* requests begun by each thread
    raced,      \* invokes_ was read while it was written (history)
    terminated  \* an exception left io_context::run, or the stack overflowed

table    == <<invokes, inserting, serves, constants>>
dispatch == <<at, request, function, replies, known, handled>>
dispatcherVars == <<table, dispatch, raced, terminated>>

Types == {"request", "oneway"}

\* A payload holds a name and its arguments, or bytes that fail to unpack.
Payloads == {"good", "noName", "badArguments"}

NoRequest == [name |-> Nothing, type |-> "request", payload |-> "good"]
NoEntry   == 0

DispatcherInit ==
    /\ invokes = [n \in {} |-> NoEntry]
    /\ inserting = Nothing
    /\ serves = 0
    /\ constants = {}
    /\ at = [t \in Threads |-> "idle"]
    /\ request = [t \in Threads |-> NoRequest]
    /\ function = [t \in Threads |-> NoEntry]
    /\ replies = [t \in Threads |-> <<>>]
    /\ known = [t \in Threads |-> invokes]
    /\ handled = [t \in Threads |-> 0]
    /\ raced = FALSE
    /\ terminated = FALSE

-----------------------------------------------------------------------------
(* serve                                                                   *)

ServeBegins(name, const) ==
    /\ inserting = Nothing
    /\ serves < MaxServes
    /\ inserting' = name
    /\ serves' = serves + 1
    /\ constants' = IF const THEN constants \cup {serves'} ELSE constants
    /\ UNCHANGED <<invokes, dispatch, raced, terminated>>

\* Mutant: a second registration replaces the first.
Assigned(name, entry) ==
    [n \in DOMAIN invokes \cup {name} |-> IF n = name THEN entry ELSE invokes[n]]

\* unordered_map::emplace keeps an entry that is there.
Emplaced(name, entry) ==
    [n \in DOMAIN invokes \cup {name} |-> IF n \in DOMAIN invokes THEN invokes[n] ELSE entry]

ServeEnds ==
    /\ inserting # Nothing
    /\ invokes' = Emplaced(inserting, serves)
    /\ inserting' = Nothing
    /\ UNCHANGED <<serves, constants, dispatch, raced, terminated>>

-----------------------------------------------------------------------------
(* dispatch, on a thread of an engine.                                     *)

Goes(t, from, to) == ~terminated /\ at[t] = from /\ at' = [at EXCEPT ![t] = to]

\* The session hands a request over.
Receive(t, r) ==
    /\ Goes(t, "idle", "unpack")
    /\ handled[t] < MaxRequests
    /\ handled' = [handled EXCEPT ![t] = @ + 1]
    /\ request' = [request EXCEPT ![t] = r]
    /\ known' = [known EXCEPT ![t] = invokes]
    /\ replies' = [replies EXCEPT ![t] = <<>>]
    /\ UNCHANGED <<table, function, raced, terminated>>

\* Mutant: oneway requests are answered like the others.
RepliedAlways(t, code) == replies' = [replies EXCEPT ![t] = Append(@, code)]

\* reply: nothing for a oneway request.
Replied(t, code) ==
    replies' = IF request[t].type = "oneway" THEN replies
               ELSE [replies EXCEPT ![t] = Append(@, code)]

Named(t) == request[t].payload # "noName"

UnpackName(t) ==
    /\ Goes(t, "unpack", "find")
    /\ Named(t)
    /\ UNCHANGED <<table, request, function, replies, known, handled, raced, terminated>>

UnpackNameThrows(t) ==
    /\ Goes(t, "unpack", "idle")
    /\ ~Named(t)
    /\ Replied(t, "exception")
    /\ UNCHANGED <<table, request, function, known, handled, raced, terminated>>

\* invokes_.find.  While another thread inserts it may miss any entry, or
\* find the new one.
MayMiss(t) == request[t].name \notin DOMAIN invokes \/ inserting # Nothing

Races == raced' = (raced \/ inserting # Nothing)

Found(t) ==
    /\ Goes(t, "find", "arguments")
    /\ request[t].name \in DOMAIN invokes
    /\ function' = [function EXCEPT ![t] = invokes[request[t].name]]
    /\ Races
    /\ UNCHANGED <<table, request, replies, known, handled, terminated>>

NotFound(t) ==
    /\ Goes(t, "find", "idle")
    /\ MayMiss(t)
    /\ Replied(t, "nonsupport")
    /\ Races
    /\ UNCHANGED <<table, request, function, known, handled, terminated>>

\* The overload of invoke_proxy for const member functions calls itself: the
\* pointer it hands on still has the const that selects this overload.
IsConst(t) == function[t] \in constants

Recurse(t) ==
    /\ Goes(t, "arguments", "recursing")
    /\ IsConst(t)
    /\ UNCHANGED <<table, request, function, replies, known, handled, raced, terminated>>

\* A build that keeps the calls runs out of stack; one that makes them a loop
\* stays in it, which is this action never taken.
StackOverflows(t) ==
    /\ Goes(t, "recursing", "overflowed")
    /\ terminated' = TRUE
    /\ UNCHANGED <<table, request, function, replies, known, handled, raced>>

\* The other overloads of invoke_proxy: unpack the arguments and call.
Call(t) ==
    /\ Goes(t, "arguments", "call")
    /\ ~IsConst(t)
    /\ request[t].payload = "good"
    /\ UNCHANGED <<table, request, function, replies, known, handled, raced, terminated>>

ArgumentsThrow(t) ==
    /\ Goes(t, "arguments", "idle")
    /\ ~IsConst(t)
    /\ request[t].payload = "badArguments"
    /\ Replied(t, "exception")
    /\ UNCHANGED <<table, request, function, known, handled, raced, terminated>>

Return(t) ==
    /\ Goes(t, "call", "idle")
    /\ Replied(t, "success")
    /\ UNCHANGED <<table, request, function, known, handled, raced, terminated>>

\* What the function throws is caught by nobody.
Throw(t) ==
    /\ Goes(t, "call", "thrown")
    /\ terminated' = TRUE
    /\ UNCHANGED <<table, request, function, replies, known, handled, raced>>

-----------------------------------------------------------------------------
Requests == [name : Names, type : Types, payload : Payloads]

Dispatch(t) ==
    \/ UnpackName(t) \/ UnpackNameThrows(t) \/ Found(t) \/ NotFound(t)
    \/ Recurse(t) \/ StackOverflows(t)
    \/ Call(t) \/ ArgumentsThrow(t) \/ Return(t) \/ Throw(t)

DispatcherNext ==
    \/ \E name \in Names, const \in BOOLEAN : ServeBegins(name, const)
    \/ ServeEnds
    \/ \E t \in Threads : Dispatch(t) \/ \E r \in Requests : Receive(t, r)

DispatcherSpec == DispatcherInit /\ [][DispatcherNext]_dispatcherVars

-----------------------------------------------------------------------------
(* Properties.                                                             *)

\* A request is answered once when it is done with, a oneway request never:
\* on every path of errors the client gets exactly one response to wait for.
\* A request for a const member function is never done with, nor answered.
AnsweredOnce ==
    \A t \in Threads :
        /\ at[t] = "idle" /\ request[t] # NoRequest =>
               Len(replies[t]) = IF request[t].type = "oneway" THEN 0 ELSE 1
        /\ at[t] # "idle" => replies[t] = <<>>

\* invoke_proxy has the function in its hands.
Invoking == {"arguments", "call", "recursing"}

\* A function that was registered when the request arrived is called, and it
\* is the one: neither a later registration of its name nor one that goes on
\* at the same time changes what the client gets.
RegisteredIsCalled ==
    \A t \in Threads : ~raced /\ request[t].name \in DOMAIN known[t] =>
        /\ replies[t] # <<"nonsupport">>
        /\ at[t] \in Invoking => function[t] = known[t][request[t].name]
=============================================================================
