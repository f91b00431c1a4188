----------------------------- MODULE KeepAlive -----------------------------
(***************************************************************************)
(* The two ends watch each other: the heartbeat of client.hpp, which       *)
(* closes after heartbeat_failed_max_count_ misses, and the deadline of    *)
(* detail/session.hpp, with discrete time between them.                    *)
(*                                                                         *)
(* Handlers take no time.  What a close aborts is handled before the next  *)
(* connection is made; that connecting succeeds at last is a property of   *)
(* ClientConnection.  The session's thread calls the function of a request *)
(* and reads nothing meanwhile.  Of the sessions only that of the current  *)
(* connection is looked at.                                                *)
(***************************************************************************)
EXTENDS Integers, Sequences, FiniteSets

CONSTANTS
    Interval,  \* heartbeat_interval_, in ticks
    MaxMissed, \* heartbeat_failed_max_count_
    Deadline,  \* heartbeat_check_interval_, in ticks
    MaxDelay,  \* of a message on a good network, in ticks
    MaxBusy,   \* the longest function, in ticks
    MaxConns,  \* bound of the model: connections made
    MaxCalls   \* requests of users under way at a time

\* Answers come soon enough: a heartbeat, sent when the first miss is counted,
\* is answered before the last one although it waits for the functions of the
\* requests before it.  And it reaches the session before the deadline although
\* the response to the last request, which puts it off, was late.
ASSUME PromptAssumption ==
    /\ {Interval, MaxMissed, Deadline, MaxConns, MaxCalls} \subseteq Nat \ {0}
    /\ {MaxDelay, MaxBusy} \subseteq Nat
    /\ 2 * MaxDelay + MaxCalls * MaxBusy < (MaxMissed - 1) * Interval
    /\ Interval + 2 * MaxDelay + MaxBusy < Deadline

VARIABLES
    link,     \* of the client: up or connecting
    reading,  \* the client's read is in flight
    wait,     \* ticks until heartbeat_timer_ expires, or NoWait
    done,     \* handlers queued: due, aborted (the wait), failed (the read or a write)
    answered, \* heartbeat_check_response_
    missed,   \* heartbeat_failed_count_, up to MaxMissed
    kept,     \* a heartbeat waits in write_queue_ for the next connection
    conns,    \* connections made
    net,      \* the network of this connection: good, silent, reset
    up, down, \* messages under way, with their age
    open,     \* the session's socket
    left,     \* ticks until the session's deadline
    function, \* the function being called: of a request or a oneway one, ticks to go
    heard,    \* a response was read on this connection (history)
    raced,    \* a response was handled while an expired wait was queued (history)
    quiet,    \* ticks since the client read a response or connected (history)
    idle      \* ticks since the session read a header or was accepted (history)

beating == <<wait, done, answered, missed>>
client  == <<link, reading, kept, conns, heard, raced, quiet>>
wires   == <<net, up, down>>
session == <<open, left, function, idle>>
keepAliveVars ==
    <<beating, client, wires, session>>

NoWait     == -1
NoFunction == [kind |-> "none", left |-> 0]

Kinds == {"request", "oneway"}

KeepAliveInit ==
    /\ link = "connecting" /\ reading = FALSE
    /\ wait = NoWait /\ done = <<>> /\ answered = TRUE /\ missed = 0
    /\ kept = FALSE /\ conns = 0
    /\ net = "good" /\ up = <<>> /\ down = <<>>
    /\ open = FALSE /\ left = Deadline /\ function = NoFunction
    /\ heard = FALSE /\ raced = FALSE /\ quiet = 0 /\ idle = 0

-----------------------------------------------------------------------------
(* The client.                                                             *)

Sent(kind) == IF net = "good" /\ open THEN Append(up, [kind |-> kind, age |-> 0]) ELSE up

\* The handler of the wait in flight, if it is aborted.
WaitAborts == IF wait # NoWait THEN <<"aborted">> ELSE <<>>

\* close: the read is aborted.
Close(d) == /\ link' = "connecting"
            /\ reading' = FALSE
            /\ done' = IF reading THEN Append(d, "failed") ELSE d

\* Mutant: misses are counted and never used.
MissForever(d) == /\ missed' = IF missed < MaxMissed THEN missed + 1 ELSE missed
                  /\ wait' = Interval
                  /\ done' = d \o WaitAborts
                  /\ UNCHANGED <<link, reading>>

\* do_heartbeat's handler while no response is known of.
Miss(d) == /\ missed' = IF missed < MaxMissed THEN missed + 1 ELSE missed
           /\ IF missed + 1 >= MaxMissed
              THEN Close(d) /\ UNCHANGED wait
              ELSE /\ wait' = Interval
                   /\ done' = d \o WaitAborts
                   /\ UNCHANGED <<link, reading>>

\* async_connect's handler: read, do_heartbeat, write what waits.
Connects ==
    /\ link = "connecting" /\ done = <<>> /\ conns < MaxConns
    /\ link' = "up" /\ reading' = TRUE
    /\ conns' = conns + 1
    /\ wait' = Interval
    /\ done' = WaitAborts
    /\ net' = "good" /\ down' = <<>>
    /\ up' = IF kept THEN <<[kind |-> "beat", age |-> 0]>> ELSE <<>>
    /\ kept' = FALSE
    /\ open' = TRUE /\ left' = Deadline /\ function' = NoFunction
    /\ heard' = FALSE /\ raced' = FALSE /\ quiet' = 0 /\ idle' = 0
    /\ UNCHANGED <<answered, missed>>

\* The wait expires.
BeatExpires ==
    /\ wait = 0
    /\ wait' = NoWait
    /\ done' = Append(done, "due")
    /\ UNCHANGED <<answered, missed, client, wires, session>>

\* The heartbeat is due: send it.  The write is done before a close, or it is
\* aborted and its request is kept; on a socket that is not connected it fails.
BeatDue ==
    /\ done # <<>> /\ Head(done) = "due"
    /\ answered' = FALSE
    /\ \/ link = "up" /\ up' = Sent("beat") /\ Miss(Tail(done)) /\ UNCHANGED kept
       \/ /\ link = "up" /\ missed + 1 >= MaxMissed
          /\ Miss(Tail(done)) /\ kept' = TRUE /\ UNCHANGED up
       \/ /\ link = "connecting"
          /\ Miss(Append(Tail(done), "failed")) /\ kept' = TRUE /\ UNCHANGED up
    /\ UNCHANGED <<conns, heard, raced, quiet, net, down, session>>

\* The wait was aborted: without effect if a response was read.
BeatAborted ==
    /\ done # <<>> /\ Head(done) = "aborted"
    /\ IF answered THEN done' = Tail(done) /\ UNCHANGED <<wait, missed, link, reading>>
                   ELSE Miss(Tail(done))
    /\ UNCHANGED <<answered, kept, conns, heard, raced, quiet, wires, session>>

\* A read or a write failed or was aborted: close_all.
OperationFailed ==
    /\ done # <<>> /\ Head(done) = "failed"
    /\ Close(Tail(done) \o WaitAborts)
    /\ wait' = NoWait
    /\ UNCHANGED <<answered, missed, kept, conns, heard, raced, quiet, wires, session>>

\* Mutant: redo_heartbeat does not forget the misses.
HeaderReadCounts ==
    /\ reading /\ net = "good" /\ down # <<>>
    /\ done \in {<<>>, <<"due">>}
    /\ answered' = TRUE
    /\ wait' = Interval
    /\ done' = done \o WaitAborts
    /\ down' = Tail(down)
    /\ heard' = TRUE /\ raced' = (raced \/ done # <<>>) /\ quiet' = 0
    /\ UNCHANGED <<missed, link, reading, kept, conns, net, up, session>>

\* The header of a response, perhaps just before the handler of a wait that
\* has expired: redo_heartbeat.
HeaderRead ==
    /\ reading /\ net = "good" /\ down # <<>>
    /\ done \in {<<>>, <<"due">>}
    /\ missed' = 0 /\ answered' = TRUE
    /\ wait' = Interval
    /\ done' = done \o WaitAborts
    /\ down' = Tail(down)
    /\ heard' = TRUE /\ raced' = (raced \/ done # <<>>) /\ quiet' = 0
    /\ UNCHANGED <<link, reading, kept, conns, net, up, session>>

\* The requests under way, and the responses.
Asked == {i \in DOMAIN up : up[i].kind # "beat"}
Calls == Cardinality(Asked) + Len(down) + (IF function = NoFunction THEN 0 ELSE 1)

\* A user makes a request, which expects a response or not.
Request(kind) ==
    /\ link = "up"
    /\ Calls < MaxCalls
    /\ up' = Sent(kind)
    /\ UNCHANGED <<beating, client, net, down, session>>

-----------------------------------------------------------------------------
(* The session.                                                            *)

Free == open /\ function = NoFunction

Reads(kind) == Free /\ net = "good" /\ up # <<>> /\ Head(up).kind = kind

\* do_check_heartbeat
CheckRestarted == left' = Deadline /\ idle' = 0

Reply == down' = Append(down, 0)

HeartbeatRead ==
    /\ Reads("beat")
    /\ up' = Tail(up)
    /\ CheckRestarted
    /\ Reply
    /\ UNCHANGED <<beating, client, net, open, function>>

\* A request: its function is called, for as long as it takes.
RequestRead(kind, busy) ==
    /\ Reads(kind)
    /\ up' = Tail(up)
    /\ CheckRestarted
    /\ function' = [kind |-> kind, left |-> busy]
    /\ UNCHANGED <<beating, client, net, down, open>>

FunctionReturns ==
    /\ function # NoFunction /\ function.left = 0
    /\ function' = NoFunction
    /\ IF function.kind = "request" /\ open /\ net = "good" THEN Reply ELSE UNCHANGED down
    /\ UNCHANGED <<beating, client, net, up, open, left, idle>>

\* The deadline: close, which the client notices on a good network.
CheckExpired ==
    /\ Free /\ left = 0
    /\ open' = FALSE
    /\ IF net = "good" /\ reading
       THEN reading' = FALSE /\ done' = Append(done, "failed")
       ELSE UNCHANGED <<reading, done>>
    /\ UNCHANGED <<wait, answered, missed, link, kept, conns, heard, raced, quiet, wires,
                   left, function, idle>>

-----------------------------------------------------------------------------
(* The world.                                                              *)

\* Nothing arrives any more, and nobody is told.
GoesSilent ==
    /\ link = "up" /\ net = "good"
    /\ net' = "silent" /\ up' = <<>> /\ down' = <<>>
    /\ UNCHANGED <<beating, client, session>>

\* The connection breaks: both ends are told.
Resets ==
    /\ link = "up" /\ net = "good" /\ reading
    /\ net' = "reset" /\ up' = <<>> /\ down' = <<>>
    /\ open' = FALSE
    /\ reading' = FALSE
    /\ done' = Append(done, "failed")
    /\ UNCHANGED <<wait, answered, missed, link, kept, conns, heard, raced, quiet,
                   left, function, idle>>

Older(age) == IF age < MaxDelay THEN age + 1 ELSE age
Sooner(t)  == IF t > 0 THEN t - 1 ELSE t

\* Time passes when nothing is left to do now: no handler, no timer, no
\* message that has been under way for the longest time.  After a silent
\* network the next connection may take its time.
Tick ==
    /\ link = "up" \/ net = "silent"
    /\ done = <<>> /\ wait # 0
    /\ function # NoFunction => function.left > 0
    /\ Free => left > 0
    /\ Free /\ up # <<>> => Head(up).age < MaxDelay
    /\ reading /\ down # <<>> => Head(down) < MaxDelay
    /\ wait' = IF wait = NoWait THEN NoWait ELSE wait - 1
    /\ left' = Sooner(left)
    /\ function' = [function EXCEPT !.left = Sooner(@)]
    /\ up' = [i \in DOMAIN up |-> [up[i] EXCEPT !.age = Older(@)]]
    /\ down' = [i \in DOMAIN down |-> Older(down[i])]
    /\ quiet' = IF link = "up" THEN quiet + 1 ELSE quiet
    /\ idle' = IF open THEN idle + 1 ELSE idle
    /\ UNCHANGED <<done, answered, missed, link, reading, kept, conns, heard, raced, net, open>>

-----------------------------------------------------------------------------
Client  == \/ Connects \/ BeatExpires \/ BeatDue \/ BeatAborted \/ OperationFailed
           \/ HeaderRead
           \/ \E kind \in Kinds : Request(kind)
Session == \/ HeartbeatRead \/ FunctionReturns \/ CheckExpired
           \/ \E kind \in Kinds, busy \in 0..MaxBusy : RequestRead(kind, busy)
World   == GoesSilent \/ Resets \/ Tick

KeepAliveNext == Client \/ Session \/ World

KeepAliveSpec == KeepAliveInit /\ [][KeepAliveNext]_keepAliveVars

-----------------------------------------------------------------------------
(* Properties.                                                             *)

\* A connection that works is kept, by both ends: once a response was read
\* on it, and as long as the network delivers, neither the heartbeat nor the
\* deadline ends it, however long a function keeps the session from reading.
\* Two cases are left out because they do end it: a connection on which no
\* response was read yet has inherited the misses of the one before, and a
\* response that is handled while an expired wait is queued makes the aborts
\* of waits count as misses.
WorkingIsKept ==
    [][link = "up" /\ link' = "connecting" /\ heard /\ ~raced => net # "good"]_keepAliveVars

\* A connection that does not work is given up by both ends, in the time that
\* the misses and the deadline give it, whatever a function does.
SilenceIsNoticed ==
    /\ link = "up" => quiet <= MaxMissed * Interval
    /\ open => idle <= Deadline
=============================================================================
