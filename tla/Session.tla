------------------------------ MODULE Session ------------------------------
(***************************************************************************)
(* A connection on the server: detail/session.hpp, with the part of        *)
(* detail/dispatcher.hpp that decides what is replied to a request.        *)
(*                                                                         *)
(* All handlers of a session run on the one thread of its io_context, one  *)
(* at a time, so a handler is one step.  The peer is an environment: it    *)
(* sends frames of any type, well-formed or not, and may go away.          *)
(***************************************************************************)
EXTENDS AsioOperations, Sequences

CONSTANT MaxFrames  \* bound of the model: frames the peer sends

ASSUME MaxFramesAssumption == MaxFrames \in Nat

VARIABLES
    phase,    \* accepted, running, or the process terminated
    open,     \* socket_ is open
    ops,      \* asynchronous operations of the session
    header,   \* header_, the header read last: its type and its request id
    queue,    \* write_queue_; of a response: id and code
    peer,     \* the peer is connected
    arrived,  \* frames begun
    owed,     \* the replies due, in the order of their requests (history)
    written   \* the responses on the wire (history)

channel == <<peer, arrived>>
vars == <<phase, open, ops, header, queue, channel, owed, written>>

SocketOps == {"match", "header", "payload", "write"}
Ops       == SocketOps \cup {"check"}

RequestTypes == {"heartbeat", "request", "oneway", "unknown"}
Codes        == {"success", "exception", "nonsupport"}

Init == /\ phase = "accepted"
        /\ open = TRUE
        /\ ops = [op \in Ops |-> NoOp]
        /\ header = [type |-> "heartbeat", id |-> 0]
        /\ queue = <<>>
        /\ peer = "up"
        /\ arrived = 0
        /\ owed = <<>>
        /\ written = <<>>

-----------------------------------------------------------------------------
(* What handlers do to the operations and to the queue.                    *)

\* Mutant: the new wait is cancelled instead of the old one.
CheckCancelledLast(o) == Aborted(Started(o, "check"), {"check"})

\* do_check_heartbeat
CheckRestarted(o) == Started(Aborted(o, {"check"}), "check")

Reading(o, op) == StartedOnSocket(o, op, open)

\* do_write, for the front response.
DoWrite(q, o) == /\ queue' = q
                 /\ ops' = StartedOnSocket(o, "write", open)

\* Mutant: every reply starts a write.
AlwaysFirst(q) == q # <<>>

\* write_queue_.size() == 1
IsFirst(q) == Len(q) = 1

\* reply(): queue the response and write it if it is the first.
Reply(id, code, o) ==
    LET q == Append(queue, [id |-> id, code |-> code])
    IN  IF IsFirst(q) THEN DoWrite(q, o)
                      ELSE queue' = q /\ ops' = o

Owe(id, code) == owed' = Append(owed, [id |-> id, code |-> code])

-----------------------------------------------------------------------------
(* Handlers, each run by the session's thread.                             *)

Takes(op, result) == phase = "running" /\ ops[op][result] > 0

Rest(op, result) == Taken(ops, op, result)

\* server::do_accept hands the accepted session over.
Run == /\ phase = "accepted"
       /\ phase' = "running"
       /\ ops' = Reading(CheckRestarted(ops), "match")
       /\ UNCHANGED <<open, header, queue, channel, owed, written>>

\* do_read_match: a byte that is not '@' ends the reading.
MatchRead(matches) ==
    /\ Takes("match", "ok")
    /\ ops' = IF matches THEN Reading(Rest("match", "ok"), "header") ELSE Rest("match", "ok")
    /\ UNCHANGED <<phase, open, header, queue, channel, owed, written>>

\* do_read_header, for a heartbeat: reply with the same id, read on.
HeartbeatRead ==
    /\ Takes("header", "ok")
    /\ header' = [type |-> "heartbeat", id |-> arrived]
    /\ Reply(arrived, "success", Reading(CheckRestarted(Rest("header", "ok")), "match"))
    /\ Owe(arrived, "success")
    /\ UNCHANGED <<phase, open, channel, written>>

\* do_read_header, for a request or a oneway request: read the payload.
RequestRead(type) ==
    /\ Takes("header", "ok")
    /\ header' = [type |-> type, id |-> arrived]
    /\ ops' = Reading(CheckRestarted(Rest("header", "ok")), "payload")
    /\ UNCHANGED <<phase, open, queue, channel, owed, written>>

\* do_read_header, for any other type: the reading ends.
UnknownRead ==
    /\ Takes("header", "ok")
    /\ header' = [type |-> "unknown", id |-> arrived]
    /\ ops' = CheckRestarted(Rest("header", "ok"))
    /\ UNCHANGED <<phase, open, queue, channel, owed, written>>

\* Mutant: oneway requests are answered like the others.
NeverSuppressed(type) == FALSE

\* dispatcher::reply sends nothing for a oneway request.
Suppressed(type) == type = "oneway"

\* do_read_payload: read on first, then dispatch.  The dispatcher replies
\* with the result, or that the payload could not be unpacked (exception),
\* or that there is no such function (nonsupport).
PayloadRead(code) ==
    /\ Takes("payload", "ok")
    /\ LET o == Reading(Rest("payload", "ok"), "match")
       IN  IF Suppressed(header.type) THEN queue' = queue /\ ops' = o
                                      ELSE Reply(header.id, code, o)
    /\ IF header.type = "request" THEN Owe(header.id, code) ELSE UNCHANGED owed
    /\ UNCHANGED <<phase, open, header, channel, written>>

\* The function throws: nothing catches it on the way out of io_context::run.
FunctionThrows ==
    /\ Takes("payload", "ok")
    /\ phase' = "terminated"
    /\ UNCHANGED <<open, ops, header, queue, channel, owed, written>>

\* Mutant: a failed read is tried again.
RetryRead(op) ==
    /\ Takes(op, "error")
    /\ ops' = Reading(Rest(op, "error"), op)
    /\ UNCHANGED <<phase, open, header, queue, channel, owed, written>>

\* A socket operation failed: close_all.
OperationFailed(op) ==
    /\ Takes(op, "error")
    /\ open' = FALSE
    /\ ops' = Aborted(Rest(op, "error"), SocketOps \cup {"check"})
    /\ UNCHANGED <<phase, header, queue, channel, owed, written>>

\* Mutant: the last response but one ends the writing.
MoreThanOne(q) == Len(q) > 1

\* !write_queue_.empty()
MoreToWrite(q) == q # <<>>

\* do_write's handler: remove what was written, write the next.
ResponseWritten ==
    /\ Takes("write", "ok")
    /\ LET q == Tail(queue)
       IN  IF MoreToWrite(q) THEN DoWrite(q, Rest("write", "ok"))
                             ELSE queue' = q /\ ops' = Rest("write", "ok")
    /\ UNCHANGED <<phase, open, header, channel, owed, written>>

\* do_check_heartbeat's handler at the deadline: close.
CheckExpired ==
    /\ Takes("check", "ok")
    /\ open' = FALSE
    /\ ops' = Aborted(Rest("check", "ok"), SocketOps)
    /\ UNCHANGED <<phase, header, queue, channel, owed, written>>

CheckCancelled ==
    /\ Takes("check", "error")
    /\ ops' = Rest("check", "error")
    /\ UNCHANGED <<phase, open, header, queue, channel, owed, written>>

-----------------------------------------------------------------------------
(* The world: bytes arrive and leave, time passes.                         *)

Pending(op) == phase = "running" /\ ops[op]["pending"] > 0

FrameBegins ==
    /\ Pending("match")
    /\ arrived < MaxFrames
    /\ arrived' = arrived + 1
    /\ ops' = Finished(ops, "match", "ok")
    /\ UNCHANGED <<phase, open, header, queue, peer, owed, written>>

RestArrives(op) ==
    /\ op \in {"header", "payload"}
    /\ Pending(op)
    /\ ops' = Finished(ops, op, "ok")
    /\ UNCHANGED <<phase, open, header, queue, channel, owed, written>>

\* async_write is done when the front response is on its way.
ResponseLeaves ==
    /\ Pending("write")
    /\ ops' = Finished(ops, "write", "ok")
    /\ written' = Append(written, Head(queue))
    /\ UNCHANGED <<phase, open, header, queue, channel, owed>>

PeerGoes ==
    /\ peer = "up"
    /\ peer' = "gone"
    /\ UNCHANGED <<phase, open, ops, header, queue, arrived, owed, written>>

ConnectionFails(op) ==
    /\ peer = "gone"
    /\ Pending(op)
    /\ ops' = Finished(ops, op, "error")
    /\ UNCHANGED <<phase, open, header, queue, channel, owed, written>>

DeadlinePasses ==
    /\ Pending("check")
    /\ ops' = Finished(ops, "check", "ok")
    /\ UNCHANGED <<phase, open, header, queue, channel, owed, written>>

-----------------------------------------------------------------------------
Handler ==
    \/ \E matches \in BOOLEAN : MatchRead(matches)
    \/ HeartbeatRead
    \/ \E type \in {"request", "oneway"} : RequestRead(type)
    \/ UnknownRead
    \/ \E code \in Codes : PayloadRead(code)
    \/ FunctionThrows
    \/ \E op \in SocketOps : OperationFailed(op)
    \/ ResponseWritten
    \/ CheckExpired
    \/ CheckCancelled

Environment ==
    \/ FrameBegins
    \/ \E op \in {"header", "payload"} : RestArrives(op)
    \/ ResponseLeaves
    \/ PeerGoes
    \/ \E op \in SocketOps : ConnectionFails(op)
    \/ DeadlinePasses

Next == Run \/ Handler \/ Environment

Spec == Init /\ [][Next]_vars

\* The thread runs what is queued, and 90 seconds pass.  Neither that the
\* peer sends nor that it reads is assumed.
Fairness == WF_vars(Run) /\ WF_vars(Handler) /\ WF_vars(DeadlinePasses)

LiveSpec == Spec /\ Fairness

-----------------------------------------------------------------------------
(* Properties.                                                             *)

Reads == Outstanding(ops, "match") + Outstanding(ops, "header") + Outstanding(ops, "payload")

\* The session has no operation left that keeps it alive (shared_from_this).
Freed == phase = "running" /\ \A op \in Ops : Outstanding(ops, op) = 0

\* At any time at most one read and at most one write is in flight, so the
\* buffers match_, request_header_, header_, payload_ and the front of
\* write_queue_ have one user, although replies come from two handlers.
OneReadOneWrite == Reads <= 1 /\ Outstanding(ops, "write") <= 1

\* Responses cannot get stuck: while the socket is open a write is in flight
\* exactly as long as write_queue_ is not empty (get_response never finds it
\* empty).
NoStall ==
    /\ Outstanding(ops, "write") > 0 => queue # <<>>
    /\ open /\ queue # <<>> => Outstanding(ops, "write") > 0

\* The responses written and those queued, the front one counted once, are
\* the replies owed: every heartbeat and every request in its order, once,
\* with its code, and none for a oneway request.
Unwritten == IF ops["write"]["ok"] > 0 THEN Tail(queue) ELSE queue

RepliesInOrder == written \o Unwritten = owed

\* A session that reads no further header is closed, whether the peer is
\* silent, sent what ends the reading, or reads no reply: whatever the session
\* was doing at its last header, a deadline was left that closes it.
SilentIsClosed ==
    \A n \in 0..MaxFrames :
        phase = "running" /\ open /\ header.id = n
            ~> ~open \/ header.id # n \/ phase = "terminated"

\* A closed session is destroyed: its handlers run out, and no handler
\* starts an operation that would keep it.
ClosedIsFreed == ~open ~> Freed \/ phase = "terminated"
=============================================================================
