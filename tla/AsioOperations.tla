--------------------------- MODULE AsioOperations ---------------------------
(***************************************************************************)
(* Asynchronous operations of boost.asio as session.hpp and client.hpp use *)
(* them.  For each operation (a read, a write, a wait of a timer) we count *)
(* how many were started and not finished yet ("pending"), and how many    *)
(* finished with success or with an error and have their handler queued    *)
(* ("ok", "error").  Handlers may be run in any order.                     *)
(***************************************************************************)
EXTENDS Naturals

OpStates == {"pending", "ok", "error"}

NoOp == [s \in OpStates |-> 0]

\* How many handlers of operation op exist, each holding what it captured.
Outstanding(ops, op) == ops[op]["pending"] + ops[op]["ok"] + ops[op]["error"]

Started(ops, op) == [ops EXCEPT ![op]["pending"] = @ + 1]

\* Starting an operation on a socket: on a closed one it fails at once.
StartedOnSocket(ops, op, open) ==
    [ops EXCEPT ![op][IF open THEN "pending" ELSE "error"] = @ + 1]

\* The operation finishes with the given result, its handler is queued.
Finished(ops, op, result) ==
    [ops EXCEPT ![op]["pending"] = @ - 1, ![op][result] = @ + 1]

\* Closing a socket or cancelling a timer: what is pending finishes with
\* operation_aborted.  A handler that is queued already keeps its result.
Aborted(ops, which) ==
    [op \in DOMAIN ops |->
        IF op \in which
        THEN [ops[op] EXCEPT !["pending"] = 0, !["error"] = @ + ops[op]["pending"]]
        ELSE ops[op]]

\* The run thread takes a handler from the queue.
Taken(ops, op, result) == [ops EXCEPT ![op][result] = @ - 1]
=============================================================================
