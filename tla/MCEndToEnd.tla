----------------------------- MODULE MCEndToEnd -----------------------------
(***************************************************************************)
(* A call without and one with a timeout, a oneway request and a heartbeat *)
(* on up to two connections.                                               *)
(***************************************************************************)
EXTENDS EndToEnd

CONSTANTS call, timed, oneway, beat

MCRequests   == {call, timed, oneway, beat}
MCHeartbeats == {beat}
MCOneway     == {oneway}
MCTimed      == {timed}
=============================================================================
