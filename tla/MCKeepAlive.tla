---------------------------- MODULE MCKeepAlive ----------------------------
(***************************************************************************)
(* A tick is a third of a heartbeat interval, 5 seconds: the deadline of   *)
(* 90 seconds is eighteen, a message and a function take up to one.        *)
(***************************************************************************)
EXTENDS KeepAlive
=============================================================================
