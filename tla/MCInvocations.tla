--------------------------- MODULE MCInvocations ---------------------------
(***************************************************************************)
(* Calls of each kind for TLC: an invoke without timeout, an invoke with   *)
(* timeout, and an async_invoke with timeout.                              *)
(***************************************************************************)
EXTENDS Invocations

CONSTANTS plainInvoke, timedInvoke, timedAsync

AllCalls == {plainInvoke, timedInvoke, timedAsync}
AllTimed == {timedInvoke, timedAsync}
AllSync  == {plainInvoke, timedInvoke}
=============================================================================
