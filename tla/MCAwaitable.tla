---------------------------- MODULE MCAwaitable ----------------------------
(***************************************************************************)
(* A coroutine whose calls have a timeout and one whose calls have none.   *)
(***************************************************************************)
EXTENDS Awaitable

CONSTANTS timed, plain

BothCoroutines == {timed, plain}
TimedCoroutine == {timed}
=============================================================================
