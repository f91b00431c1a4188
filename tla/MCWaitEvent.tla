---------------------------- MODULE MCWaitEvent ----------------------------
(***************************************************************************)
(* Threads that call ready() with different arguments.                        *)
(***************************************************************************)
EXTENDS WaitEvent

CONSTANTS first, second, third

ThreeUsers == {first, second, third}
TwoUsers   == {first, second}

\* ready(500), ready() and ready(2000): no attempt more, five, two
ThreeWaits == [u \in ThreeUsers |-> IF u = first THEN 500 ELSE IF u = second THEN 0 ELSE 2000]
TwoWaits   == [u \in TwoUsers |-> 1000]
=============================================================================
