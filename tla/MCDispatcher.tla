---------------------------- MODULE MCDispatcher ----------------------------
(***************************************************************************)
(* Two engines, two names.                                                 *)
(***************************************************************************)
EXTENDS Dispatcher, TLC

CONSTANTS engine1, engine2, add, echo

TwoThreads == {engine1, engine2}
TwoNames   == {add, echo}

Symmetry == Permutations(TwoThreads) \cup Permutations(TwoNames)
=============================================================================
