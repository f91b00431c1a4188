------------------------------ MODULE MCServer ------------------------------
(***************************************************************************)
(* Two servers that share the engines.                                     *)
(***************************************************************************)
EXTENDS Server

CONSTANTS left, right

TwoServers == {left, right}
=============================================================================
