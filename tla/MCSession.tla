----------------------------- MODULE MCSession -----------------------------
(***************************************************************************)
(* The session with a peer that sends a few frames.                        *)
(***************************************************************************)
EXTENDS Session
=============================================================================
