------------------------ MODULE MCClientConnection ------------------------
(***************************************************************************)
(* One user thread beside the run thread; small limits for attempts to     *)
(* connect and for missed heartbeats (5 and 3 in client.hpp).              *)
(***************************************************************************)
EXTENDS ClientConnection

CONSTANT user

OneUser == {user}
=============================================================================
