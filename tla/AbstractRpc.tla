---------------------------- MODULE AbstractRpc ----------------------------
(***************************************************************************)
(* What a remote procedure call is, whatever connections break and         *)
(* whichever requests are written again underneath: the server executes    *)
(* the function of a request at most once, never before it was asked to,   *)
(* and the caller learns a result only of a function that was executed.    *)
(* Nothing is promised to happen: a request may be lost, and the caller of *)
(* a timed call gives up.                                                  *)
(***************************************************************************)
CONSTANTS Requests, \* requests that name a function
          Oneway,   \* those that expect no response
          Timed     \* those made with a timeout

VARIABLES status,   \* what the caller knows of each request
          executed  \* how often the function of each request was called

absVars == <<status, executed>>

Init == /\ status = [r \in Requests |-> "new"]
        /\ executed = [r \in Requests |-> 0]

Ask(r) == /\ status[r] = "new"
          /\ status' = [status EXCEPT ![r] = "open"]
          /\ UNCHANGED executed

Execute(r) == /\ status[r] # "new"
              /\ executed[r] = 0
              /\ executed' = [executed EXCEPT ![r] = 1]
              /\ UNCHANGED status

Answer(r) == /\ r \notin Oneway
             /\ executed[r] = 1
             /\ status[r] = "open"
             /\ status' = [status EXCEPT ![r] = "answered"]
             /\ UNCHANGED executed

GiveUp(r) == /\ r \in Timed
             /\ status[r] = "open"
             /\ status' = [status EXCEPT ![r] = "dropped"]
             /\ UNCHANGED executed

Next == \E r \in Requests : Ask(r) \/ Execute(r) \/ Answer(r) \/ GiveUp(r)

Spec == Init /\ [][Next]_absVars
=============================================================================
