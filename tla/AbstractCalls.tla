--------------------------- MODULE AbstractCalls ---------------------------
(***************************************************************************)
(* What the client promises about a remote call, whatever the threads, the *)
(* table of callbacks and the timers do underneath: the callback (or the   *)
(* future) of a call is used at most once, and is given up without being   *)
(* used only for a call that was made with a timeout.  The promise ends    *)
(* once the program has run into undefined behaviour.                      *)
(***************************************************************************)
CONSTANTS Calls,  \* calls that expect a result
          Timed   \* calls made with a timeout, async_invoke<_Timeout>

VARIABLES status,    \* what became of each call
          undefined  \* undefined behaviour has occurred

absVars == <<status, undefined>>

Init == /\ status = [c \in Calls |-> "new"]
        /\ undefined = FALSE

\* The callback of c is registered.
Open(c) == /\ status[c] = "new"
           /\ status' = [status EXCEPT ![c] = "open"]
           /\ UNCHANGED undefined

\* The callback of c is called with the response.
Answer(c) == /\ status[c] = "open"
             /\ status' = [status EXCEPT ![c] = "answered"]
             /\ UNCHANGED undefined

\* The callback of a timed call is given up.
Drop(c) == /\ c \in Timed
           /\ status[c] = "open"
           /\ status' = [status EXCEPT ![c] = "dropped"]
           /\ UNCHANGED undefined

\* Undefined behaviour: any callback not yet used may be lost.
Lose(lost) == /\ \A c \in lost : status[c] \in {"new", "open"}
              /\ undefined' = TRUE
              /\ status' = [c \in Calls |-> IF c \in lost THEN "dropped" ELSE status[c]]

Next == \/ \E c \in Calls : Open(c) \/ Answer(c) \/ Drop(c)
        \/ \E lost \in SUBSET Calls : Lose(lost)

Spec == Init /\ [][Next]_absVars
=============================================================================
