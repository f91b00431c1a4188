------------------------------ MODULE EndToEnd ------------------------------
(***************************************************************************)
(* Requests on their way from client.hpp to session.hpp and back: the      *)
(* queue of the client, one session for each connection the client makes,  *)
(* and the table of callbacks.  Connections break at any point; what was   *)
(* sent on an old one may still be executed while the next is in use.      *)
(*                                                                         *)
(* The pieces are coarser than in the modules of their own.  A handler     *)
(* that fails is one step with the close_all it leads to.  A handler of    *)
(* async_connect that finds its socket closed again is StaleConnect.  What *)
(* a session replies leaves in order (Session.RepliesInOrder).             *)
(***************************************************************************)
EXTENDS Naturals, Sequences, FiniteSets

CONSTANTS
    Requests,   \* requests the client makes
    Heartbeats, \* those of do_heartbeat
    Oneway,     \* those of invoke_oneway
    Timed,      \* those of async_invoke<_Timeout>
    MaxConns    \* bound of the model: connections that are made

ASSUME EndToEndAssumption ==
    /\ Heartbeats \cup Oneway \cup Timed \subseteq Requests
    /\ Heartbeats \cap (Oneway \cup Timed) = {} /\ Oneway \cap Timed = {}
    /\ MaxConns \in Nat

VARIABLES
    link,     \* the client is connecting, connected (the handler is queued), up, stopped
    conn,     \* the connection of socket_, as the client numbers them
    queue,    \* write_queue_; of a request: id, header in network order or not
    write,    \* do_write: none, pending, or ok (its handler is queued)
    status,   \* of each request: new, open, answered, dropped
    sent,     \* the connection each request left on, 0 before that
    session,  \* of each connection: none, open, deaf (it cannot read on), closed
    up,       \* frames on their way to each session
    down,     \* responses on their way back
    executed, \* how often the function of each request was called
    doubled   \* the front request was written twice at a time: undefined from here

client == <<link, conn, queue, write>>
server == <<session, up, down, executed>>
vars == <<client, server, status, sent, doubled>>

Conns == 1..MaxConns

Init == /\ link = "connecting" /\ conn = 0
        /\ queue = <<>> /\ write = "none"
        /\ status = [r \in Requests |-> "new"]
        /\ sent = [r \in Requests |-> 0]
        /\ session = [c \in Conns |-> "none"]
        /\ up = [c \in Conns |-> <<>>] /\ down = [c \in Conns |-> <<>>]
        /\ executed = [r \in Requests |-> 0]
        /\ doubled = FALSE

-----------------------------------------------------------------------------
(* The client.                                                             *)

Running == link # "stopped" /\ ~doubled

OnSocket == link \in {"connected", "up"}

\* do_write converts the header of the front request in place.
FrontSwapped(q) == [q EXCEPT ![1].net = ~@]

\* do_write; on a socket that is still connecting it fails, and the client
\* connects again, or waits for the end of that.
DoWrite(q) == /\ queue' = FrontSwapped(q)
              /\ write' \in IF OnSocket THEN {"pending"} ELSE {"none", "pending"}

\* request(): queue it, and write it if it is the first.
Request(r) ==
    /\ Running
    /\ conn > 0
    /\ status[r] = "new"
    /\ status' = [status EXCEPT ![r] = "open"]
    /\ LET q == Append(queue, [id |-> r, net |-> FALSE])
       IN  IF Len(q) = 1 THEN DoWrite(q) ELSE queue' = q /\ UNCHANGED write
    /\ UNCHANGED <<link, conn, server, sent, doubled>>

\* async_write is done: the frame is in the stream of the connection, or
\* nowhere, if the session is gone or takes it for a payload.
Leaves ==
    /\ Running
    /\ OnSocket
    /\ write = "pending"
    /\ write' = "ok"
    /\ sent' = [sent EXCEPT ![Head(queue).id] = conn]
    /\ up' = IF session[conn] = "open" THEN [up EXCEPT ![conn] = Append(@, Head(queue))] ELSE up
    /\ UNCHANGED <<link, conn, queue, session, down, executed, status, doubled>>

\* Handlers run in order: that of a write on an earlier connection before that
\* of async_connect, that of a write on the new one after it.
WrittenBefore == write = "ok" /\ sent[Head(queue).id] # conn

\* do_write's handler: pop, write the next.
RequestWritten ==
    /\ Running
    /\ write = "ok"
    /\ link = "connected" => WrittenBefore
    /\ IF Len(queue) > 1 THEN DoWrite(Tail(queue)) ELSE queue' = <<>> /\ write' = "none"
    /\ UNCHANGED <<link, conn, server, status, sent, doubled>>

\* async_connect succeeds.
ConnectEnds ==
    /\ Running
    /\ link = "connecting"
    /\ conn < MaxConns
    /\ link' = "connected"
    /\ conn' = conn + 1
    /\ session' = [session EXCEPT ![conn'] = "open"]
    /\ UNCHANGED <<queue, write, up, down, executed, status, sent, doubled>>

\* Mutant: nothing is written after a reconnect.
ConnectedOnly ==
    /\ Running
    /\ link = "connected"
    /\ ~WrittenBefore
    /\ link' = "up"
    /\ UNCHANGED <<conn, queue, write, server, status, sent, doubled>>

\* Its handler: ready; write what waits.  A write that a user or another
\* handler began on the new socket, connected or not, is then doubled.
Connected ==
    /\ Running
    /\ link = "connected"
    /\ ~WrittenBefore
    /\ link' = "up"
    /\ doubled' = (write # "none")
    /\ IF queue = <<>> \/ write # "none" THEN UNCHANGED <<queue, write>> ELSE DoWrite(queue)
    /\ UNCHANGED <<conn, server, status, sent>>

\* The handler of a connect whose socket was closed in the meantime writes
\* to the new socket.
StaleConnect ==
    /\ Running
    /\ link = "connecting"
    /\ conn > 0
    /\ queue # <<>>
    /\ doubled' = (write # "none")
    /\ IF write # "none" THEN UNCHANGED <<queue, write>> ELSE DoWrite(queue)
    /\ UNCHANGED <<link, conn, server, status, sent>>

\* Mutant: close_all clears the queue.
BreaksAndClears ==
    /\ Running
    /\ OnSocket
    /\ link' = "connecting"
    /\ write' = "none"
    /\ queue' = <<>>
    /\ UNCHANGED <<conn, server, status, sent, doubled>>

\* Mutant: the handler of a finished write is dropped with its socket.
BreaksAndForgets ==
    /\ Running
    /\ OnSocket
    /\ link' = "connecting"
    /\ write' = "none"
    /\ UNCHANGED <<conn, queue, server, status, sent, doubled>>

\* A read or a write fails, heartbeats are missed, a connect that the write
\* waits for fails: the socket is closed, which aborts the write.
Breaks ==
    /\ Running
    /\ OnSocket \/ write = "pending"
    /\ link' = "connecting"
    /\ write' = IF write = "pending" THEN "none" ELSE write
    /\ UNCHANGED <<conn, queue, server, status, sent, doubled>>

\* Connecting failed too often, or the user stops the client.
Stops ==
    /\ Running
    /\ link' = "stopped"
    /\ UNCHANGED <<conn, queue, write, server, status, sent, doubled>>

\* handle(): the callback of the response, if it is still registered.
Answered ==
    /\ Running
    /\ link = "up"
    /\ down[conn] # <<>>
    /\ LET r == Head(down[conn])
       IN  status' = IF r \notin Heartbeats /\ status[r] = "open"
                     THEN [status EXCEPT ![r] = "answered"] ELSE status
    /\ down' = [down EXCEPT ![conn] = Tail(@)]
    /\ UNCHANGED <<client, session, up, executed, sent, doubled>>

\* release()
TimesOut(r) ==
    /\ Running
    /\ r \in Timed
    /\ status[r] = "open"
    /\ status' = [status EXCEPT ![r] = "dropped"]
    /\ UNCHANGED <<client, server, sent, doubled>>

-----------------------------------------------------------------------------
(* The sessions.                                                           *)

\* The reply carries the id of the request, from header_.
ReplyTo(c) == Head(up[c]).id

Reads(c) == session[c] = "open" /\ up[c] # <<>>

\* A heartbeat, of whatever byte order (the client looks at no id of one).
HeartbeatRead(c) ==
    /\ Reads(c)
    /\ Head(up[c]).id \in Heartbeats
    /\ down' = [down EXCEPT ![c] = Append(@, ReplyTo(c))]
    /\ up' = [up EXCEPT ![c] = Tail(@)]
    /\ UNCHANGED <<client, session, executed, status, sent, doubled>>

\* Mutant: a response is queued only when no other is.
RequestReadIdle(c) ==
    /\ Reads(c)
    /\ Head(up[c]).id \notin Heartbeats
    /\ Head(up[c]).net
    /\ executed' = [executed EXCEPT ![Head(up[c]).id] = @ + 1]
    /\ down' = IF Head(up[c]).id \in Oneway \/ down[c] # <<>>
               THEN down ELSE [down EXCEPT ![c] = Append(@, ReplyTo(c))]
    /\ up' = [up EXCEPT ![c] = Tail(@)]
    /\ UNCHANGED <<client, session, status, sent, doubled>>

\* A request in network order: its function is called, the result replied.
RequestRead(c) ==
    /\ Reads(c)
    /\ Head(up[c]).id \notin Heartbeats
    /\ Head(up[c]).net
    /\ executed' = [executed EXCEPT ![Head(up[c]).id] = @ + 1]
    /\ down' = IF Head(up[c]).id \in Oneway THEN down
                                           ELSE [down EXCEPT ![c] = Append(@, ReplyTo(c))]
    /\ up' = [up EXCEPT ![c] = Tail(@)]
    /\ UNCHANGED <<client, session, status, sent, doubled>>

\* A request in host order: its payload_length, byte for byte reversed, takes
\* everything that follows for payload.
SwappedRead(c) ==
    /\ Reads(c)
    /\ Head(up[c]).id \notin Heartbeats
    /\ ~Head(up[c]).net
    /\ session' = [session EXCEPT ![c] = "deaf"]
    /\ up' = [up EXCEPT ![c] = <<>>]
    /\ UNCHANGED <<client, down, executed, status, sent, doubled>>

\* The deadline, or the end of the connection.
Ends(c) ==
    /\ session[c] \in {"open", "deaf"}
    /\ session' = [session EXCEPT ![c] = "closed"]
    /\ up' = [up EXCEPT ![c] = <<>>]
    /\ UNCHANGED <<client, down, executed, status, sent, doubled>>

-----------------------------------------------------------------------------
Session(c) == HeartbeatRead(c) \/ RequestRead(c) \/ SwappedRead(c)

Next == \/ \E r \in Requests : Request(r) \/ TimesOut(r)
        \/ Leaves \/ RequestWritten
        \/ ConnectEnds \/ Connected \/ StaleConnect
        \/ Breaks \/ Stops \/ Answered
        \/ \E c \in Conns : Session(c) \/ Ends(c)

Spec == Init /\ [][Next]_vars

\* Threads run, sessions read what has arrived, what a session reads can be
\* sent.
Fairness ==
    /\ WF_vars(RequestWritten) /\ WF_vars(Connected) /\ WF_vars(Answered)
    /\ WF_vars(Leaves)
    /\ \A c \in Conns : WF_vars(Session(c))

LiveSpec == Spec /\ Fairness

-----------------------------------------------------------------------------
(* Properties.                                                             *)

Functions == Requests \ Heartbeats

Ids(frames) == {frames[i].id : i \in 1..Len(frames)}
InQueue(r)  == r \in Ids(queue)

\* What is lost was lost with a connection.  A request that was made is in
\* write_queue_, or left on one connection, where it is under way or was
\* executed, or where the session ended or became deaf.
RequestAccountedFor ==
    \A r \in Functions :
        status[r] # "new" /\ ~InQueue(r) =>
            /\ sent[r] # 0
            /\ \/ executed[r] > 0
               \/ r \in Ids(up[sent[r]])
               \/ session[sent[r]] \in {"deaf", "closed"}

\* A response that is due is on its way, or its connection is no longer that
\* of the client.
ResponseAccountedFor ==
    \A r \in Functions \ Oneway :
        status[r] = "open" /\ executed[r] > 0 =>
            \/ sent[r] # conn
            \/ link # "up"
            \/ \E i \in 1..Len(down[conn]) : down[conn][i] = r

\* The whole implements AbstractRpc: whatever connections break, a function
\* is called at most once for a request, and answers belong to it.
Abstract == INSTANCE AbstractRpc WITH
    Requests <- Functions,
    status <- [r \in Functions |-> status[r]],
    executed <- [r \in Functions |-> executed[r]]

KeepsRpcPromise == Abstract!Spec

Lost(c) == doubled \/ conn # c \/ link # "up" \/ session[c] # "open"

Finished(r) == IF r \in Oneway THEN executed[r] > 0 ELSE status[r] # "open"

\* On a connection that lasts every request is executed, and answered if it
\* expects an answer, whatever is queued before it.
AnsweredUnlessLost ==
    \A r \in Functions, c \in Conns :
        status[r] = "open" /\ ~Lost(c) /\ (InQueue(r) \/ sent[r] = c)
            ~> Finished(r) \/ Lost(c)
=============================================================================
