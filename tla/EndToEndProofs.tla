--------------------------- MODULE EndToEndProofs ---------------------------
(***************************************************************************)
(* Theorems about EndToEnd, for any requests and any number of             *)
(* connections: nothing is lost but with a connection, and client and      *)
(* sessions together implement AbstractRpc.                                *)
(***************************************************************************)
EXTENDS EndToEnd, SequenceTheorems, TLAPS

(***************************************************************************)
(* The inductive invariant.  What the properties leave open is where a     *)
(* request is: from Request on it is in the queue, from Leaves on it       *)
(* belongs to one connection, and between Leaves and RequestWritten it is  *)
(* in both, at the front of the queue, while the handler of its write is   *)
(* still to run.  That is the only moment in which it could be sent again. *)
(***************************************************************************)

Frames == [id : Requests, net : BOOLEAN]

TypeOK ==
    /\ link \in {"connecting", "connected", "up", "stopped"}
    /\ conn \in 0..MaxConns
    /\ OnSocket => conn > 0
    /\ queue \in Seq(Frames)
    /\ write \in {"none", "pending", "ok"}
    /\ status \in [Requests -> {"new", "open", "answered", "dropped"}]
    /\ sent \in [Requests -> 0..conn]
    /\ session \in [Conns -> {"none", "open", "deaf", "closed"}]
    /\ up \in [Conns -> Seq(Frames)]
    /\ down \in [Conns -> Seq(Requests)]
    /\ executed \in [Requests -> 0..1]

\* No request occurs twice.
Distinct(frames) ==
    \A i, j \in 1..Len(frames) : frames[i].id = frames[j].id => i = j

\* A request that was made is in the queue or has left, and only the front
\* one is both, until the handler of its write has run.
QueuedOrSent ==
    /\ Distinct(queue)
    /\ write # "none" => queue # <<>> /\ conn > 0
    /\ write = "ok" => sent[Head(queue).id] # 0
    /\ \A r \in Ids(queue) : sent[r] # 0 => write = "ok" /\ r = Head(queue).id
    /\ \A r \in Requests : IF status[r] = "new" THEN r \notin Ids(queue) /\ sent[r] = 0
                                                ELSE r \in Ids(queue) \/ sent[r] # 0

\* A frame under way was sent on that connection, once, and is not executed.
OnItsWay ==
    \A c \in Conns :
        /\ session[c] = "none" => c > conn
        /\ Distinct(up[c])
        /\ \A r \in Ids(up[c]) : sent[r] = c /\ executed[r] = 0

\* What was sent is on its way, was executed, or was lost with its session.
SentAccountedFor ==
    \A r \in Functions :
        sent[r] # 0 => \/ executed[r] = 1
                       \/ r \in Ids(up[sent[r]])
                       \/ session[sent[r]] \in {"deaf", "closed"}

\* Only what was sent is executed, and heartbeats never are.
OnlySentExecuted ==
    \A r \in Requests : executed[r] = 1 => r \in Functions /\ sent[r] # 0

\* The responses on a connection.
Due(c) == {down[c][i] : i \in 1..Len(down[c])}

\* Responses are those of functions that were executed, on the connection of
\* their requests, where they stay as long as their callers wait.
RepliesDue ==
    /\ \A c \in Conns : \A r \in Due(c) \ Heartbeats : r \notin Oneway /\ executed[r] = 1
    /\ \A r \in Functions \ Oneway :
          executed[r] = 1 /\ status[r] = "open" => r \in Due(sent[r])

IInv == /\ TypeOK
        /\ QueuedOrSent
        /\ OnItsWay
        /\ SentAccountedFor
        /\ OnlySentExecuted
        /\ RepliesDue

USE EndToEndAssumption

-----------------------------------------------------------------------------
(* Lemmas about sequences of frames.                                       *)

\* Append adds one request.
LEMMA AppendFrame ==
    ASSUME NEW s \in Seq(Frames), NEW f \in Frames
    PROVE  /\ Append(s, f) \in Seq(Frames) /\ Append(s, f) # <<>>
           /\ Ids(Append(s, f)) = Ids(s) \cup {f.id}
           /\ Distinct(s) /\ f.id \notin Ids(s) => Distinct(Append(s, f))
           /\ s # <<>> => Head(Append(s, f)) = Head(s)
<1>1. /\ Append(s, f) \in Seq(Frames) /\ Append(s, f) # <<>>
      /\ Len(Append(s, f)) = Len(s) + 1 /\ Len(s) \in Nat
      /\ \A i \in 1..Len(s) : Append(s, f)[i] = s[i]
      /\ Append(s, f)[Len(s) + 1] = f
  BY AppendProperties
<1>2. Ids(Append(s, f)) = Ids(s) \cup {f.id}
  BY <1>1 DEF Ids
<1>3. Distinct(s) /\ f.id \notin Ids(s) => Distinct(Append(s, f))
  BY <1>1 DEF Ids, Distinct
<1> QED BY <1>1, <1>2, <1>3

\* Tail takes the front request away.
LEMMA TailFrames ==
    ASSUME NEW s \in Seq(Frames), s # <<>>
    PROVE  /\ Tail(s) \in Seq(Frames) /\ Head(s) \in Frames
           /\ Ids(s) = Ids(Tail(s)) \cup {Head(s).id}
           /\ Distinct(s) => Distinct(Tail(s)) /\ Head(s).id \notin Ids(Tail(s))
<1>1. /\ Head(s) \in Frames /\ Tail(s) \in Seq(Frames)
      /\ Len(Tail(s)) = Len(s) - 1 /\ Len(s) \in Nat /\ Len(s) > 0
      /\ Head(s) = s[1]
      /\ \A i \in 1..Len(Tail(s)) : Tail(s)[i] = s[i + 1]
  BY HeadTailProperties, EmptySeq
<1>2. Ids(s) = Ids(Tail(s)) \cup {Head(s).id}
  <2>1. \A i \in 1..Len(s) : i = 1 \/ (i - 1 \in 1..Len(Tail(s)) /\ Tail(s)[i - 1] = s[i])
    BY <1>1
  <2> QED BY <1>1, <2>1 DEF Ids
<1>3. Distinct(s) => Distinct(Tail(s)) /\ Head(s).id \notin Ids(Tail(s))
  BY <1>1 DEF Ids, Distinct
<1> QED BY <1>1, <1>2, <1>3

\* do_write changes the byte order of the front request and nothing else.
LEMMA SwapFrames ==
    ASSUME NEW s \in Seq(Frames), s # <<>>
    PROVE  /\ FrontSwapped(s) \in Seq(Frames) /\ FrontSwapped(s) # <<>>
           /\ Ids(FrontSwapped(s)) = Ids(s)
           /\ Head(FrontSwapped(s)).id = Head(s).id
           /\ Distinct(s) => Distinct(FrontSwapped(s))
<1>1. Len(s) \in Nat /\ 1 \in 1..Len(s) /\ s[1] \in Frames /\ DOMAIN s = 1..Len(s)
      /\ Head(s) = s[1]
  BY EmptySeq, HeadTailProperties
<1>2. FrontSwapped(s) = [s EXCEPT ![1] = [s[1] EXCEPT !.net = ~@]]
  BY DEF FrontSwapped
<1>3. [s[1] EXCEPT !.net = ~@] \in Frames /\ [s[1] EXCEPT !.net = ~@].id = s[1].id
  BY <1>1 DEF Frames
<1>4. /\ FrontSwapped(s) \in Seq(Frames) /\ Len(FrontSwapped(s)) = Len(s)
      /\ \A i \in 1..Len(s) : FrontSwapped(s)[i].id = s[i].id
  BY <1>1, <1>2, <1>3
<1>5. FrontSwapped(s) # <<>> /\ Head(FrontSwapped(s)) = FrontSwapped(s)[1]
  BY <1>1, <1>4, EmptySeq, HeadTailProperties
<1>6. Ids(FrontSwapped(s)) = Ids(s)
  BY <1>4 DEF Ids
<1>7. Distinct(s) => Distinct(FrontSwapped(s))
  BY <1>4 DEF Distinct
<1> QED BY <1>1, <1>4, <1>5, <1>6, <1>7

\* The empty sequence.
LEMMA NoFrames == <<>> \in Seq(Frames) /\ Ids(<<>>) = {} /\ Distinct(<<>>)
BY DEF Ids, Distinct

\* What do_write leaves: the same requests in the same order.
LEMMA DoWriteKeeps ==
    ASSUME NEW q \in Seq(Frames), q # <<>>, DoWrite(q)
    PROVE  /\ queue' \in Seq(Frames) /\ queue' # <<>>
           /\ Ids(queue') = Ids(q)
           /\ Head(queue').id = Head(q).id
           /\ Distinct(q) => Distinct(queue')
           /\ write' \in {"none", "pending"}
BY SwapFrames DEF DoWrite

LEMMA InitIInv == Init => IInv
<1> SUFFICES ASSUME Init PROVE IInv
  OBVIOUS
<1>1. TypeOK
  BY NoFrames DEF Init, TypeOK, OnSocket
<1>2. QueuedOrSent
  BY NoFrames DEF Init, QueuedOrSent
<1>3. OnItsWay
  BY NoFrames DEF Init, OnItsWay, Conns
<1>4. SentAccountedFor /\ OnlySentExecuted
  BY DEF Init, SentAccountedFor, OnlySentExecuted, Functions
<1>5. RepliesDue
  BY DEF Init, RepliesDue, Due, Functions
<1> QED BY <1>1, <1>2, <1>3, <1>4, <1>5 DEF IInv

-----------------------------------------------------------------------------
(* The client's steps.                                                     *)

LEMMA RequestStep == ASSUME IInv, NEW r \in Requests, Request(r) PROVE IInv'
<1> DEFINE f == [id |-> r, net |-> FALSE]
           q == Append(queue, f)
<1>1. /\ f \in Frames /\ f.id = r
      /\ q \in Seq(Frames) /\ q # <<>>
      /\ Ids(q) = Ids(queue) \cup {r}
      /\ Distinct(q)
      /\ queue # <<>> => Head(q) = Head(queue)
  <2>1. f \in Frames /\ f.id = r
    BY DEF Frames
  <2>2. queue \in Seq(Frames) /\ Distinct(queue) /\ f.id \notin Ids(queue)
    BY <2>1 DEF IInv, TypeOK, QueuedOrSent, Request
  <2> QED BY <2>1, <2>2, AppendFrame
<1>2. Len(q) = 1 <=> queue = <<>>
  BY <1>1, AppendProperties, EmptySeq DEF IInv, TypeOK
<1>3. /\ queue' \in Seq(Frames) /\ queue' # <<>>
      /\ Ids(queue') = Ids(queue) \cup {r}
      /\ Distinct(queue')
      /\ queue # <<>> => Head(queue').id = Head(queue).id /\ write' = write
      /\ queue = <<>> => write' \in {"none", "pending"} /\ (write' # "none" => conn > 0)
  <2>1. CASE queue = <<>>
    <3>1. DoWrite(q)
      BY <1>2, <2>1 DEF Request
    <3> HIDE DEF q
    <3>2. /\ queue' \in Seq(Frames) /\ queue' # <<>> /\ Ids(queue') = Ids(q)
          /\ Distinct(queue') /\ write' \in {"none", "pending"}
      BY <1>1, <3>1, DoWriteKeeps
    <3> QED BY <1>1, <2>1, <3>2 DEF Request
  <2>2. CASE queue # <<>>
    <3>1. queue' = q /\ UNCHANGED write
      BY <1>2, <2>2 DEF Request
    <3> HIDE DEF q
    <3> QED BY <1>1, <2>2, <3>1
  <2> QED BY <2>1, <2>2
<1>4. status[r] = "new" /\ status' = [status EXCEPT ![r] = "open"]
      /\ UNCHANGED <<link, conn, server, sent, doubled>>
  BY DEF Request
<1> HIDE DEF q, f
<1>5. TypeOK'
  BY <1>3, <1>4 DEF IInv, TypeOK, QueuedOrSent, OnSocket, server
<1>6. QueuedOrSent'
  BY <1>3, <1>4 DEF IInv, TypeOK, QueuedOrSent, server
<1>7. OnItsWay' /\ SentAccountedFor' /\ OnlySentExecuted'
  BY <1>4 DEF IInv, OnItsWay, SentAccountedFor, OnlySentExecuted, server
<1>8. RepliesDue'
  BY <1>4 DEF IInv, TypeOK, OnlySentExecuted, QueuedOrSent, RepliesDue, Due, Functions, server
<1> QED BY <1>5, <1>6, <1>7, <1>8 DEF IInv

LEMMA LeavesStep == ASSUME IInv, Leaves PROVE IInv'
<1> DEFINE f == Head(queue)
<1>1. /\ queue # <<>> /\ conn > 0 /\ f \in Frames
      /\ f.id \in Requests /\ f.id \in Ids(queue) /\ sent[f.id] = 0
      /\ write' = "ok" /\ sent' = [sent EXCEPT ![f.id] = conn]
      /\ up' = IF session[conn] = "open" THEN [up EXCEPT ![conn] = Append(@, f)] ELSE up
      /\ UNCHANGED <<link, conn, queue, session, down, executed, status, doubled>>
  BY TailFrames DEF IInv, TypeOK, QueuedOrSent, Leaves, Frames
<1>2. executed[f.id] = 0 /\ conn \in Conns /\ session[conn] # "none"
  <2>1. executed[f.id] \in 0..1 /\ executed[f.id] # 1
    BY <1>1 DEF IInv, TypeOK, OnlySentExecuted
  <2>2. conn \in Conns
    BY <1>1 DEF IInv, TypeOK, Conns
  <2>3. session[conn] # "none"
    BY <2>2 DEF IInv, OnItsWay, Conns
  <2> QED BY <2>1, <2>2, <2>3
<1>3. \A c \in Conns : f.id \notin Ids(up[c])
  BY <1>1 DEF IInv, OnItsWay, Conns
<1>4. /\ Append(up[conn], f) \in Seq(Frames)
      /\ Ids(Append(up[conn], f)) = Ids(up[conn]) \cup {f.id}
      /\ Distinct(Append(up[conn], f))
  BY <1>1, <1>2, <1>3, AppendFrame DEF IInv, TypeOK, OnItsWay
<1> HIDE DEF f
<1>5. TypeOK'
  BY <1>1, <1>2, <1>4 DEF IInv, TypeOK, OnSocket
<1>6. QueuedOrSent'
  BY <1>1 DEF IInv, TypeOK, QueuedOrSent, f
<1>7. OnItsWay'
  BY <1>1, <1>2, <1>3, <1>4 DEF IInv, TypeOK, OnItsWay
<1>8. SentAccountedFor'
  <2> SUFFICES ASSUME NEW r \in Functions, sent'[r] # 0
               PROVE  \/ executed'[r] = 1
                      \/ r \in Ids(up'[sent'[r]])
                      \/ session'[sent'[r]] \in {"deaf", "closed"}
    BY DEF SentAccountedFor
  <2>1. CASE r = f.id
    BY <1>1, <1>2, <1>4, <2>1 DEF IInv, TypeOK
  <2>2. CASE r # f.id
    <3>1. sent'[r] = sent[r] /\ sent[r] \in Conns
      BY <1>1, <2>2 DEF IInv, TypeOK, Functions, Conns
    <3>2. Ids(up[sent[r]]) \subseteq Ids(up'[sent[r]])
      BY <1>1, <1>2, <1>4, <3>1 DEF IInv, TypeOK
    <3> QED BY <1>1, <3>1, <3>2 DEF IInv, SentAccountedFor
  <2> QED BY <2>1, <2>2
<1>9. OnlySentExecuted'
  BY <1>1, <1>2 DEF IInv, TypeOK, OnlySentExecuted
<1>10. RepliesDue'
  <2>1. \A r \in Functions : executed[r] = 1 => sent'[r] = sent[r]
    BY <1>1, <1>2 DEF IInv, TypeOK, Functions
  <2>2. \A c : Due(c)' = Due(c)
    BY <1>1 DEF Due
  <2> QED BY <1>1, <2>1, <2>2 DEF IInv, RepliesDue, Due
<1> QED BY <1>5, <1>6, <1>7, <1>8, <1>9, <1>10 DEF IInv

LEMMA RequestWrittenStep == ASSUME IInv, RequestWritten PROVE IInv'
<1>1. /\ queue \in Seq(Frames) /\ queue # <<>> /\ Distinct(queue)
      /\ Head(queue).id \in Requests /\ sent[Head(queue).id] # 0 /\ conn > 0
      /\ UNCHANGED <<link, conn, server, status, sent, doubled>>
  BY TailFrames DEF IInv, TypeOK, QueuedOrSent, RequestWritten, Frames
<1>2. /\ Tail(queue) \in Seq(Frames) /\ Distinct(Tail(queue))
      /\ Ids(queue) = Ids(Tail(queue)) \cup {Head(queue).id}
      /\ Head(queue).id \notin Ids(Tail(queue))
  BY <1>1, TailFrames
<1>3. Len(queue) > 1 <=> Tail(queue) # <<>>
  <2>1. Len(Tail(queue)) = Len(queue) - 1 /\ Len(queue) \in Nat
    BY <1>1, HeadTailProperties
  <2>2. Tail(queue) = <<>> <=> Len(Tail(queue)) = 0
    BY <1>2, EmptySeq
  <2>3. Len(queue) # 0
    BY <1>1, EmptySeq
  <2> QED BY <2>1, <2>2, <2>3
<1>4. /\ queue' \in Seq(Frames) /\ Distinct(queue') /\ Ids(queue') = Ids(Tail(queue))
      /\ write' \in {"none", "pending"}
      /\ write' # "none" => queue' # <<>>
  BY <1>2, <1>3, DoWriteKeeps, NoFrames DEF RequestWritten
<1>5. TypeOK'
  BY <1>1, <1>4 DEF IInv, TypeOK, OnSocket, server
<1>6. QueuedOrSent'
  BY <1>1, <1>2, <1>4 DEF IInv, TypeOK, QueuedOrSent, server
<1>7. (OnItsWay /\ SentAccountedFor /\ OnlySentExecuted /\ RepliesDue)'
  BY <1>1 DEF IInv, OnItsWay, SentAccountedFor, OnlySentExecuted, RepliesDue, Due, server
<1> QED BY <1>5, <1>6, <1>7 DEF IInv

LEMMA ConnectEndsStep == ASSUME IInv, ConnectEnds PROVE IInv'
<1>1. /\ conn' = conn + 1 /\ conn' \in Conns /\ link' = "connected"
      /\ session' = [session EXCEPT ![conn'] = "open"]
      /\ UNCHANGED <<queue, write, up, down, executed, status, sent, doubled>>
  BY DEF IInv, TypeOK, ConnectEnds, Conns
<1>2. TypeOK'
  BY <1>1 DEF IInv, TypeOK, OnSocket, Conns
<1>3. QueuedOrSent'
  BY <1>1 DEF IInv, TypeOK, QueuedOrSent
<1>4. OnItsWay'
  BY <1>1 DEF IInv, TypeOK, OnItsWay, Conns
<1>5. SentAccountedFor'
  BY <1>1 DEF IInv, TypeOK, SentAccountedFor, Functions, Conns
<1>6. OnlySentExecuted' /\ RepliesDue'
  BY <1>1 DEF IInv, OnlySentExecuted, RepliesDue, Due
<1> QED BY <1>2, <1>3, <1>4, <1>5, <1>6 DEF IInv

\* The steps that touch neither sessions nor streams nor requests.
LEMMA ConnectionStep ==
    ASSUME IInv, Connected \/ StaleConnect \/ Breaks \/ Stops
    PROVE  IInv'
<1>1. UNCHANGED <<conn, server, status, sent>>
  BY DEF Connected, StaleConnect, Breaks, Stops
<1>2. /\ queue' \in Seq(Frames) /\ Distinct(queue') /\ Ids(queue') = Ids(queue)
      /\ queue # <<>> => queue' # <<>> /\ Head(queue').id = Head(queue).id
      /\ write' \in {"none", "pending", "ok"}
      /\ write = "ok" <=> write' = "ok"
      /\ write' # "none" => queue # <<>> /\ conn > 0
  <2>1. /\ queue \in Seq(Frames) /\ Distinct(queue)
        /\ write \in {"none", "pending", "ok"} /\ (write # "none" => queue # <<>> /\ conn > 0)
    BY DEF IInv, TypeOK, QueuedOrSent
  <2>2. CASE UNCHANGED <<queue, write>>
    BY <2>1, <2>2
  <2>3. CASE DoWrite(queue) /\ queue # <<>> /\ write = "none" /\ conn > 0
    BY <2>1, <2>3, DoWriteKeeps
  <2>4. CASE Breaks
    BY <2>1, <2>4 DEF Breaks
  <2>5. Connected \/ StaleConnect => conn > 0
    BY DEF IInv, TypeOK, OnSocket, Connected, StaleConnect
  <2> QED BY <2>2, <2>3, <2>4, <2>5 DEF Connected, StaleConnect, Stops
<1>3. link' \in {"connecting", "connected", "up", "stopped"} /\ (OnSocket => conn > 0)'
  BY <1>1 DEF IInv, TypeOK, OnSocket, Connected, StaleConnect, Breaks, Stops
<1>4. TypeOK'
  BY <1>1, <1>2, <1>3 DEF IInv, TypeOK, server
<1>5. QueuedOrSent'
  BY <1>1, <1>2 DEF IInv, TypeOK, QueuedOrSent, server
<1>6. (OnItsWay /\ SentAccountedFor /\ OnlySentExecuted /\ RepliesDue)'
  BY <1>1 DEF IInv, OnItsWay, SentAccountedFor, OnlySentExecuted, RepliesDue, Due, server
<1> QED BY <1>4, <1>5, <1>6 DEF IInv

\* The queue, the streams and what was sent stay; a caller may stop waiting.
LEMMA AnsweredStep == ASSUME IInv, Answered PROVE IInv'
<1> DEFINE r == Head(down[conn])
<1>1. /\ conn \in Conns /\ down[conn] \in Seq(Requests) /\ down[conn] # <<>>
      /\ down' = [down EXCEPT ![conn] = Tail(@)]
      /\ UNCHANGED <<client, conn, session, up, executed, sent, doubled>>
  BY DEF IInv, TypeOK, OnSocket, Conns, Answered, client
<1>2. /\ r \in Requests /\ Tail(down[conn]) \in Seq(Requests)
      /\ Due(conn) = Due(conn)' \cup {r}
  <2>1. /\ r \in Requests /\ r = down[conn][1] /\ Tail(down[conn]) \in Seq(Requests)
        /\ Len(down[conn]) \in Nat /\ Len(down[conn]) > 0
        /\ Len(Tail(down[conn])) = Len(down[conn]) - 1
        /\ \A i \in 1..Len(Tail(down[conn])) : Tail(down[conn])[i] = down[conn][i + 1]
    BY <1>1, HeadTailProperties, EmptySeq
  <2>2. down'[conn] = Tail(down[conn]) /\ conn' = conn
    BY <1>1 DEF IInv, TypeOK
  <2>3. \A i \in 1..Len(down[conn]) : i = 1 \/ i - 1 \in 1..Len(Tail(down[conn]))
    BY <2>1
  <2> HIDE DEF r
  <2>4. \A i \in 1..Len(down[conn]) : i = 1 \/ down[conn][i] \in Due(conn)'
    <3> SUFFICES ASSUME NEW i \in 1..Len(down[conn]), i # 1 PROVE down[conn][i] \in Due(conn)'
      OBVIOUS
    <3>1. i - 1 \in 1..Len(Tail(down[conn])) /\ Tail(down[conn])[i - 1] = down[conn][i]
      BY <2>1, <2>3
    <3> QED BY <2>2, <3>1 DEF Due
  <2>5. \A i \in 1..Len(Tail(down[conn])) : Tail(down[conn])[i] \in Due(conn)
    BY <2>1 DEF Due
  <2>6. Due(conn)' \subseteq Due(conn) /\ r \in Due(conn)
    <3>1. r \in Due(conn)
      BY <2>1 DEF Due
    <3>2. Due(conn)' = {Tail(down[conn])[i] : i \in 1..Len(Tail(down[conn]))}
      BY <2>2 DEF Due
    <3> QED BY <2>5, <3>1, <3>2
  <2>7. Due(conn) \subseteq Due(conn)' \cup {r}
    BY <2>1, <2>4 DEF Due
  <2> QED BY <2>1, <2>6, <2>7
<1>3. \A c \in Conns : c # conn => Due(c)' = Due(c)
  BY <1>1 DEF IInv, TypeOK, Due
<1>4. /\ \A d \in Requests : d # r => status'[d] = status[d]
      /\ status' \in [Requests -> {"new", "open", "answered", "dropped"}]
      /\ status'[r] = status[r] \/ (status[r] = "open" /\ status'[r] = "answered")
      /\ r \in Functions => status'[r] # "open"
  BY <1>2 DEF IInv, TypeOK, Answered, Functions
<1> HIDE DEF r
<1>5. TypeOK'
  BY <1>1, <1>2, <1>4 DEF IInv, TypeOK, OnSocket, client
<1>6. QueuedOrSent'
  BY <1>1, <1>2, <1>4 DEF IInv, TypeOK, QueuedOrSent, client
<1>7. (OnItsWay /\ SentAccountedFor /\ OnlySentExecuted)'
  BY <1>1 DEF IInv, OnItsWay, SentAccountedFor, OnlySentExecuted, client
<1>8. RepliesDue'
  <2>1. \A c \in Conns : Due(c)' \subseteq Due(c)
    <3> SUFFICES ASSUME NEW c \in Conns PROVE Due(c)' \subseteq Due(c)
      OBVIOUS
    <3>1. CASE c = conn
      BY <1>1, <1>2, <3>1 DEF Due
    <3> QED BY <1>3, <3>1
  <2>2. \A c \in Conns : \A d \in Due(c)' \ Heartbeats : d \notin Oneway /\ executed'[d] = 1
    BY <1>1, <2>1 DEF IInv, RepliesDue
  <2>3. ASSUME NEW d \in Functions \ Oneway, executed'[d] = 1, status'[d] = "open"
        PROVE  d \in Due(sent[d])'
    <3>1. d # r /\ d \in Requests /\ status[d] = "open" /\ executed[d] = 1 /\ d \in Due(sent[d])
      BY <1>1, <1>4, <2>3 DEF IInv, RepliesDue, Functions
    <3>2. sent[d] \in Conns
      BY <3>1 DEF IInv, TypeOK, OnlySentExecuted, Functions, Conns
    <3>3. CASE sent[d] = conn
      BY <1>1, <1>2, <3>1, <3>3 DEF Due
    <3>4. CASE sent[d] # conn
      BY <1>1, <1>3, <3>1, <3>2, <3>4 DEF Due
    <3> QED BY <3>3, <3>4
  <2> QED BY <1>1, <2>2, <2>3 DEF RepliesDue, Due
<1> QED BY <1>5, <1>6, <1>7, <1>8 DEF IInv

LEMMA TimesOutStep == ASSUME IInv, NEW r \in Requests, TimesOut(r) PROVE IInv'
<1>1. TypeOK'
  BY DEF IInv, TypeOK, OnSocket, TimesOut, client, server
<1>2. QueuedOrSent'
  BY DEF IInv, TypeOK, QueuedOrSent, TimesOut, client, server
<1>3. (OnItsWay /\ SentAccountedFor /\ OnlySentExecuted)'
  BY DEF IInv, OnItsWay, SentAccountedFor, OnlySentExecuted, TimesOut, client, server
<1>4. RepliesDue'
  BY DEF IInv, TypeOK, RepliesDue, Due, Functions, TimesOut, client, server
<1> QED BY <1>1, <1>2, <1>3, <1>4 DEF IInv

-----------------------------------------------------------------------------
(* The steps of the sessions.                                              *)

\* A response is queued behind the others.
LEMMA DueAppended ==
    ASSUME NEW s \in Seq(Requests), NEW r \in Requests
    PROVE  /\ Append(s, r) \in Seq(Requests)
           /\ {Append(s, r)[i] : i \in 1..Len(Append(s, r))} = {s[i] : i \in 1..Len(s)} \cup {r}
<1>1. /\ Append(s, r) \in Seq(Requests)
      /\ Len(Append(s, r)) = Len(s) + 1 /\ Len(s) \in Nat
      /\ \A i \in 1..Len(s) : Append(s, r)[i] = s[i]
      /\ Append(s, r)[Len(s) + 1] = r
  BY AppendProperties
<1> QED BY <1>1

\* What a session finds in its stream.
LEMMA FrameRead ==
    ASSUME IInv, NEW c \in Conns, Reads(c)
    PROVE  /\ Head(up[c]).id \in Requests
           /\ sent[Head(up[c]).id] = c /\ executed[Head(up[c]).id] = 0
           /\ Tail(up[c]) \in Seq(Frames) /\ Distinct(Tail(up[c]))
           /\ Ids(up[c]) = Ids(Tail(up[c])) \cup {Head(up[c]).id}
           /\ Head(up[c]).id \notin Ids(Tail(up[c]))
<1>1. up[c] \in Seq(Frames) /\ up[c] # <<>> /\ Distinct(up[c])
  BY DEF IInv, TypeOK, OnItsWay, Reads
<1>2. /\ Tail(up[c]) \in Seq(Frames) /\ Head(up[c]) \in Frames
      /\ Ids(up[c]) = Ids(Tail(up[c])) \cup {Head(up[c]).id}
      /\ Distinct(Tail(up[c])) /\ Head(up[c]).id \notin Ids(Tail(up[c]))
  BY <1>1, TailFrames
<1>3. Head(up[c]).id \in Requests
  BY <1>2 DEF Frames
<1> QED BY <1>2, <1>3 DEF IInv, OnItsWay

LEMMA HeartbeatReadStep == ASSUME IInv, NEW c \in Conns, HeartbeatRead(c) PROVE IInv'
<1> DEFINE r == Head(up[c]).id
<1>1. /\ r \in Heartbeats /\ r \in Requests
      /\ Tail(up[c]) \in Seq(Frames) /\ Distinct(Tail(up[c]))
      /\ Ids(up[c]) = Ids(Tail(up[c])) \cup {r}
      /\ up' = [up EXCEPT ![c] = Tail(@)] /\ down' = [down EXCEPT ![c] = Append(@, r)]
      /\ UNCHANGED <<client, session, executed, status, sent, doubled>>
  BY FrameRead DEF HeartbeatRead, ReplyTo
<1> HIDE DEF r
<1>2. Append(down[c], r) \in Seq(Requests) /\ Due(c)' = Due(c) \cup {r}
  <2>1. down[c] \in Seq(Requests) /\ down'[c] = Append(down[c], r)
    BY <1>1 DEF IInv, TypeOK
  <2> QED BY <1>1, <2>1, DueAppended DEF Due
<1>3. TypeOK'
  BY <1>1, <1>2 DEF IInv, TypeOK, OnSocket, client
<1>4. QueuedOrSent'
  BY <1>1 DEF IInv, QueuedOrSent, client
<1>5. OnItsWay'
  BY <1>1 DEF IInv, TypeOK, OnItsWay, client
<1>6. SentAccountedFor'
  BY <1>1 DEF IInv, TypeOK, SentAccountedFor, Functions
<1>7. OnlySentExecuted'
  BY <1>1 DEF IInv, OnlySentExecuted
<1>8. RepliesDue'
  <2>1. \A d \in Conns : d # c => Due(d)' = Due(d)
    BY <1>1 DEF IInv, TypeOK, Due
  <2>2. \A d \in Functions : executed[d] = 1 => sent[d] \in Conns
    BY DEF IInv, TypeOK, OnlySentExecuted, Functions, Conns
  <2>3. \A d \in Functions \ Oneway :
            executed'[d] = 1 /\ status'[d] = "open" => d \in Due(sent[d])'
    BY <1>1, <1>2, <2>1, <2>2 DEF IInv, RepliesDue
  <2>4. \A d \in Conns : \A e \in Due(d)' \ Heartbeats : e \notin Oneway /\ executed'[e] = 1
    BY <1>1, <1>2, <2>1 DEF IInv, RepliesDue
  <2> QED BY <1>1, <2>3, <2>4 DEF RepliesDue, Due
<1> QED BY <1>3, <1>4, <1>5, <1>6, <1>7, <1>8 DEF IInv

LEMMA RequestReadStep == ASSUME IInv, NEW c \in Conns, RequestRead(c) PROVE IInv'
<1> DEFINE r == Head(up[c]).id
<1>1. /\ r \in Functions /\ sent[r] = c /\ executed[r] = 0
      /\ Tail(up[c]) \in Seq(Frames) /\ Distinct(Tail(up[c]))
      /\ Ids(up[c]) = Ids(Tail(up[c])) \cup {r} /\ r \notin Ids(Tail(up[c]))
      /\ up' = [up EXCEPT ![c] = Tail(@)]
      /\ executed' = [executed EXCEPT ![r] = @ + 1]
      /\ down' = IF r \in Oneway THEN down ELSE [down EXCEPT ![c] = Append(@, r)]
      /\ UNCHANGED <<client, session, status, sent, doubled>>
  BY FrameRead DEF RequestRead, ReplyTo, Functions
<1> HIDE DEF r
<1>2. Append(down[c], r) \in Seq(Requests)
  BY <1>1, DueAppended DEF IInv, TypeOK, Functions
<1>3. Due(c)' = IF r \in Oneway THEN Due(c) ELSE Due(c) \cup {r}
  <2>1. down[c] \in Seq(Requests) /\ r \in Requests
    BY <1>1 DEF IInv, TypeOK, Functions
  <2>2. down'[c] = IF r \in Oneway THEN down[c] ELSE Append(down[c], r)
    BY <1>1 DEF IInv, TypeOK
  <2> QED BY <2>1, <2>2, DueAppended DEF Due
<1>4. executed'[r] = 1 /\ \A d \in Requests : d # r => executed'[d] = executed[d]
  BY <1>1 DEF IInv, TypeOK, Functions
<1>5. c > 0 /\ c \in Conns
  BY DEF Conns
<1>6. TypeOK'
  BY <1>1, <1>2 DEF IInv, TypeOK, OnSocket, client, Functions
<1>7. QueuedOrSent'
  BY <1>1 DEF IInv, QueuedOrSent, client
<1>8. OnItsWay'
  <2>1. \A d \in Conns : Ids(up'[d]) \subseteq Ids(up[d]) /\ r \notin Ids(up'[d])
    BY <1>1 DEF IInv, TypeOK, OnItsWay
  <2>2. \A d \in Conns : Distinct(up'[d])
    BY <1>1 DEF IInv, TypeOK, OnItsWay
  <2>3. \A d \in Conns : Ids(up'[d]) \subseteq Requests
    <3> SUFFICES ASSUME NEW d \in Conns, NEW i \in 1..Len(up'[d]) PROVE up'[d][i].id \in Requests
      BY DEF Ids
    <3>1. up'[d] \in Seq(Frames)
      BY <1>6 DEF TypeOK
    <3>2. up'[d][i] \in Frames
      BY <3>1
    <3> QED BY <3>2 DEF Frames
  <2> QED BY <1>1, <1>4, <2>1, <2>2, <2>3 DEF IInv, OnItsWay, client
<1>9. SentAccountedFor'
  BY <1>1, <1>4 DEF IInv, TypeOK, SentAccountedFor, Functions
<1>10. OnlySentExecuted'
  BY <1>1, <1>4, <1>5 DEF IInv, OnlySentExecuted
<1>11. RepliesDue'
  <2>1. \A d \in Conns : d # c => Due(d)' = Due(d)
    BY <1>1 DEF IInv, TypeOK, Due
  <2>2. \A d \in Functions : executed[d] = 1 => sent[d] \in Conns
    BY DEF IInv, TypeOK, OnlySentExecuted, Functions, Conns
  <2>3. \A d \in Functions \ Oneway :
            executed'[d] = 1 /\ status'[d] = "open" => d \in Due(sent[d])'
    BY <1>1, <1>3, <1>4, <2>1, <2>2 DEF IInv, RepliesDue, Functions
  <2>4. \A d \in Conns : Due(d)' \subseteq Requests
    BY <1>6 DEF TypeOK, Due
  <2>5. \A d \in Conns : \A e \in Due(d)' \ Heartbeats : e \notin Oneway /\ executed'[e] = 1
    BY <1>1, <1>3, <1>4, <2>1, <2>4 DEF IInv, RepliesDue
  <2> QED BY <1>1, <2>3, <2>5 DEF RepliesDue, Due
<1> QED BY <1>6, <1>7, <1>8, <1>9, <1>10, <1>11 DEF IInv

\* What is in a stream when it is lost, is lost with its session.
LEMMA StreamLostStep ==
    ASSUME IInv, NEW c \in Conns, SwappedRead(c) \/ Ends(c) PROVE IInv'
<1>1. /\ session[c] \in {"open", "deaf"}
      /\ session' = [session EXCEPT ![c] = session'[c]] /\ session'[c] \in {"deaf", "closed"}
      /\ up' = [up EXCEPT ![c] = <<>>]
      /\ UNCHANGED <<client, down, executed, status, sent, doubled>>
  BY DEF IInv, TypeOK, SwappedRead, Ends, Reads
<1>2. TypeOK'
  BY <1>1, NoFrames DEF IInv, TypeOK, OnSocket, client
<1>3. QueuedOrSent'
  BY <1>1 DEF IInv, QueuedOrSent, client
<1>4. OnItsWay'
  BY <1>1, NoFrames DEF IInv, TypeOK, OnItsWay, client
<1>5. SentAccountedFor'
  <2> SUFFICES ASSUME NEW r \in Functions, sent'[r] # 0
               PROVE  \/ executed'[r] = 1
                      \/ r \in Ids(up'[sent'[r]])
                      \/ session'[sent'[r]] \in {"deaf", "closed"}
    BY DEF SentAccountedFor
  <2>1. sent[r] \in Conns /\ sent'[r] = sent[r]
    BY <1>1 DEF IInv, TypeOK, Functions, Conns
  <2>2. sent[r] # c => up'[sent[r]] = up[sent[r]] /\ session'[sent[r]] = session[sent[r]]
    BY <1>1, <2>1 DEF IInv, TypeOK
  <2> QED BY <1>1, <2>1, <2>2 DEF IInv, SentAccountedFor
<1>6. (OnlySentExecuted /\ RepliesDue)'
  BY <1>1 DEF IInv, OnlySentExecuted, RepliesDue, Due
<1> QED BY <1>2, <1>3, <1>4, <1>5, <1>6 DEF IInv

LEMMA NextIInv == IInv /\ [Next]_vars => IInv'
<1> SUFFICES ASSUME IInv, [Next]_vars PROVE IInv'
  OBVIOUS
<1>1. CASE UNCHANGED vars
  BY <1>1 DEF IInv, TypeOK, OnSocket, QueuedOrSent, OnItsWay, SentAccountedFor,
     OnlySentExecuted, RepliesDue, Due, vars, client, server
<1>2. CASE Next
  BY <1>2, RequestStep, TimesOutStep, LeavesStep, RequestWrittenStep, ConnectEndsStep,
     ConnectionStep, AnsweredStep, HeartbeatReadStep, RequestReadStep, StreamLostStep
     DEF Next, Session
<1> QED BY <1>1, <1>2

LEMMA Invariance == Spec => []IInv
BY InitIInv, NextIInv, PTL DEF Spec

-----------------------------------------------------------------------------

\* The variables have their types; in particular a function is called once
\* at most for a request, on whichever connections it was written.
THEOREM TypeCorrect == Spec => []TypeOK
<1>1. IInv => TypeOK
  BY DEF IInv
<1> QED BY <1>1, Invariance, PTL

\* A request that was made is still in write_queue_, or it left on a
\* connection on which it is under way, was executed, or was lost with the
\* session: the client loses none.
THEOREM NoRequestForgotten == Spec => []RequestAccountedFor
<1>1. IInv => RequestAccountedFor
  <2> SUFFICES ASSUME IInv, NEW r \in Functions, status[r] # "new", ~InQueue(r)
               PROVE  /\ sent[r] # 0
                      /\ \/ executed[r] > 0
                         \/ r \in Ids(up[sent[r]])
                         \/ session[sent[r]] \in {"deaf", "closed"}
    BY DEF RequestAccountedFor
  <2>1. sent[r] # 0
    BY DEF IInv, QueuedOrSent, InQueue, Functions
  <2> QED BY <2>1 DEF IInv, SentAccountedFor
<1> QED BY <1>1, Invariance, PTL

\* A response that a caller waits for is on its way on the connection of its
\* request; the session forgets none.
THEOREM NoResponseForgotten == Spec => []ResponseAccountedFor
<1>1. IInv => ResponseAccountedFor
  <2> SUFFICES ASSUME IInv, NEW r \in Functions \ Oneway, status[r] = "open", executed[r] > 0,
                      sent[r] = conn
               PROVE  \E i \in 1..Len(down[conn]) : down[conn][i] = r
    BY DEF ResponseAccountedFor
  <2>1. executed[r] = 1
    BY DEF IInv, TypeOK, Functions
  <2>2. r \in Due(conn)
    BY <2>1 DEF IInv, RepliesDue
  <2> QED BY <2>2 DEF Due
<1> QED BY <1>1, Invariance, PTL

-----------------------------------------------------------------------------
(* The whole implements AbstractRpc.                                       *)

\* Nothing was asked, nothing executed.
LEMMA InitRpc == Init => Abstract!Init
BY DEF Init, Abstract!Init, Functions

\* A step that changes neither status nor executed of a function is a
\* stutter of AbstractRpc.
LEMMA Unseen ==
    ASSUME \A r \in Functions : status'[r] = status[r] /\ executed'[r] = executed[r]
    PROVE  UNCHANGED Abstract!absVars
BY DEF Abstract!absVars

\* request(): the caller asks; heartbeats are not seen.
LEMMA RequestAsks ==
    ASSUME IInv, NEW r \in Requests, Request(r)
    PROVE  (r \in Functions /\ Abstract!Ask(r)) \/ UNCHANGED Abstract!absVars
<1>1. status[r] = "new" /\ status' = [status EXCEPT ![r] = "open"] /\ executed' = executed
  BY DEF Request, server
<1>2. CASE r \in Functions
  BY <1>1, <1>2 DEF Abstract!Ask, IInv, TypeOK, Functions
<1>3. CASE r \notin Functions
  BY <1>1, <1>3, Unseen DEF IInv, TypeOK, Functions
<1> QED BY <1>2, <1>3

\* release(): the caller gives up.
LEMMA TimesOutGivesUp ==
    ASSUME IInv, NEW r \in Requests, TimesOut(r)
    PROVE  r \in Functions /\ Abstract!GiveUp(r)
<1>1. r \in Functions
  BY DEF TimesOut, Functions
<1> QED BY <1>1 DEF TimesOut, server, Abstract!GiveUp, IInv, TypeOK, Functions

\* handle(): what is answered was executed, and not already answered.
LEMMA AnsweredAnswers ==
    ASSUME IInv, Answered
    PROVE  Abstract!Next \/ UNCHANGED Abstract!absVars
<1>1. PICK r \in Requests : r = Head(down[conn]) /\ r \in Due(conn) /\ conn \in Conns
  <2>1. conn \in Conns /\ down[conn] \in Seq(Requests) /\ down[conn] # <<>>
    BY DEF IInv, TypeOK, OnSocket, Conns, Answered
  <2>2. /\ Len(down[conn]) \in Nat \ {0}
        /\ Head(down[conn]) = down[conn][1] /\ Head(down[conn]) \in Requests
    BY <2>1, HeadTailProperties, EmptySeq
  <2> QED BY <2>1, <2>2 DEF Due
<1>2. executed' = executed
      /\ status' = IF r \notin Heartbeats /\ status[r] = "open"
                   THEN [status EXCEPT ![r] = "answered"] ELSE status
  BY <1>1 DEF Answered
<1>3. CASE r \notin Heartbeats /\ status[r] = "open"
  <2>1. r \in Functions /\ r \notin Oneway /\ executed[r] = 1
    BY <1>1, <1>3 DEF IInv, RepliesDue, Functions
  <2>2. Abstract!Answer(r)
    BY <1>2, <1>3, <2>1 DEF Abstract!Answer, IInv, TypeOK, Functions
  <2> QED BY <2>1, <2>2 DEF Abstract!Next
<1>4. CASE ~(r \notin Heartbeats /\ status[r] = "open")
  BY <1>2, <1>4, Unseen
<1> QED BY <1>3, <1>4

\* The session executes what was asked, for the first time.
LEMMA RequestReadExecutes ==
    ASSUME IInv, NEW c \in Conns, RequestRead(c) PROVE Abstract!Next
<1>1. PICK r \in Functions :
          /\ sent[r] # 0 /\ executed[r] = 0
          /\ executed' = [executed EXCEPT ![r] = @ + 1] /\ status' = status
  <2> DEFINE f == Head(up[c]).id
  <2>1. f \in Requests /\ sent[f] = c /\ executed[f] = 0 /\ f \notin Heartbeats
    BY FrameRead DEF RequestRead
  <2>2. executed' = [executed EXCEPT ![f] = @ + 1] /\ status' = status /\ c # 0
    BY DEF RequestRead, Conns
  <2> HIDE DEF f
  <2> QED BY <2>1, <2>2 DEF Functions
<1>2. status[r] # "new"
  BY <1>1 DEF IInv, QueuedOrSent, Functions
<1>3. executed'[r] = 1 /\ \A d \in Functions : d # r => executed'[d] = executed[d]
  BY <1>1 DEF IInv, TypeOK, Functions
<1>4. Abstract!Execute(r)
  BY <1>1, <1>2, <1>3 DEF Abstract!Execute
<1> QED BY <1>1, <1>4 DEF Abstract!Next

\* Every step maps to a step of AbstractRpc or to a stutter.
LEMMA NextRpc == IInv /\ [Next]_vars => [Abstract!Next]_(Abstract!absVars)
<1> SUFFICES ASSUME IInv, [Next]_vars PROVE Abstract!Next \/ UNCHANGED Abstract!absVars
  OBVIOUS
<1>1. ASSUME NEW r \in Requests, Request(r) \/ TimesOut(r)
      PROVE  Abstract!Next \/ UNCHANGED Abstract!absVars
  BY <1>1, RequestAsks, TimesOutGivesUp DEF Abstract!Next
<1>2. CASE Leaves \/ RequestWritten \/ ConnectEnds \/ Connected \/ StaleConnect \/ Breaks \/ Stops
  BY <1>2, Unseen DEF Leaves, RequestWritten, ConnectEnds, Connected, StaleConnect, Breaks,
     Stops, server
<1>3. ASSUME NEW c \in Conns, HeartbeatRead(c) \/ SwappedRead(c) \/ Ends(c)
      PROVE  Abstract!Next \/ UNCHANGED Abstract!absVars
  BY <1>3, Unseen DEF HeartbeatRead, SwappedRead, Ends
<1>4. CASE UNCHANGED vars
  BY <1>4, Unseen DEF vars, server
<1> QED BY <1>1, <1>2, <1>3, <1>4, AnsweredAnswers, RequestReadExecutes DEF Next, Session

\* Client and sessions keep the promise of AbstractRpc: whatever connections
\* break and whichever requests are written again, a function is called at
\* most once for a request that was made, and a caller is answered only with
\* the result of its own call.
THEOREM ImplementsRpc == Spec => KeepsRpcPromise
BY InitRpc, NextRpc, Invariance, PTL DEF Spec, KeepsRpcPromise, Abstract!Spec
=============================================================================
