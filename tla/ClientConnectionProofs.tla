----------------------- MODULE ClientConnectionProofs -----------------------
(***************************************************************************)
(* Theorems about ClientConnection, for any number of user threads and any *)
(* limits of attempts, misses and bounds of the model.                     *)
(***************************************************************************)
EXTENDS ClientConnection, SequenceTheorems, TLAPS

(***************************************************************************)
(* The inductive invariant.  What the properties say of a single moment    *)
(* holds from step to step only with the queue of handlers in view: a      *)
(* handler that starts nothing must not be the last of its chain.  For     *)
(* NoRequestLost that means that the handler of a write finds the request  *)
(* that was written at the front, and that there is one such handler; for  *)
(* RequestsMove that the socket need not be looked at.                     *)
(***************************************************************************)

Results    == {"ok", "error"}
Finishes   == [op : Ops \cup {"write"}, result : Results]
RequestIds == ({"user"} \X Users) \cup ({"beat"} \X Nat)
UserStates == {"start", "test", "sleep", "asleep", "result", "go", "refused", "get", "write",
               "sent"}

LinkTypes ==
    /\ ready \in BOOLEAN /\ event \in BOOLEAN /\ failures \in Nat /\ stopped \in BOOLEAN
    /\ sock \in {"closed", "connecting", "connected", "broken"}
    /\ flushing \in BOOLEAN /\ halted \in BOOLEAN
    /\ answered \in BOOLEAN /\ missed \in 0..MaxMissed /\ beats \in Nat
    /\ server \in {"up", "down"}

IoTypes ==
    /\ pending \in [Ops -> Nat] /\ pending["connect"] <= 1 /\ pending["beat"] <= 1
    /\ done \in Seq(Finishes)

RequestTypes ==
    /\ queue \in Seq(RequestIds) /\ writes \in Seq(RequestIds)
    /\ issued \subseteq RequestIds /\ wire \subseteq RequestIds
    /\ overlap \in BOOLEAN
    /\ upc \in [Users -> UserStates]
    /\ front \in [Users -> RequestIds \cup {<<>>}]
    /\ crashed \in {"no", "pop", "assert", "freed"}

TypeOK == LinkTypes /\ IoTypes /\ RequestTypes

\* The handler of a write that succeeded.
Written == Finish("write", "ok")

\* f is in d; at most once.
In(f, d) == \E i \in 1..Len(d) : d[i] = f
AtMostOnce(f, d) == \A i, j \in 1..Len(d) : d[i] = f /\ d[j] = f => i = j

\* As long as writes do not overlap there is one, in flight or handled next,
\* and what it wrote is at the front.
OneWrite ==
    ~overlap =>
        /\ Len(writes) <= 1
        /\ AtMostOnce(Written, done)
        /\ writes # <<>> => ~In(Written, done)
        /\ In(Written, done) => queue # <<>> /\ Head(queue) \in wire

\* NoRequestLost.
NoneLost == ~overlap => \A id : id \in issued <=> In(id, queue) \/ id \in wire

\* NeverStranded.
ConnectGoesOn ==
    Alive /\ ~ready /\ sock # "closed" =>
        pending["connect"] = 1 \/ \E result \in Results : In(Finish("connect", result), done)

\* ConnectionWatched, from either end.
BeatGoesOn == Alive /\ ready => pending["beat"] = 1 \/ In(Finish("beat", "ok"), done)

ReadGoesOn ==
    Alive /\ ready /\ ~halted =>
        \E op \in ReadOps :
            pending[op] > 0 \/ \E result \in Results : In(Finish(op, result), done)

\* RequestsMove, whatever the state of the socket.
RequestsMoveOn ==
    Alive /\ ready /\ queue # <<>> =>
        \/ writes # <<>> \/ In(Written, done)
        \/ flushing \/ \E u \in Users : AboutToWrite(u)
        \/ \E op \in (Ops \ {"beat"}) \cup {"write"} : In(Finish(op, "error"), done)

\* Before the first ready() nothing was started.
NotBegun == sock = "closed" => ~ready /\ done = <<>> /\ \A op \in Ops : pending[op] = 0

IInv == /\ TypeOK
        /\ NotBegun
        /\ OneWrite /\ NoneLost
        /\ ConnectGoesOn
        /\ BeatGoesOn /\ ReadGoesOn
        /\ RequestsMoveOn

USE ClientConnectionAssumption

-----------------------------------------------------------------------------
(* Lemmas about queues of handlers.                                        *)

\* A handler that is queued is the last one.
LEMMA InAppend ==
    ASSUME NEW S, NEW d \in Seq(S), NEW f \in S
    PROVE  /\ Append(d, f) \in Seq(S)
           /\ \A g : In(g, Append(d, f)) <=> In(g, d) \/ g = f
           /\ \A g : AtMostOnce(g, d) /\ (g = f => ~In(g, d)) => AtMostOnce(g, Append(d, f))
<1>1. /\ Append(d, f) \in Seq(S) /\ Len(Append(d, f)) = Len(d) + 1 /\ Len(d) \in Nat
      /\ \A i \in 1..Len(d) : Append(d, f)[i] = d[i]
      /\ Append(d, f)[Len(d) + 1] = f
  BY AppendProperties
<1>2. \A g : In(g, Append(d, f)) <=> In(g, d) \/ g = f
  BY <1>1 DEF In
<1>3. \A g : AtMostOnce(g, d) /\ (g = f => ~In(g, d)) => AtMostOnce(g, Append(d, f))
  BY <1>1 DEF In, AtMostOnce
<1> QED BY <1>1, <1>2, <1>3

\* The handler that runs is the first one.
LEMMA InTail ==
    ASSUME NEW S, NEW d \in Seq(S), d # <<>>
    PROVE  /\ Tail(d) \in Seq(S) /\ Head(d) \in S
           /\ \A g : In(g, d) <=> g = Head(d) \/ In(g, Tail(d))
           /\ \A g : AtMostOnce(g, d) => AtMostOnce(g, Tail(d))
           /\ AtMostOnce(Head(d), d) => ~In(Head(d), Tail(d))
<1>1. /\ Head(d) \in S /\ Tail(d) \in Seq(S)
      /\ Len(Tail(d)) = Len(d) - 1 /\ Len(d) \in Nat /\ Len(d) > 0
      /\ Head(d) = d[1]
      /\ \A i \in 1..Len(Tail(d)) : Tail(d)[i] = d[i + 1]
  BY HeadTailProperties, EmptySeq
<1>2. \A g : In(g, d) <=> g = Head(d) \/ In(g, Tail(d))
  <2>1. \A i \in 1..Len(d) : i = 1 \/ (i - 1 \in 1..Len(Tail(d)) /\ Tail(d)[i - 1] = d[i])
    BY <1>1
  <2>2. 1 \in 1..Len(d) /\ \A i \in 1..Len(Tail(d)) : i + 1 \in 1..Len(d)
    BY <1>1
  <2>3. ASSUME NEW g, In(g, d) PROVE g = Head(d) \/ In(g, Tail(d))
    BY <1>1, <2>1, <2>3 DEF In
  <2>4. ASSUME NEW g, g = Head(d) \/ In(g, Tail(d)) PROVE In(g, d)
    BY <1>1, <2>2, <2>4 DEF In
  <2> QED BY <2>3, <2>4
<1>3. /\ \A g : AtMostOnce(g, d) => AtMostOnce(g, Tail(d))
      /\ AtMostOnce(Head(d), d) => ~In(Head(d), Tail(d))
  BY <1>1 DEF In, AtMostOnce
<1> QED BY <1>1, <1>2, <1>3

LEMMA InConcat ==
    ASSUME NEW S, NEW d \in Seq(S), NEW e \in Seq(S)
    PROVE  /\ d \o e \in Seq(S)
           /\ \A g : In(g, d \o e) <=> In(g, d) \/ In(g, e)
           /\ \A g : AtMostOnce(g, d) /\ ~In(g, e) => AtMostOnce(g, d \o e)
<1>1. /\ d \o e \in Seq(S) /\ Len(d \o e) = Len(d) + Len(e) /\ Len(d) \in Nat /\ Len(e) \in Nat
      /\ \A i \in 1..Len(d \o e) : (d \o e)[i] = IF i <= Len(d) THEN d[i] ELSE e[i - Len(d)]
  BY ConcatProperties
<1>2. /\ \A i \in 1..Len(d) : (d \o e)[i] = d[i]
      /\ \A i \in 1..Len(e) : i + Len(d) \in 1..Len(d \o e) /\ (d \o e)[i + Len(d)] = e[i]
      /\ \A i \in 1..Len(d \o e) : i \in 1..Len(d)
                                   \/ (i - Len(d) \in 1..Len(e) /\ (d \o e)[i] = e[i - Len(d)])
  BY <1>1
<1>3. \A g : In(g, d \o e) <=> In(g, d) \/ In(g, e)
  <2>1. \A i \in 1..Len(d) : i \in 1..Len(d \o e)
    BY <1>1
  <2>2. ASSUME NEW g, In(g, d \o e) PROVE In(g, d) \/ In(g, e)
    BY <1>2, <2>2 DEF In
  <2>3. ASSUME NEW g, In(g, d) \/ In(g, e) PROVE In(g, d \o e)
    BY <1>2, <2>1, <2>3 DEF In
  <2> QED BY <2>2, <2>3
<1>4. \A g : AtMostOnce(g, d) /\ ~In(g, e) => AtMostOnce(g, d \o e)
  BY <1>1, <1>2 DEF In, AtMostOnce
<1> QED BY <1>1, <1>3, <1>4

\* What a socket or a timer aborts are errors.
Errors(d) == d \in Seq(Finishes) /\ \A g : In(g, d) => g.result = "error"

LEMMA AbortErrors ==
    ASSUME NEW op \in Ops \cup {"write"}, NEW n \in Nat
    PROVE  Errors(Abort(op, n))
<1>1. Finish(op, "error") \in Finishes /\ Finish(op, "error").result = "error"
  BY DEF Finish, Finishes, Results
<1>2. Abort(op, n) \in Seq(Finishes) /\ Len(Abort(op, n)) = n
      /\ \A i \in 1..n : Abort(op, n)[i] = Finish(op, "error")
  BY <1>1 DEF Abort
<1> QED BY <1>1, <1>2 DEF Errors, In

LEMMA ErrorsConcat ==
    ASSUME NEW d, NEW e, Errors(d), Errors(e)
    PROVE  Errors(d \o e)
BY InConcat DEF Errors

LEMMA SocketAbortsErrors ==
    ASSUME NEW p \in [Ops -> Nat], NEW w \in Seq(RequestIds)
    PROVE  Errors(SocketAborts(p, w))
<1>1. /\ p["match"] \in Nat /\ p["header"] \in Nat /\ p["payload"] \in Nat /\ p["connect"] \in Nat
      /\ Len(w) \in Nat /\ {"match", "header", "payload", "connect"} \subseteq Ops
  BY DEF Ops, ReadOps
<1>2. /\ Errors(Abort("match", p["match"])) /\ Errors(Abort("header", p["header"]))
      /\ Errors(Abort("payload", p["payload"])) /\ Errors(Abort("connect", p["connect"]))
      /\ Errors(Abort("write", Len(w)))
  BY <1>1, AbortErrors
<1>3. Errors(Abort("match", p["match"]) \o Abort("header", p["header"]))
  BY <1>2, ErrorsConcat
<1>4. Errors(Abort("match", p["match"]) \o Abort("header", p["header"])
                \o Abort("payload", p["payload"]))
  BY <1>2, <1>3, ErrorsConcat
<1>5. Errors(Abort("match", p["match"]) \o Abort("header", p["header"])
                \o Abort("payload", p["payload"]) \o Abort("connect", p["connect"]))
  BY <1>2, <1>4, ErrorsConcat
<1> QED BY <1>2, <1>5, ErrorsConcat DEF SocketAborts

LEMMA BeatAbortsErrors ==
    ASSUME NEW p \in [Ops -> Nat] PROVE Errors(BeatAborts(p))
<1>1. p["beat"] \in Nat /\ "beat" \in Ops
  BY DEF Ops
<1> QED BY <1>1, AbortErrors DEF BeatAborts

LEMMA NoErrors == Errors(<<>>) /\ \A d \in Seq(Finishes) : d \o <<>> = d
<1>1. <<>> \in Seq(Finishes) /\ \A g : ~In(g, <<>>)
  BY DEF In
<1> QED BY <1>1, ConcatEmptySeq DEF Errors

\* Queued(op, result) and UnderWay, in these terms.
LEMMA QueuedIn == \A op, result : Queued(op, result) <=> In(Finish(op, result), done)
BY DEF Queued, In

LEMMA UnderWayIn ==
    ASSUME NEW others PROVE UnderWay(others) <=> \/ writes # <<>> \/ In(Written, done)
                                                 \/ \E u \in others : AboutToWrite(u)
BY QueuedIn DEF UnderWay, Written

\* A handler runs, and x is aborted: nothing else leaves the queue, and only
\* errors come into it.
LEMMA Handled ==
    ASSUME IInv, done # <<>>, NEW x, Errors(x)
    PROVE  LET d == Tail(done) \o x
           IN  /\ d \in Seq(Finishes)
               /\ \A f : In(f, done) /\ f # Head(done) => In(f, d)
               /\ \A f : f.result = "ok" /\ In(f, d) => In(f, done)
               /\ AtMostOnce(Written, done) =>
                      AtMostOnce(Written, d) /\ (Head(done) = Written => ~In(Written, d))
<1>1. done \in Seq(Finishes) /\ x \in Seq(Finishes)
  BY DEF IInv, TypeOK, IoTypes, Errors
<1>2. /\ Tail(done) \in Seq(Finishes)
      /\ \A f : In(f, done) <=> f = Head(done) \/ In(f, Tail(done))
      /\ \A f : AtMostOnce(f, done) => AtMostOnce(f, Tail(done))
      /\ AtMostOnce(Head(done), done) => ~In(Head(done), Tail(done))
  BY <1>1, InTail
<1>3. /\ Tail(done) \o x \in Seq(Finishes)
      /\ \A f : In(f, Tail(done) \o x) <=> In(f, Tail(done)) \/ In(f, x)
      /\ \A f : AtMostOnce(f, Tail(done)) /\ ~In(f, x) => AtMostOnce(f, Tail(done) \o x)
  BY <1>1, <1>2, InConcat
<1>4. \A f : f.result = "ok" => ~In(f, x)
  BY DEF Errors
<1>5. Written.result = "ok"
  BY DEF Written, Finish
<1> QED BY <1>2, <1>3, <1>4, <1>5

\* do_reconnect, from a queue d of handlers.
LEMMA ReconnectQueue ==
    ASSUME NEW d \in Seq(Finishes), NEW p \in [Ops -> Nat], p["beat"] <= 1,
           NEW w \in Seq(RequestIds), Reconnect(d, p, w)
    PROVE  /\ IoTypes' /\ pending'["connect"] = 1 /\ writes' = <<>> /\ sock' = "connecting"
           /\ \A f : f.result = "ok" => (In(f, done') <=> In(f, d))
           /\ AtMostOnce(Written, d) => AtMostOnce(Written, done')
<1>1. Errors(SocketAborts(p, w)) /\ done' = d \o SocketAborts(p, w)
  BY SocketAbortsErrors DEF Reconnect
<1>2. /\ done' \in Seq(Finishes)
      /\ \A f : In(f, done') <=> In(f, d) \/ In(f, SocketAborts(p, w))
      /\ \A f : AtMostOnce(f, d) /\ ~In(f, SocketAborts(p, w)) => AtMostOnce(f, done')
  BY <1>1, InConcat DEF Errors
<1>3. \A f : f.result = "ok" => ~In(f, SocketAborts(p, w))
  BY <1>1 DEF Errors
<1>4. Written.result = "ok"
  BY DEF Written, Finish
<1>5. pending' = [op \in Ops |-> IF op = "connect" THEN 1
                                 ELSE IF op = "beat" THEN p["beat"] ELSE 0]
      /\ writes' = <<>> /\ sock' = "connecting"
  BY DEF Reconnect
<1>6. IoTypes' /\ pending'["connect"] = 1
  BY <1>2, <1>5 DEF IoTypes, Ops, ReadOps
<1> QED BY <1>2, <1>3, <1>4, <1>5, <1>6

\* What a step that closes the connection leaves.
LEMMA Reconnected ==
    ASSUME IInv, NEW d \in Seq(Finishes), NEW p \in [Ops -> Nat], p["beat"] <= 1,
           NEW w \in Seq(RequestIds), Reconnect(d, p, w), ready' = FALSE,
           \A f : f.result = "ok" /\ In(f, d) => In(f, done),
           AtMostOnce(Written, done) => AtMostOnce(Written, d),
           ~overlap' => ~overlap,
           queue # <<>> => queue' # <<>> /\ Head(queue') = Head(queue), wire' = wire
    PROVE  /\ IoTypes' /\ writes' = <<>> /\ sock' = "connecting" /\ NotBegun'
           /\ OneWrite' /\ ConnectGoesOn' /\ BeatGoesOn' /\ ReadGoesOn' /\ RequestsMoveOn'
<1>1. /\ IoTypes' /\ pending'["connect"] = 1 /\ writes' = <<>> /\ sock' = "connecting"
      /\ \A f : f.result = "ok" => (In(f, done') <=> In(f, d))
      /\ AtMostOnce(Written, d) => AtMostOnce(Written, done')
  BY ReconnectQueue
<1>2. Written.result = "ok"
  BY DEF Written, Finish
<1>3. OneWrite'
  <2>1. CASE overlap'
    BY <2>1 DEF OneWrite
  <2>2. CASE ~overlap'
    <3>1. /\ AtMostOnce(Written, done')
          /\ In(Written, done') => In(Written, done)
          /\ In(Written, done) => queue # <<>> /\ Head(queue) \in wire
      BY <1>1, <1>2, <2>2 DEF IInv, OneWrite
    <3>2. Len(writes') <= 1
      BY <1>1, EmptySeq
    <3> QED BY <1>1, <3>1, <3>2 DEF OneWrite, Written
  <2> QED BY <2>1, <2>2
<1> QED BY <1>1, <1>3 DEF NotBegun, ConnectGoesOn, BeatGoesOn, ReadGoesOn, RequestsMoveOn

LEMMA InitIInv == Init => IInv
<1> SUFFICES ASSUME Init PROVE IInv
  OBVIOUS
<1>1. \A g : ~In(g, <<>>) /\ AtMostOnce(g, <<>>)
  BY DEF In, AtMostOnce
<1>2. LinkTypes /\ IoTypes
  <2>1. LinkTypes
    <3>1. failures \in Nat /\ beats \in Nat /\ missed \in 0..MaxMissed
      BY DEF Init
    <3> QED BY <3>1 DEF Init, LinkTypes
  <2>2. IoTypes
    BY DEF Init, IoTypes, Ops, ReadOps
  <2> QED BY <2>1, <2>2
<1>3. RequestTypes
  <2>1. <<>> \in Seq(RequestIds) /\ {} \subseteq RequestIds
    OBVIOUS
  <2>2. upc \in [Users -> UserStates]
        /\ front \in [Users -> RequestIds \cup {<<>>}]
    BY DEF Init, UserStates
  <2> QED BY <2>1, <2>2 DEF Init, RequestTypes
<1>4. OneWrite /\ NoneLost
  BY <1>1 DEF Init, OneWrite, NoneLost
<1>5. NotBegun /\ ConnectGoesOn /\ BeatGoesOn /\ ReadGoesOn /\ RequestsMoveOn
  BY DEF Init, NotBegun, ConnectGoesOn, BeatGoesOn, ReadGoesOn, RequestsMoveOn
<1> QED BY <1>2, <1>3, <1>4, <1>5 DEF IInv, TypeOK

-----------------------------------------------------------------------------
(* The run thread.                                                         *)

\* Of the handler that runs.
LEMMA HandlesHead ==
    ASSUME NEW op, NEW result, Handles(op, result)
    PROVE  done # <<>> /\ Head(done) = Finish(op, result) /\ Alive /\ ~flushing
BY DEF Handles, Running, Alive

\* Handlers are told apart by their operation and their result.
LEMMA FinishDistinct ==
    \A op1, op2, r1, r2 :
        /\ Finish(op1, r1) = Finish(op2, r2) <=> op1 = op2 /\ r1 = r2
        /\ Finish(op1, r1).result = r1
BY DEF Finish

\* After Tail(done), with the wait aborted or not.
LEMMA HandledQuietly ==
    ASSUME IInv, done # <<>>, NEW p \in [Ops -> Nat],
           done' = Tail(done) \/ done' = Tail(done) \o BeatAborts(p)
    PROVE  /\ done' \in Seq(Finishes)
           /\ \A f : In(f, done) /\ f # Head(done) => In(f, done')
           /\ \A f : f.result = "ok" /\ In(f, done') => In(f, done)
           /\ AtMostOnce(Written, done) =>
                  AtMostOnce(Written, done') /\ (Head(done) = Written => ~In(Written, done'))
<1>1. Tail(done) \in Seq(Finishes)
  BY InTail DEF IInv, TypeOK, IoTypes
<1>2. Errors(<<>>) /\ Tail(done) \o <<>> = Tail(done)
  BY <1>1, NoErrors
<1>3. Errors(BeatAborts(p))
  BY BeatAbortsErrors
<1>4. PICK x : Errors(x) /\ done' = Tail(done) \o x
  <2>1. CASE done' = Tail(done)
    BY <1>2, <2>1
  <2>2. CASE done' = Tail(done) \o BeatAborts(p)
    BY <1>3, <2>2
  <2> QED BY <2>1, <2>2
<1> QED BY <1>4, Handled

\* Waking up who sleeps is of no account to the connection.
LEMMA NotifiedTyped == ASSUME IInv, upc' = Notified PROVE upc' \in [Users -> UserStates]
BY DEF IInv, TypeOK, RequestTypes, Notified, UserStates

LEMMA ConnectedStep == ASSUME IInv, Connected PROVE IInv'
<1>1. /\ done # <<>> /\ Head(done) = Finish("connect", "ok")
      /\ ready' = TRUE /\ failures' = 0 /\ event' = TRUE /\ halted' = FALSE /\ flushing' = TRUE
      /\ pending' = Beating(Reading("match", pending))
      /\ done' = Tail(done) \o BeatAborts(pending)
      /\ upc' \in [Users -> UserStates]
      /\ UNCHANGED <<stopped, sock, writes, beating, requests, front, server, crashed>>
  BY HandlesHead, NotifiedTyped DEF Connected
<1>2. pending \in [Ops -> Nat]
  BY DEF IInv, TypeOK, IoTypes
<1>3. /\ done' \in Seq(Finishes)
      /\ \A f : In(f, done) /\ f # Head(done) => In(f, done')
      /\ \A f : f.result = "ok" /\ In(f, done') => In(f, done)
      /\ AtMostOnce(Written, done) => AtMostOnce(Written, done')
  BY <1>1, <1>2, HandledQuietly
<1>4. /\ pending' \in [Ops -> Nat] /\ pending'["beat"] = 1 /\ pending'["match"] > 0
      /\ pending'["connect"] = pending["connect"]
  BY <1>1, <1>2 DEF Beating, Reading, Ops, ReadOps
<1>5. TypeOK'
  <2>1. LinkTypes'
    <3>1. failures' \in Nat
      BY <1>1
    <3> QED BY <1>1, <3>1 DEF IInv, TypeOK, LinkTypes, beating
  <2>2. IoTypes'
    BY <1>3, <1>4 DEF IInv, TypeOK, IoTypes
  <2>3. RequestTypes'
    BY <1>1 DEF IInv, TypeOK, RequestTypes, requests
  <2> QED BY <2>1, <2>2, <2>3 DEF TypeOK
<1>6. OneWrite' /\ NoneLost'
  BY <1>1, <1>3, FinishDistinct DEF IInv, OneWrite, NoneLost, Written, requests
<1>7. NotBegun' /\ ConnectGoesOn' /\ BeatGoesOn' /\ ReadGoesOn' /\ RequestsMoveOn'
  BY <1>1, <1>4 DEF IInv, NotBegun, ConnectGoesOn, BeatGoesOn, ReadGoesOn, RequestsMoveOn, ReadOps
<1> QED BY <1>5, <1>6, <1>7 DEF IInv

\* A write that is started while none was under way.
LEMMA WriteStarted ==
    ASSUME IInv, NEW others, NEW q \in Seq(RequestIds), q # <<>>,
           writes' = Append(writes, q[1]), overlap' = (overlap \/ UnderWay(others))
    PROVE  /\ writes' \in Seq(RequestIds) /\ writes' # <<>>
           /\ overlap' \in BOOLEAN
           /\ ~overlap' => ~overlap /\ Len(writes') = 1 /\ ~In(Written, done)
<1>1. writes \in Seq(RequestIds)
  BY DEF IInv, TypeOK, RequestTypes
<1>2. writes' \in Seq(RequestIds) /\ writes' # <<>> /\ Len(writes') = Len(writes) + 1
  <2>1. PICK id \in RequestIds : writes' = Append(writes, id)
    BY EmptySeq
  <2> QED BY <1>1, <2>1, AppendProperties
<1>3. overlap \in BOOLEAN
  BY DEF IInv, TypeOK, RequestTypes
<1>4. overlap' \in BOOLEAN /\ (~overlap' => ~overlap /\ writes = <<>> /\ ~In(Written, done))
  BY <1>3, UnderWayIn
<1>5. writes = <<>> => Len(writes) = 0
  BY EmptySeq
<1> QED BY <1>2, <1>4, <1>5

LEMMA FlushStep == ASSUME IInv, Flush PROVE IInv'
<1>1. /\ flushing' = FALSE
      /\ UNCHANGED <<link, sock, pending, done, beating, queue, issued, wire, users, server, crashed>>
  BY DEF Flush
<1>2. CASE queue = <<>>
  <2>1. writes' = writes /\ overlap' = overlap
    BY <1>2 DEF Flush, WritesAfter, Overlaps, IInv, TypeOK, RequestTypes
  <2>2. TypeOK'
    BY <1>1, <2>1 DEF IInv, TypeOK, LinkTypes, IoTypes, RequestTypes, link, beating, users
  <2>3. OneWrite' /\ NoneLost'
    BY <1>1, <2>1 DEF IInv, OneWrite, NoneLost
  <2>4. ConnectGoesOn' /\ BeatGoesOn' /\ ReadGoesOn' /\ RequestsMoveOn'
    BY <1>1, <1>2 DEF IInv, ConnectGoesOn, BeatGoesOn, ReadGoesOn, RequestsMoveOn, Alive, link
  <2>5. NotBegun'
    BY <1>1 DEF IInv, NotBegun, link
  <2> QED BY <2>2, <2>3, <2>4, <2>5 DEF IInv
<1>3. CASE queue # <<>>
  <2>1. /\ writes' \in Seq(RequestIds) /\ writes' # <<>> /\ overlap' \in BOOLEAN
        /\ ~overlap' => ~overlap /\ Len(writes') = 1 /\ ~In(Written, done)
    <3>1. /\ queue \in Seq(RequestIds) /\ writes' = Append(writes, queue[1])
          /\ overlap' = (overlap \/ UnderWay(Users))
      BY <1>3 DEF IInv, TypeOK, RequestTypes, Flush, WritesAfter, Overlaps
    <3> QED BY <1>3, <3>1, WriteStarted
  <2>2. TypeOK'
    BY <1>1, <2>1 DEF IInv, TypeOK, LinkTypes, IoTypes, RequestTypes, link, beating, users
  <2>3. OneWrite'
    <3>1. CASE overlap'
      BY <3>1 DEF OneWrite
    <3>2. CASE ~overlap'
      <4>1. Len(writes') = 1 /\ ~In(Written, done)
        BY <2>1, <3>2, Zenon
      <4>2. AtMostOnce(Written, done)
        BY <2>1, <3>2 DEF IInv, OneWrite
      <4>3. done' = done
        BY <1>1
      <4> QED BY <4>1, <4>2, <4>3 DEF OneWrite
    <3> QED BY <3>1, <3>2
  <2>6. NoneLost'
    BY <1>1, <2>1 DEF IInv, NoneLost
  <2>4. ConnectGoesOn' /\ BeatGoesOn' /\ ReadGoesOn' /\ RequestsMoveOn'
    BY <1>1, <2>1 DEF IInv, ConnectGoesOn, BeatGoesOn, ReadGoesOn, RequestsMoveOn, Alive, link
  <2>5. NotBegun'
    BY <1>1 DEF IInv, NotBegun, link
  <2> QED BY <2>2, <2>3, <2>4, <2>5, <2>6 DEF IInv
<1> QED BY <1>2, <1>3

LEMMA GiveUpStep == ASSUME IInv, GiveUp PROVE IInv'
<1>1. /\ done # <<>> /\ Head(done) = Finish("connect", "error")
      /\ ready' = FALSE /\ failures' = failures + 1 /\ event' = TRUE /\ stopped' = TRUE
      /\ done' = Tail(done)
      /\ upc' \in [Users -> UserStates]
      /\ UNCHANGED <<halted, sock, flushing, pending, writes, beating, requests, front, server, crashed>>
  BY HandlesHead, NotifiedTyped DEF GiveUp
<1>2. /\ done' \in Seq(Finishes)
      /\ \A f : In(f, done) /\ f # Head(done) => In(f, done')
      /\ \A f : f.result = "ok" /\ In(f, done') => In(f, done)
      /\ AtMostOnce(Written, done) => AtMostOnce(Written, done')
  BY <1>1, HandledQuietly DEF IInv, TypeOK, IoTypes
<1>3. TypeOK'
  <2>1. LinkTypes'
    <3>1. failures' \in Nat
      BY <1>1 DEF IInv, TypeOK, LinkTypes
    <3> QED BY <1>1, <3>1 DEF IInv, TypeOK, LinkTypes, beating
  <2>2. IoTypes' /\ RequestTypes'
    BY <1>1, <1>2 DEF IInv, TypeOK, IoTypes, RequestTypes, requests
  <2> QED BY <2>1, <2>2 DEF TypeOK
<1>4. OneWrite' /\ NoneLost'
  BY <1>1, <1>2, FinishDistinct DEF IInv, OneWrite, NoneLost, Written, requests
<1>5. NotBegun' /\ ConnectGoesOn' /\ BeatGoesOn' /\ ReadGoesOn' /\ RequestsMoveOn'
  BY <1>1 DEF IInv, NotBegun, ConnectGoesOn, BeatGoesOn, ReadGoesOn, RequestsMoveOn, Alive
<1> QED BY <1>3, <1>4, <1>5 DEF IInv

LEMMA ConnectAgainStep == ASSUME IInv, ConnectAgain PROVE IInv'
<1>1. /\ done # <<>> /\ ready' = FALSE /\ failures' = failures + 1
      /\ Reconnect(Tail(done), pending, writes)
      /\ UNCHANGED <<event, stopped, halted, flushing, beating, requests, users, server, crashed>>
  BY HandlesHead DEF ConnectAgain
<1>2. /\ Tail(done) \in Seq(Finishes)
      /\ \A f : In(f, Tail(done)) => In(f, done)
      /\ AtMostOnce(Written, done) => AtMostOnce(Written, Tail(done))
  BY <1>1, InTail DEF IInv, TypeOK, IoTypes
<1>3. /\ pending \in [Ops -> Nat] /\ pending["beat"] <= 1 /\ writes \in Seq(RequestIds)
      /\ UNCHANGED <<queue, wire, overlap>>
  BY <1>1 DEF IInv, TypeOK, IoTypes, RequestTypes, requests
<1>4. /\ IoTypes' /\ writes' = <<>> /\ sock' = "connecting" /\ NotBegun'
      /\ OneWrite' /\ ConnectGoesOn' /\ BeatGoesOn' /\ ReadGoesOn' /\ RequestsMoveOn'
  BY <1>1, <1>2, <1>3, Reconnected
<1>5. TypeOK'
  <2>1. LinkTypes'
    <3>1. failures' \in Nat
      BY <1>1 DEF IInv, TypeOK, LinkTypes
    <3> QED BY <1>1, <1>4, <3>1 DEF IInv, TypeOK, LinkTypes, beating
  <2>2. RequestTypes'
    BY <1>1, <1>4 DEF IInv, TypeOK, RequestTypes, requests, users
  <2> QED BY <1>4, <2>1, <2>2 DEF TypeOK
<1>6. NoneLost'
  BY <1>1 DEF IInv, NoneLost, requests
<1> QED BY <1>4, <1>5, <1>6 DEF IInv

\* close_all
LEMMA OperationFailedStep == ASSUME IInv, OperationFailed PROVE IInv'
<1> DEFINE d == Tail(done) \o BeatAborts(pending)
           p == [pending EXCEPT !["beat"] = 0]
<1>1. /\ done # <<>> /\ ready' = FALSE /\ Reconnect(d, p, writes)
      /\ UNCHANGED <<event, failures, stopped, halted, flushing, beating, requests, users,
                     server, crashed>>
  BY HandlesHead DEF OperationFailed, CloseAll, Close
<1>2. pending \in [Ops -> Nat] /\ p \in [Ops -> Nat] /\ p["beat"] <= 1
      /\ writes \in Seq(RequestIds)
  BY DEF IInv, TypeOK, IoTypes, RequestTypes, Ops, ReadOps
<1>3. /\ d \in Seq(Finishes)
      /\ \A f : f.result = "ok" /\ In(f, d) => In(f, done)
      /\ AtMostOnce(Written, done) => AtMostOnce(Written, d)
  BY <1>1, <1>2, BeatAbortsErrors, Handled
<1> HIDE DEF d, p
<1>4. UNCHANGED <<queue, wire, overlap>>
  BY <1>1 DEF requests
<1>5. /\ IoTypes' /\ writes' = <<>> /\ sock' = "connecting" /\ NotBegun'
      /\ OneWrite' /\ ConnectGoesOn' /\ BeatGoesOn' /\ ReadGoesOn' /\ RequestsMoveOn'
  BY <1>1, <1>2, <1>3, <1>4, Reconnected
<1>6. TypeOK'
  <2>1. LinkTypes'
    BY <1>1, <1>5 DEF IInv, TypeOK, LinkTypes, beating
  <2>2. RequestTypes'
    BY <1>1, <1>5 DEF IInv, TypeOK, RequestTypes, requests, users
  <2> QED BY <1>5, <2>1, <2>2 DEF TypeOK
<1>7. NoneLost'
  BY <1>1 DEF IInv, NoneLost, requests
<1> QED BY <1>5, <1>6, <1>7 DEF IInv

\* A handler that starts or ends no write, no connect and no chain of waits.
LEMMA QuietHandler ==
    ASSUME IInv, NEW op \in ReadOps \cup {"beat"}, NEW result \in Results,
           op = "beat" => result = "error", op # "beat" => result = "ok",
           done # <<>>, Head(done) = Finish(op, result),
           done' = Tail(done) \/ done' = Tail(done) \o BeatAborts(pending),
           pending' \in [Ops -> Nat], pending'["connect"] = pending["connect"],
           pending'["beat"] = 1 \/ pending'["beat"] = pending["beat"],
           UNCHANGED <<ready, stopped, crashed, sock, flushing, writes, queue, issued, wire,
                       overlap, upc, front>>
    PROVE  /\ IoTypes' /\ RequestTypes' /\ NotBegun' /\ OneWrite' /\ NoneLost'
           /\ ConnectGoesOn' /\ BeatGoesOn' /\ RequestsMoveOn'
           /\ \A f : In(f, done) /\ f # Head(done) => In(f, done')
<1>1. pending \in [Ops -> Nat]
  BY DEF IInv, TypeOK, IoTypes
<1>2. /\ done' \in Seq(Finishes)
      /\ \A f : In(f, done) /\ f # Head(done) => In(f, done')
      /\ \A f : f.result = "ok" /\ In(f, done') => In(f, done)
      /\ AtMostOnce(Written, done) => AtMostOnce(Written, done')
  BY <1>1, HandledQuietly
<1>3. IoTypes' /\ RequestTypes'
  <2>1. IoTypes'
    BY <1>2 DEF IInv, TypeOK, IoTypes
  <2>2. RequestTypes'
    BY DEF IInv, TypeOK, RequestTypes
  <2> QED BY <2>1, <2>2
<1>4. /\ Written # Head(done) /\ Written.result = "ok" /\ Finish("beat", "ok") # Head(done)
      /\ \A r : Finish("connect", r) # Head(done)
      /\ \A o : o # "beat" => Finish(o, "error") # Head(done)
  BY FinishDistinct DEF Written, ReadOps
<1>5. OneWrite' /\ NoneLost'
  <2>1. /\ In(Written, done') => In(Written, done)
        /\ AtMostOnce(Written, done) => AtMostOnce(Written, done')
    BY <1>2, <1>4
  <2>2. OneWrite'
    BY <2>1 DEF IInv, OneWrite
  <2>3. NoneLost'
    BY DEF IInv, NoneLost
  <2> QED BY <2>2, <2>3
<1>6. ConnectGoesOn'
  BY <1>2, <1>4 DEF IInv, ConnectGoesOn, Alive
<1>7. BeatGoesOn'
  BY <1>2, <1>4 DEF IInv, BeatGoesOn, Alive
<1>8. RequestsMoveOn'
  <2>1. \A o \in (Ops \ {"beat"}) \cup {"write"} : o # "beat"
    OBVIOUS
  <2>2. SUFFICES ASSUME Alive, ready, queue # <<>> PROVE RequestsMoveOn'
    BY DEF RequestsMoveOn, Alive
  <2>3. CASE \/ writes # <<>> \/ In(Written, done) \/ flushing \/ \E u \in Users : AboutToWrite(u)
    BY <1>2, <1>4, <2>3 DEF RequestsMoveOn, AboutToWrite
  <2>4. CASE \E o \in (Ops \ {"beat"}) \cup {"write"} : In(Finish(o, "error"), done)
    <3>1. PICK o \in (Ops \ {"beat"}) \cup {"write"} : In(Finish(o, "error"), done)
      BY <2>4
    <3>2. In(Finish(o, "error"), done')
      BY <1>2, <1>4, <2>1, <3>1
    <3> QED BY <3>2 DEF RequestsMoveOn
  <2> QED BY <2>2, <2>3, <2>4 DEF IInv, RequestsMoveOn
<1>9. NotBegun'
  BY DEF IInv, NotBegun
<1> QED BY <1>2, <1>3, <1>5, <1>6, <1>7, <1>8, <1>9

LEMMA MatchReadStep ==
    ASSUME IInv, NEW matches \in BOOLEAN, MatchRead(matches) PROVE IInv'
<1>1. /\ done # <<>> /\ Head(done) = Finish("match", "ok") /\ Alive
      /\ pending' = IF matches THEN Reading("header", pending) ELSE pending
      /\ halted' = (halted \/ ~matches)
      /\ done' = Tail(done)
      /\ UNCHANGED <<ready, event, failures, stopped, sock, flushing, writes, beating, requests,
                     users, server, crashed>>
  BY HandlesHead DEF MatchRead
<1>2. pending \in [Ops -> Nat]
  BY DEF IInv, TypeOK, IoTypes
<1>3. /\ pending' \in [Ops -> Nat] /\ pending'["connect"] = pending["connect"]
      /\ pending'["beat"] = pending["beat"] /\ (matches => pending'["header"] > 0)
  BY <1>1, <1>2 DEF Reading, Ops, ReadOps
<1>4. /\ IoTypes' /\ RequestTypes' /\ NotBegun' /\ OneWrite' /\ NoneLost'
      /\ ConnectGoesOn' /\ BeatGoesOn' /\ RequestsMoveOn'
  <2>1. "match" \in ReadOps \cup {"beat"} /\ "ok" \in Results
        /\ UNCHANGED <<queue, issued, wire, overlap, upc, front>>
    BY <1>1 DEF ReadOps, Results, requests, users
  <2> QED BY <1>1, <1>3, <2>1, QuietHandler
<1>5. LinkTypes'
  BY <1>1 DEF IInv, TypeOK, LinkTypes, beating
<1>6. ReadGoesOn'
  BY <1>1, <1>3 DEF ReadGoesOn, ReadOps
<1> QED BY <1>4, <1>5, <1>6 DEF IInv, TypeOK

LEMMA HeaderReadStep ==
    ASSUME IInv, NEW next \in {"match", "payload"}, HeaderRead(next) PROVE IInv'
<1>1. /\ done # <<>> /\ Head(done) = Finish("header", "ok")
      /\ missed' = 0 /\ answered' = TRUE
      /\ pending' = Beating(Reading(next, pending))
      /\ done' = Tail(done) \o BeatAborts(pending)
      /\ UNCHANGED <<link, sock, flushing, writes, beats, requests, users, server, crashed>>
  BY HandlesHead DEF HeaderRead
<1>2. pending \in [Ops -> Nat]
  BY DEF IInv, TypeOK, IoTypes
<1>3. /\ pending' \in [Ops -> Nat] /\ pending'["connect"] = pending["connect"]
      /\ pending'["beat"] = 1 /\ pending'[next] > 0
  BY <1>1, <1>2 DEF Beating, Reading, Ops, ReadOps
<1>4. /\ IoTypes' /\ RequestTypes' /\ NotBegun' /\ OneWrite' /\ NoneLost'
      /\ ConnectGoesOn' /\ BeatGoesOn' /\ RequestsMoveOn'
  <2>1. "header" \in ReadOps \cup {"beat"} /\ "ok" \in Results
        /\ UNCHANGED <<ready, stopped, queue, issued, wire, overlap, upc, front>>
    BY <1>1 DEF ReadOps, Results, requests, users, link
  <2> QED BY <1>1, <1>3, <2>1, QuietHandler
<1>5. LinkTypes'
  <2>1. missed' \in 0..MaxMissed
    BY <1>1
  <2> QED BY <1>1, <2>1 DEF IInv, TypeOK, LinkTypes, link
<1>6. ReadGoesOn'
  BY <1>3 DEF ReadGoesOn, ReadOps
<1> QED BY <1>4, <1>5, <1>6 DEF IInv, TypeOK

LEMMA PayloadReadStep == ASSUME IInv, PayloadRead PROVE IInv'
<1>1. /\ done # <<>> /\ Head(done) = Finish("payload", "ok")
      /\ pending' = Reading("match", pending)
      /\ done' = Tail(done)
      /\ UNCHANGED <<link, sock, flushing, writes, beating, requests, users, server, crashed>>
  BY HandlesHead DEF PayloadRead
<1>2. pending \in [Ops -> Nat]
  BY DEF IInv, TypeOK, IoTypes
<1>3. /\ pending' \in [Ops -> Nat] /\ pending'["connect"] = pending["connect"]
      /\ pending'["beat"] = pending["beat"] /\ pending'["match"] > 0
  BY <1>1, <1>2 DEF Reading, Ops, ReadOps
<1>4. /\ IoTypes' /\ RequestTypes' /\ NotBegun' /\ OneWrite' /\ NoneLost'
      /\ ConnectGoesOn' /\ BeatGoesOn' /\ RequestsMoveOn'
  <2>1. "payload" \in ReadOps \cup {"beat"} /\ "ok" \in Results
        /\ UNCHANGED <<ready, stopped, queue, issued, wire, overlap, upc, front>>
    BY <1>1 DEF ReadOps, Results, requests, users, link
  <2> QED BY <1>1, <1>3, <2>1, QuietHandler
<1>5. LinkTypes'
  BY <1>1 DEF IInv, TypeOK, LinkTypes, link, beating
<1>6. ReadGoesOn'
  BY <1>3 DEF ReadGoesOn, ReadOps
<1> QED BY <1>4, <1>5, <1>6 DEF IInv, TypeOK

LEMMA BeatAbortedAnsweredStep == ASSUME IInv, BeatAbortedAnswered PROVE IInv'
<1>1. /\ done # <<>> /\ Head(done) = Finish("beat", "error")
      /\ done' = Tail(done)
      /\ UNCHANGED <<link, sock, flushing, pending, writes, beating, requests, users, server,
                     crashed>>
  BY HandlesHead DEF BeatAbortedAnswered
<1>2. pending' \in [Ops -> Nat]
  BY <1>1 DEF IInv, TypeOK, IoTypes
<1>3. /\ IoTypes' /\ RequestTypes' /\ NotBegun' /\ OneWrite' /\ NoneLost'
      /\ ConnectGoesOn' /\ BeatGoesOn' /\ RequestsMoveOn'
      /\ \A f : In(f, done) /\ f # Head(done) => In(f, done')
  <2>1. "beat" \in ReadOps \cup {"beat"} /\ "error" \in Results
        /\ UNCHANGED <<ready, stopped, queue, issued, wire, overlap, upc, front>>
    BY <1>1 DEF Results, requests, users, link
  <2> QED BY <1>1, <1>2, <2>1, QuietHandler
<1>4. LinkTypes'
  BY <1>1 DEF IInv, TypeOK, LinkTypes, link, beating
<1>5. ReadGoesOn'
  <2>1. \A op \in ReadOps : \A r : Finish(op, r) # Head(done)
    BY <1>1, FinishDistinct DEF ReadOps
  <2> QED BY <1>1, <1>3, <2>1 DEF IInv, ReadGoesOn, Alive, link
<1> QED BY <1>3, <1>4, <1>5 DEF IInv, TypeOK

\* do_write's handler: the request it removes is the one that was sent.
LEMMA RequestWrittenStep == ASSUME IInv, RequestWritten PROVE IInv'
<1> DEFINE q == Tail(queue)
<1>1. /\ done # <<>> /\ Head(done) = Written /\ queue # <<>> /\ queue' = q
      /\ done' = Tail(done)
      /\ UNCHANGED <<link, sock, flushing, pending, beating, issued, wire, users, server, crashed>>
  BY HandlesHead DEF RequestWritten, Written
<1>2. /\ queue \in Seq(RequestIds) /\ writes \in Seq(RequestIds) /\ overlap \in BOOLEAN
      /\ pending \in [Ops -> Nat] /\ done \in Seq(Finishes)
  BY DEF IInv, TypeOK, IoTypes, RequestTypes
<1>3. /\ q \in Seq(RequestIds)
      /\ \A id : In(id, queue) <=> id = Head(queue) \/ In(id, q)
  BY <1>1, <1>2, InTail
<1>4. q # <<>> => q[1] \in RequestIds
  BY <1>3, EmptySeq
<1>5. /\ writes' = IF q # <<>> THEN Append(writes, q[1]) ELSE writes
      /\ ~overlap' => ~overlap /\ (q # <<>> => writes = <<>>)
      /\ overlap' \in BOOLEAN
  BY <1>2 DEF RequestWritten, WritesAfter
<1>6. /\ writes' \in Seq(RequestIds)
      /\ q # <<>> => writes' # <<>> /\ Len(writes') = Len(writes) + 1
  <2>1. CASE q # <<>>
    <3>1. PICK id \in RequestIds : writes' = Append(writes, id)
      BY <1>4, <1>5, <2>1
    <3> QED BY <1>2, <3>1, AppendProperties
  <2>2. CASE q = <<>>
    BY <1>2, <1>5, <2>2
  <2> QED BY <2>1, <2>2
<1> HIDE DEF q
<1>7. /\ done' \in Seq(Finishes)
      /\ \A f : In(f, done) /\ f # Head(done) => In(f, done')
      /\ \A f : f.result = "ok" /\ In(f, done') => In(f, done)
      /\ AtMostOnce(Written, done) => AtMostOnce(Written, done') /\ ~In(Written, done')
  BY <1>1, <1>2, HandledQuietly
<1>8. In(Written, done)
  BY <1>1, <1>2, InTail
<1>9. TypeOK'
  <2>1. LinkTypes'
    BY <1>1 DEF IInv, TypeOK, LinkTypes, link, beating
  <2>2. IoTypes'
    BY <1>1, <1>7 DEF IInv, TypeOK, IoTypes
  <2>3. RequestTypes'
    BY <1>1, <1>3, <1>5, <1>6 DEF IInv, TypeOK, RequestTypes, users
  <2> QED BY <2>1, <2>2, <2>3 DEF TypeOK
<1>10. OneWrite'
  <2>1. CASE overlap'
    BY <2>1 DEF OneWrite
  <2>2. CASE ~overlap'
    <3>1. ~overlap /\ AtMostOnce(Written, done) /\ writes = <<>>
      BY <1>5, <1>8, <2>2 DEF IInv, OneWrite
    <3>2. AtMostOnce(Written, done') /\ ~In(Written, done')
      BY <1>7, <3>1
    <3>3. Len(writes) = 0
      BY <3>1, EmptySeq
    <3>4. Len(writes') <= 1
      BY <1>5, <1>6, <3>1, <3>3
    <3> QED BY <3>2, <3>4 DEF OneWrite, Written
  <2> QED BY <2>1, <2>2
<1>11. NoneLost'
  <2>1. ~overlap => Head(queue) \in wire
    BY <1>8 DEF IInv, OneWrite
  <2> QED BY <1>1, <1>3, <1>5, <2>1 DEF IInv, NoneLost
<1>12. /\ Finish("beat", "ok") # Head(done) /\ \A r : Finish("connect", r) # Head(done)
       /\ \A op \in ReadOps, r \in Results : Finish(op, r) # Head(done)
  BY <1>1, FinishDistinct DEF Written, ReadOps
<1>13. ConnectGoesOn' /\ BeatGoesOn' /\ ReadGoesOn'
  BY <1>1, <1>7, <1>12 DEF IInv, ConnectGoesOn, BeatGoesOn, ReadGoesOn, Alive, link
<1>14. RequestsMoveOn'
  BY <1>1, <1>6 DEF RequestsMoveOn
<1>15. NotBegun'
  BY <1>1 DEF IInv, NotBegun
<1> QED BY <1>9, <1>10, <1>11, <1>13, <1>14, <1>15 DEF IInv

\* The steps after which the program is undefined.
LEMMA CrashStep ==
    ASSUME IInv, crashed' \in {"pop", "assert", "freed"},
           UNCHANGED <<link, sock, flushing, io, beating, requests, users, server>>
    PROVE  IInv'
<1>1. TypeOK'
  <2>1. LinkTypes'
    BY DEF IInv, TypeOK, LinkTypes, link, beating
  <2>2. IoTypes'
    BY DEF IInv, TypeOK, IoTypes, io
  <2>3. RequestTypes'
    BY DEF IInv, TypeOK, RequestTypes, io, requests, users
  <2> QED BY <2>1, <2>2, <2>3 DEF TypeOK
<1>2. OneWrite' /\ NoneLost' /\ NotBegun'
  BY DEF IInv, OneWrite, NoneLost, NotBegun, io, requests, link
<1>3. ConnectGoesOn' /\ BeatGoesOn' /\ ReadGoesOn' /\ RequestsMoveOn'
  BY DEF ConnectGoesOn, BeatGoesOn, ReadGoesOn, RequestsMoveOn, Alive
<1> QED BY <1>1, <1>2, <1>3 DEF IInv

\* The end of do_heartbeat's handler, after it started the writes w and left
\* the queue longer or as it was.
LEMMA Missed ==
    ASSUME IInv, NEW result \in Results, done # <<>>, Head(done) = Finish("beat", result),
           NEW w \in Seq(RequestIds), Miss(Tail(done), pending, w),
           ~overlap' => ~overlap /\ Len(w) <= 1 /\ (w # <<>> => ~In(Written, done)),
           queue # <<>> => queue' # <<>> /\ Head(queue') = Head(queue),
           queue' # <<>> => w # <<>> \/ (queue # <<>> /\ w = writes),
           UNCHANGED <<stopped, halted, flushing, wire, upc, crashed>>
    PROVE  /\ missed' \in 0..MaxMissed /\ ready' \in BOOLEAN /\ sock' \in {sock, "connecting"}
           /\ IoTypes' /\ writes' \in Seq(RequestIds) /\ NotBegun'
           /\ OneWrite' /\ ConnectGoesOn' /\ BeatGoesOn' /\ ReadGoesOn' /\ RequestsMoveOn'
<1>1. /\ pending \in [Ops -> Nat] /\ pending["beat"] <= 1 /\ pending["connect"] <= 1
      /\ done \in Seq(Finishes) /\ missed \in 0..MaxMissed /\ ready \in BOOLEAN
  BY DEF IInv, TypeOK, LinkTypes, IoTypes
<1>2. missed' \in 0..MaxMissed
  BY <1>1 DEF Miss
<1>3. CASE missed + 1 >= MaxMissed
  <2>1. Reconnect(Tail(done), pending, w) /\ ready' = FALSE
    BY <1>3 DEF Miss, Close
  <2>2. /\ Tail(done) \in Seq(Finishes)
        /\ \A f : In(f, Tail(done)) => In(f, done)
        /\ AtMostOnce(Written, done) => AtMostOnce(Written, Tail(done))
    BY <1>1, InTail
  <2>3. /\ IoTypes' /\ writes' = <<>> /\ sock' = "connecting" /\ NotBegun'
        /\ OneWrite' /\ ConnectGoesOn' /\ BeatGoesOn' /\ ReadGoesOn' /\ RequestsMoveOn'
    BY <1>1, <2>1, <2>2, Reconnected
  <2>4. ready' \in BOOLEAN
    BY <1>3 DEF Miss, Close
  <2>5. <<>> \in Seq(RequestIds)
    OBVIOUS
  <2>6. writes' \in Seq(RequestIds) /\ sock' \in {sock, "connecting"}
    BY <2>3, <2>5, Zenon
  <2> QED BY <1>2, <2>3, <2>4, <2>6
<1>4. CASE ~(missed + 1 >= MaxMissed)
  <2>1. /\ pending' = Beating(pending) /\ writes' = w
        /\ done' = Tail(done) \o BeatAborts(pending)
        /\ UNCHANGED <<ready, sock>>
    BY <1>4 DEF Miss
  <2>2. /\ done' \in Seq(Finishes)
        /\ \A f : In(f, done) /\ f # Head(done) => In(f, done')
        /\ \A f : f.result = "ok" /\ In(f, done') => In(f, done)
        /\ AtMostOnce(Written, done) => AtMostOnce(Written, done')
    BY <1>1, <2>1, HandledQuietly
  <2>3. /\ pending' \in [Ops -> Nat] /\ pending'["beat"] = 1
        /\ \A op \in Ops \ {"beat"} : pending'[op] = pending[op]
    BY <1>1, <2>1 DEF Beating, Ops, ReadOps
  <2>4. "connect" \in Ops \ {"beat"} /\ ReadOps \subseteq Ops \ {"beat"}
    BY DEF Ops, ReadOps
  <2>5. IoTypes'
    <3>1. pending'["connect"] <= 1 /\ pending'["beat"] <= 1
      <4>1. pending'["connect"] = pending["connect"]
        BY <2>3, <2>4
      <4> QED BY <1>1, <2>3, <4>1
    <3>2. pending' \in [Ops -> Nat] /\ done' \in Seq(Finishes)
      BY <2>2, <2>3
    <3> QED BY <3>1, <3>2 DEF IoTypes
  <2>6. /\ Written # Head(done) /\ Written.result = "ok"
        /\ \A op \in (Ops \ {"beat"}) \cup {"write"} : \A r : Finish(op, r) # Head(done)
    BY FinishDistinct DEF Written
  <2>7. OneWrite'
    <3>1. CASE overlap'
      BY <3>1 DEF OneWrite
    <3>2. CASE ~overlap'
      <4>1. /\ AtMostOnce(Written, done')
            /\ In(Written, done') => In(Written, done)
            /\ In(Written, done) => queue # <<>> /\ Head(queue) \in wire
        BY <2>2, <2>6, <3>2 DEF IInv, OneWrite
      <4> QED BY <2>1, <3>2, <4>1 DEF OneWrite, Written
    <3> QED BY <3>1, <3>2
  <2>8. ConnectGoesOn'
    BY <2>1, <2>2, <2>3, <2>4, <2>6 DEF IInv, ConnectGoesOn, Alive
  <2>9. BeatGoesOn'
    BY <2>3 DEF BeatGoesOn
  <2>10. ReadGoesOn'
    BY <2>1, <2>2, <2>3, <2>4, <2>6 DEF IInv, ReadGoesOn, Alive
  <2>11. RequestsMoveOn'
    <3>1. CASE queue' = <<>> \/ w # <<>>
      BY <2>1, <3>1 DEF RequestsMoveOn
    <3>2. CASE queue # <<>> /\ w = writes
      BY <2>1, <2>2, <2>6, <3>2 DEF IInv, RequestsMoveOn, Alive, AboutToWrite
    <3> QED BY <3>1, <3>2
  <2>12. NotBegun'
    BY <2>1 DEF IInv, NotBegun
  <2> QED BY <1>1, <1>2, <2>1, <2>5, <2>7, <2>8, <2>9, <2>10, <2>11, <2>12
<1> QED BY <1>3, <1>4

\* The queue and what is known of requests, after one was appended.
LEMMA Appended ==
    ASSUME IInv, NEW id \in RequestIds
    PROVE  /\ Append(queue, id) \in Seq(RequestIds) /\ Append(queue, id) # <<>>
           /\ queue # <<>> => Head(Append(queue, id)) = Head(queue)
           /\ Append(queue, id)[1] \in RequestIds
           /\ Len(Append(queue, id)) = 1 <=> queue = <<>>
           /\ \A x : In(x, Append(queue, id)) <=> In(x, queue) \/ x = id
<1>1. queue \in Seq(RequestIds)
  BY DEF IInv, TypeOK, RequestTypes
<1>2. /\ Append(queue, id) \in Seq(RequestIds) /\ Append(queue, id) # <<>>
      /\ Len(Append(queue, id)) = Len(queue) + 1 /\ Len(queue) \in Nat
      /\ \A i \in 1..Len(queue) : Append(queue, id)[i] = queue[i]
      /\ Append(queue, id)[Len(queue) + 1] = id
  BY <1>1, AppendProperties
<1>3. queue = <<>> <=> Len(queue) = 0
  BY <1>1, EmptySeq
<1>4. queue # <<>> => Head(Append(queue, id)) = Head(queue)
  <2>1. queue # <<>> => Head(queue) = queue[1]
    BY <1>1, HeadTailProperties
  <2>2. Head(Append(queue, id)) = Append(queue, id)[1]
    BY <1>2, HeadTailProperties
  <2>3. queue # <<>> => 1 \in 1..Len(queue)
    BY <1>2, <1>3
  <2> QED BY <1>2, <2>1, <2>2, <2>3
<1>5. \A x : In(x, Append(queue, id)) <=> In(x, queue) \/ x = id
  BY <1>1, InAppend
<1>6. Append(queue, id)[1] \in RequestIds
  BY <1>2, EmptySeq
<1> QED BY <1>2, <1>3, <1>4, <1>5, <1>6

LEMMA BeatDueStep == ASSUME IInv, BeatDue PROVE IInv'
<1> DEFINE id == <<"beat", beats>>
           q == Append(queue, id)
           w == IF queue = <<>> THEN Append(writes, q[1]) ELSE writes
<1>1. /\ beats \in Nat /\ id \in RequestIds
      /\ writes \in Seq(RequestIds) /\ overlap \in BOOLEAN
  <2>1. beats \in Nat
    BY DEF IInv, TypeOK, LinkTypes
  <2> QED BY <2>1 DEF IInv, TypeOK, RequestTypes, RequestIds
<1>2. /\ q \in Seq(RequestIds) /\ q # <<>> /\ (queue # <<>> => Head(q) = Head(queue))
      /\ q[1] \in RequestIds /\ (Len(q) = 1 <=> queue = <<>>)
      /\ \A x : In(x, q) <=> In(x, queue) \/ x = id
  BY <1>1, Appended
<1>3. /\ done # <<>> /\ Head(done) = Finish("beat", "ok")
      /\ answered' = FALSE /\ beats' = beats + 1
      /\ issued' = issued \cup {id} /\ queue' = q
      /\ UNCHANGED <<event, failures, stopped, halted, flushing, wire, users, server, crashed>>
  BY HandlesHead DEF BeatDue
<1> HIDE DEF id
<1>4. /\ overlap' = (overlap \/ (queue = <<>> /\ UnderWay(Users)))
      /\ Miss(Tail(done), pending, w)
  BY <1>2 DEF BeatDue, Overlaps, WritesAfter, id
<1> HIDE DEF q
<1>5. w \in Seq(RequestIds) /\ (queue = <<>> => w # <<>> /\ Len(w) = Len(writes) + 1)
  <2>1. CASE queue = <<>>
    BY <1>1, <1>2, <2>1, AppendProperties
  <2>2. CASE queue # <<>>
    BY <1>1, <2>2
  <2> QED BY <2>1, <2>2
<1>6. overlap' \in BOOLEAN
  BY <1>1, <1>4
<1>7. ~overlap' => ~overlap /\ Len(w) <= 1 /\ (w # <<>> => ~In(Written, done))
  <2>1. CASE queue = <<>>
    <3>1. ~overlap' => ~overlap /\ writes = <<>> /\ ~In(Written, done)
      BY <1>1, <1>4, <2>1, UnderWayIn
    <3>2. writes = <<>> => Len(writes) = 0
      BY EmptySeq
    <3> QED BY <1>5, <2>1, <3>1, <3>2
  <2>2. CASE queue # <<>>
    BY <1>1, <1>4, <2>2 DEF IInv, OneWrite
  <2> QED BY <2>1, <2>2
<1>8. queue' # <<>> => w # <<>> \/ (queue # <<>> /\ w = writes)
  BY <1>5
<1> HIDE DEF w
<1>9. /\ missed' \in 0..MaxMissed /\ ready' \in BOOLEAN /\ sock' \in {sock, "connecting"}
      /\ IoTypes' /\ writes' \in Seq(RequestIds) /\ NotBegun'
      /\ OneWrite' /\ ConnectGoesOn' /\ BeatGoesOn' /\ ReadGoesOn' /\ RequestsMoveOn'
  <2>1. UNCHANGED <<stopped, halted, flushing, wire, upc, crashed>> /\ "ok" \in Results
    BY <1>3 DEF users, Results
  <2>2. queue # <<>> => queue' # <<>> /\ Head(queue') = Head(queue)
    BY <1>2, <1>3
  <2> QED BY <1>3, <1>4, <1>5, <1>7, <1>8, <2>1, <2>2, Missed
<1>10. LinkTypes'
  <2>1. beats' \in Nat
    BY <1>1, <1>3
  <2> QED BY <1>3, <1>9, <2>1 DEF IInv, TypeOK, LinkTypes
<1>11. RequestTypes'
  BY <1>1, <1>2, <1>3, <1>6, <1>9 DEF IInv, TypeOK, RequestTypes, users
<1>12. NoneLost'
  BY <1>2, <1>3, <1>7 DEF IInv, NoneLost
<1> QED BY <1>9, <1>10, <1>11, <1>12 DEF IInv, TypeOK

LEMMA BeatAbortedUnansweredStep == ASSUME IInv, BeatAbortedUnanswered PROVE IInv'
<1>1. /\ done # <<>> /\ Head(done) = Finish("beat", "error")
      /\ Miss(Tail(done), pending, writes)
      /\ UNCHANGED <<event, failures, stopped, halted, flushing, answered, beats, requests,
                     users, server, crashed>>
  BY HandlesHead DEF BeatAbortedUnanswered
<1>2. /\ missed' \in 0..MaxMissed /\ ready' \in BOOLEAN /\ sock' \in {sock, "connecting"}
      /\ IoTypes' /\ writes' \in Seq(RequestIds) /\ NotBegun'
      /\ OneWrite' /\ ConnectGoesOn' /\ BeatGoesOn' /\ ReadGoesOn' /\ RequestsMoveOn'
  <2>1. UNCHANGED <<stopped, halted, flushing, wire, upc, crashed, queue, overlap>>
        /\ "error" \in Results /\ writes \in Seq(RequestIds)
    BY <1>1 DEF users, requests, Results, IInv, TypeOK, RequestTypes
  <2>2. ~overlap' => ~overlap /\ Len(writes) <= 1 /\ (writes # <<>> => ~In(Written, done))
    BY <2>1 DEF IInv, OneWrite
  <2> QED BY <1>1, <2>1, <2>2, Missed
<1>3. LinkTypes'
  BY <1>1, <1>2 DEF IInv, TypeOK, LinkTypes
<1>4. RequestTypes'
  BY <1>1, <1>2 DEF IInv, TypeOK, RequestTypes, users, requests
<1>5. NoneLost'
  BY <1>1 DEF IInv, NoneLost, requests
<1> QED BY <1>2, <1>3, <1>4, <1>5 DEF IInv, TypeOK

-----------------------------------------------------------------------------
(* Users.                                                                  *)

\* A step of a user that leaves the connection alone: the chains go on.
LEMMA ConnectionUntouched ==
    ASSUME IInv, UNCHANGED <<link, flushing, sock, pending, done, beating, server, crashed>>
    PROVE  LinkTypes' /\ IoTypes' /\ NotBegun' /\ ConnectGoesOn' /\ BeatGoesOn' /\ ReadGoesOn'
<1>1. LinkTypes'
  BY DEF IInv, TypeOK, LinkTypes, link, beating
<1>2. IoTypes'
  BY DEF IInv, TypeOK, IoTypes
<1>3. NotBegun' /\ ConnectGoesOn' /\ BeatGoesOn' /\ ReadGoesOn'
  BY DEF IInv, NotBegun, ConnectGoesOn, BeatGoesOn, ReadGoesOn, Alive, link
<1> QED BY <1>1, <1>2, <1>3

LEMMA CallReadyStep == ASSUME IInv, NEW u \in Users, CallReady(u) PROVE IInv'
<1>1. /\ upc[u] = "start" /\ upc' = [upc EXCEPT ![u] = "test"]
      /\ UNCHANGED <<link, flushing, beating, requests, front, server, crashed>>
  BY DEF CallReady
<1>2. upc' \in [Users -> UserStates]
  BY <1>1 DEF IInv, TypeOK, RequestTypes, UserStates
<1>3. CASE sock = "closed"
  <2>1. /\ Reconnect(done, pending, writes) /\ ready' = FALSE
    BY <1>1, <1>3 DEF CallReady, IInv, NotBegun, link
  <2>2. /\ pending \in [Ops -> Nat] /\ pending["beat"] <= 1 /\ writes \in Seq(RequestIds)
        /\ done \in Seq(Finishes) /\ UNCHANGED <<queue, wire, overlap>>
    BY <1>1 DEF IInv, TypeOK, IoTypes, RequestTypes, requests
  <2>3. /\ IoTypes' /\ writes' = <<>> /\ sock' = "connecting" /\ NotBegun'
        /\ OneWrite' /\ ConnectGoesOn' /\ BeatGoesOn' /\ ReadGoesOn' /\ RequestsMoveOn'
    BY <2>1, <2>2, Reconnected
  <2>4. LinkTypes'
    BY <1>1, <2>3 DEF IInv, TypeOK, LinkTypes, link, beating
  <2>5. RequestTypes'
    BY <1>1, <1>2, <2>3 DEF IInv, TypeOK, RequestTypes, requests
  <2>6. NoneLost'
    BY <1>1 DEF IInv, NoneLost, requests
  <2> QED BY <2>3, <2>4, <2>5, <2>6 DEF IInv, TypeOK
<1>4. CASE sock # "closed"
  <2>1. UNCHANGED <<pending, writes, done, sock>>
    BY <1>4 DEF CallReady, io
  <2>2. LinkTypes' /\ IoTypes' /\ NotBegun' /\ ConnectGoesOn' /\ BeatGoesOn' /\ ReadGoesOn'
    BY <1>1, <2>1, ConnectionUntouched
  <2>3. RequestTypes'
    BY <1>1, <1>2, <2>1 DEF IInv, TypeOK, RequestTypes, requests
  <2>4. OneWrite' /\ NoneLost'
    BY <1>1, <2>1 DEF IInv, OneWrite, NoneLost, requests
  <2>5. \A v \in Users : AboutToWrite(v) => upc'[v] \in {"get", "write"}
    BY <1>1 DEF AboutToWrite, IInv, TypeOK, RequestTypes
  <2>6. RequestsMoveOn'
    BY <1>1, <2>1, <2>5 DEF IInv, RequestsMoveOn, Alive, AboutToWrite, link, requests
  <2> QED BY <2>2, <2>3, <2>4, <2>6 DEF IInv, TypeOK
<1> QED BY <1>3, <1>4

\* A step of a user inside ready() that starts nothing.
LEMMA InsideReady ==
    ASSUME IInv, NEW u \in Users, NEW to \in UserStates, ~AboutToWrite(u),
           upc' = [upc EXCEPT ![u] = to],
           UNCHANGED <<link, sock, flushing, io, beating, requests, front, server, crashed>>
    PROVE  IInv'
<1>1. LinkTypes' /\ IoTypes' /\ NotBegun' /\ ConnectGoesOn' /\ BeatGoesOn' /\ ReadGoesOn'
  BY ConnectionUntouched DEF io
<1>2. RequestTypes'
  <2>1. upc' \in [Users -> UserStates]
    BY DEF IInv, TypeOK, RequestTypes
  <2> QED BY <2>1 DEF IInv, TypeOK, RequestTypes, requests, io
<1>3. OneWrite' /\ NoneLost'
  BY DEF IInv, OneWrite, NoneLost, requests, io
<1>4. \A v \in Users : AboutToWrite(v) => upc'[v] \in {"get", "write"}
  BY DEF AboutToWrite, IInv, TypeOK, RequestTypes
<1>5. RequestsMoveOn'
  BY <1>4 DEF IInv, RequestsMoveOn, Alive, AboutToWrite, link, requests, io
<1> QED BY <1>1, <1>2, <1>3, <1>5 DEF IInv, TypeOK

LEMMA AlreadyReadyStep == ASSUME IInv, NEW u \in Users, AlreadyReady(u) PROVE IInv'
<1>1. ~AboutToWrite(u) /\ "go" \in UserStates
  BY DEF AlreadyReady, AboutToWrite, UserStates
<1> QED BY <1>1, InsideReady DEF AlreadyReady

LEMMA WaitingStep ==
    ASSUME IInv, NEW u \in Users, NEW from \in {"test", "sleep", "asleep", "result", "refused"},
           NEW to \in UserStates, Waiting(u, from, to)
    PROVE  IInv'
<1>1. ~AboutToWrite(u)
  BY DEF Waiting, AboutToWrite
<1> QED BY <1>1, InsideReady DEF Waiting

LEMMA EnqueueStep == ASSUME IInv, NEW u \in Users, Enqueue(u) PROVE IInv'
<1> DEFINE id == <<"user", u>>
           q == Append(queue, id)
<1>1. id \in RequestIds
  BY DEF RequestIds
<1>2. /\ q \in Seq(RequestIds) /\ q # <<>> /\ (queue # <<>> => Head(q) = Head(queue))
      /\ (Len(q) = 1 <=> queue = <<>>)
      /\ \A x : In(x, q) <=> In(x, queue) \/ x = id
  BY <1>1, Appended
<1>3. /\ upc[u] = "go" /\ queue' = q /\ issued' = issued \cup {id}
      /\ upc' = [upc EXCEPT ![u] = IF Len(q) = 1 THEN "get" ELSE "sent"]
      /\ UNCHANGED <<link, sock, flushing, io, beating, wire, overlap, front, server, crashed>>
  BY DEF Enqueue
<1> HIDE DEF id, q
<1>4. LinkTypes' /\ IoTypes' /\ NotBegun' /\ ConnectGoesOn' /\ BeatGoesOn' /\ ReadGoesOn'
  BY <1>3, ConnectionUntouched DEF io
<1>5. upc \in [Users -> UserStates]
  BY DEF IInv, TypeOK, RequestTypes
<1>6. RequestTypes'
  <2>1. upc' \in [Users -> UserStates]
    BY <1>3, <1>5 DEF UserStates
  <2>2. issued' \subseteq RequestIds
    BY <1>1, <1>3 DEF IInv, TypeOK, RequestTypes
  <2> QED BY <1>2, <1>3, <2>1, <2>2 DEF IInv, TypeOK, RequestTypes, io
<1>7. OneWrite'
  BY <1>2, <1>3 DEF IInv, OneWrite, io, Written
<1>8. NoneLost'
  BY <1>2, <1>3 DEF IInv, NoneLost
<1>9. RequestsMoveOn'
  <2>1. CASE queue = <<>>
    <3>1. upc'[u] = "get"
      BY <1>2, <1>3, <1>5, <2>1
    <3> QED BY <3>1 DEF RequestsMoveOn, AboutToWrite
  <2>2. CASE queue # <<>>
    <3>1. \A v \in Users : AboutToWrite(v) => upc'[v] \in {"get", "write"}
      BY <1>3, <1>5 DEF AboutToWrite
    <3> QED BY <1>3, <2>2, <3>1 DEF IInv, RequestsMoveOn, Alive, AboutToWrite, link, io
  <2> QED BY <2>1, <2>2
<1> QED BY <1>4, <1>6, <1>7, <1>8, <1>9 DEF IInv, TypeOK

LEMMA GetRequestStep == ASSUME IInv, NEW u \in Users, GetRequest(u) PROVE IInv'
<1>1. /\ queue # <<>> /\ front' = [front EXCEPT ![u] = Head(queue)]
      /\ upc' = [upc EXCEPT ![u] = "write"]
      /\ UNCHANGED <<link, sock, flushing, io, beating, requests, server, crashed>>
  BY DEF GetRequest
<1>2. LinkTypes' /\ IoTypes' /\ NotBegun' /\ ConnectGoesOn' /\ BeatGoesOn' /\ ReadGoesOn'
  BY <1>1, ConnectionUntouched DEF io
<1>3. RequestTypes'
  <2>1. upc' \in [Users -> UserStates]
    BY <1>1 DEF IInv, TypeOK, RequestTypes, UserStates
  <2>2. Head(queue) \in RequestIds
    BY <1>1, InTail DEF IInv, TypeOK, RequestTypes
  <2>3. front' \in [Users -> RequestIds \cup {<<>>}]
    BY <1>1, <2>2 DEF IInv, TypeOK, RequestTypes
  <2> QED BY <1>1, <2>1, <2>3 DEF IInv, TypeOK, RequestTypes, requests, io
<1>4. OneWrite' /\ NoneLost'
  BY <1>1 DEF IInv, OneWrite, NoneLost, requests, io
<1>5. RequestsMoveOn'
  <2>1. upc'[u] = "write"
    BY <1>1 DEF IInv, TypeOK, RequestTypes
  <2> QED BY <2>1 DEF RequestsMoveOn, AboutToWrite
<1> QED BY <1>2, <1>3, <1>4, <1>5 DEF IInv, TypeOK

LEMMA WriteStep == ASSUME IInv, NEW u \in Users, Write(u) PROVE IInv'
<1>1. /\ queue # <<>> /\ writes' = Append(writes, queue[1])
      /\ overlap' = (overlap \/ UnderWay(Users \ {u}))
      /\ upc' = [upc EXCEPT ![u] = "sent"]
      /\ UNCHANGED <<link, sock, flushing, pending, done, beating, queue, issued, wire, front,
                     server, crashed>>
  BY DEF Write, Refers, WritesAfter, Overlaps
<1>2. /\ writes' \in Seq(RequestIds) /\ writes' # <<>> /\ overlap' \in BOOLEAN
      /\ ~overlap' => ~overlap /\ Len(writes') = 1 /\ ~In(Written, done)
  BY <1>1, WriteStarted DEF IInv, TypeOK, RequestTypes
<1>3. LinkTypes' /\ IoTypes' /\ NotBegun' /\ ConnectGoesOn' /\ BeatGoesOn' /\ ReadGoesOn'
  BY <1>1, ConnectionUntouched
<1>4. RequestTypes'
  <2>1. upc' \in [Users -> UserStates]
    BY <1>1 DEF IInv, TypeOK, RequestTypes, UserStates
  <2> QED BY <1>1, <1>2, <2>1 DEF IInv, TypeOK, RequestTypes
<1>5. OneWrite'
  <2>1. CASE overlap'
    BY <2>1 DEF OneWrite
  <2>2. CASE ~overlap'
    <3>1. Len(writes') = 1 /\ ~In(Written, done)
      BY <1>2, <2>2, Zenon
    <3>2. AtMostOnce(Written, done)
      BY <1>2, <2>2 DEF IInv, OneWrite
    <3>3. done' = done
      BY <1>1
    <3> QED BY <3>1, <3>2, <3>3 DEF OneWrite
  <2> QED BY <2>1, <2>2
<1>6. NoneLost'
  BY <1>1, <1>2 DEF IInv, NoneLost
<1>7. RequestsMoveOn'
  BY <1>2 DEF RequestsMoveOn
<1> QED BY <1>3, <1>4, <1>5, <1>6, <1>7 DEF IInv, TypeOK

LEMMA StopStep == ASSUME IInv, Stop PROVE IInv'
<1>1. /\ stopped' = TRUE
      /\ UNCHANGED <<ready, event, failures, halted, sock, flushing, io, beating, requests, users,
                     server, crashed>>
  BY DEF Stop
<1>2. TypeOK'
  <2>1. LinkTypes'
    BY <1>1 DEF IInv, TypeOK, LinkTypes, beating
  <2>2. IoTypes' /\ RequestTypes'
    BY <1>1 DEF IInv, TypeOK, IoTypes, RequestTypes, io, requests, users
  <2> QED BY <2>1, <2>2 DEF TypeOK
<1>3. OneWrite' /\ NoneLost' /\ NotBegun'
  BY <1>1 DEF IInv, OneWrite, NoneLost, NotBegun, io, requests
<1>4. ConnectGoesOn' /\ BeatGoesOn' /\ ReadGoesOn' /\ RequestsMoveOn'
  BY <1>1 DEF ConnectGoesOn, BeatGoesOn, ReadGoesOn, RequestsMoveOn, Alive
<1> QED BY <1>2, <1>3, <1>4 DEF IInv

-----------------------------------------------------------------------------
(* The world.                                                              *)

\* Something finishes: the queue of handlers is longer by one.
LEMMA Finishing ==
    ASSUME IInv, NEW op \in Ops \cup {"write"}, NEW result \in Results,
           done' = Append(done, Finish(op, result))
    PROVE  /\ done' \in Seq(Finishes)
           /\ \A f : In(f, done') <=> In(f, done) \/ f = Finish(op, result)
           /\ AtMostOnce(Written, done) /\ (Finish(op, result) = Written => ~In(Written, done)) =>
                  AtMostOnce(Written, done')
<1>1. done \in Seq(Finishes) /\ Finish(op, result) \in Finishes
  BY DEF IInv, TypeOK, IoTypes, Finish, Finishes
<1> QED BY <1>1, InAppend

\* A read, a connect or a wait ends: its chain goes on with the handler.
LEMMA OperationEnds ==
    ASSUME IInv, NEW op \in Ops, NEW result \in Results, op = "beat" => result = "ok",
           done' = Append(done, Finish(op, result)),
           pending' \in [Ops -> Nat], pending[op] > 0, pending'[op] < pending[op],
           \A o \in Ops \ {op} : pending'[o] = pending[o],
           sock' # "closed",
           UNCHANGED <<link, flushing, writes, beating, requests, users, server, crashed>>
    PROVE  /\ IoTypes' /\ RequestTypes' /\ NotBegun' /\ OneWrite' /\ NoneLost'
           /\ ConnectGoesOn' /\ BeatGoesOn' /\ ReadGoesOn' /\ RequestsMoveOn'
<1>1. /\ done' \in Seq(Finishes)
      /\ \A f : In(f, done') <=> In(f, done) \/ f = Finish(op, result)
      /\ AtMostOnce(Written, done) /\ (Finish(op, result) = Written => ~In(Written, done)) =>
             AtMostOnce(Written, done')
  BY Finishing
<1>2. Finish(op, result) # Written
  BY FinishDistinct DEF Written, Ops, ReadOps
<1>3. /\ pending \in [Ops -> Nat] /\ pending["connect"] <= 1 /\ pending["beat"] <= 1
      /\ "connect" \in Ops /\ "beat" \in Ops /\ ReadOps \subseteq Ops
  BY DEF IInv, TypeOK, IoTypes, Ops
<1>4. IoTypes'
  <2>1. pending'["connect"] <= 1 /\ pending'["beat"] <= 1
    BY <1>3
  <2> QED BY <1>1, <2>1 DEF IoTypes
<1>5. RequestTypes'
  BY DEF IInv, TypeOK, RequestTypes, requests, users
<1>6. OneWrite' /\ NoneLost'
  <2>1. /\ In(Written, done') <=> In(Written, done)
        /\ AtMostOnce(Written, done) => AtMostOnce(Written, done')
    BY <1>1, <1>2
  <2>2. OneWrite'
    BY <2>1 DEF IInv, OneWrite, requests
  <2>3. NoneLost'
    BY DEF IInv, NoneLost, requests
  <2> QED BY <2>2, <2>3
<1>7. NotBegun'
  BY DEF NotBegun
<1>8. ConnectGoesOn'
  <2>1. SUFFICES ASSUME Alive, ~ready, sock' # "closed"
                 PROVE  \/ pending'["connect"] = 1
                        \/ \E r \in Results : In(Finish("connect", r), done')
    BY DEF ConnectGoesOn, Alive, link
  <2>2. sock # "closed"
    BY <1>3 DEF IInv, NotBegun
  <2>3. CASE op = "connect"
    BY <1>1, <2>3
  <2>4. CASE op # "connect"
    BY <1>1, <1>3, <2>1, <2>2, <2>4 DEF IInv, ConnectGoesOn
  <2> QED BY <2>3, <2>4
<1>9. BeatGoesOn'
  <2>1. SUFFICES ASSUME Alive, ready
                 PROVE  pending'["beat"] = 1 \/ In(Finish("beat", "ok"), done')
    BY DEF BeatGoesOn, Alive, link
  <2>2. CASE op = "beat"
    BY <1>1, <2>2
  <2>3. CASE op # "beat"
    BY <1>1, <1>3, <2>1, <2>3 DEF IInv, BeatGoesOn
  <2> QED BY <2>2, <2>3
<1>10. ReadGoesOn'
  <2>1. SUFFICES ASSUME Alive, ready, ~halted PROVE ReadGoesOn'
    BY DEF ReadGoesOn, Alive, link
  <2>2. PICK o \in ReadOps :
            pending[o] > 0 \/ \E r \in Results : In(Finish(o, r), done)
    BY <2>1 DEF IInv, ReadGoesOn
  <2>3. pending'[o] > 0 \/ \E r \in Results : In(Finish(o, r), done')
    <3>1. CASE o = op
      BY <1>1, <3>1
    <3>2. CASE o # op
      BY <1>1, <1>3, <2>2, <3>2
    <3> QED BY <3>1, <3>2
  <2> QED BY <2>3 DEF ReadGoesOn
<1>11. RequestsMoveOn'
  BY <1>1 DEF IInv, RequestsMoveOn, Alive, AboutToWrite, link, requests, users
<1> QED BY <1>4, <1>5, <1>6, <1>7, <1>8, <1>9, <1>10, <1>11

LEMMA ConnectEndsStep == ASSUME IInv, ConnectEnds PROVE IInv'
<1>1. PICK result \in Results :
          /\ sock' \in {"connected", "broken"}
          /\ done' = Append(done, Finish("connect", result))
          /\ pending["connect"] > 0
          /\ pending' = [pending EXCEPT !["connect"] = @ - 1]
          /\ UNCHANGED <<link, flushing, writes, beating, requests, users, server, crashed>>
  BY DEF ConnectEnds, Results
<1>2. /\ pending' \in [Ops -> Nat] /\ pending'["connect"] < pending["connect"]
      /\ \A o \in Ops \ {"connect"} : pending'[o] = pending[o]
      /\ "connect" \in Ops
  BY <1>1 DEF IInv, TypeOK, IoTypes, Ops
<1>3. /\ IoTypes' /\ RequestTypes' /\ NotBegun' /\ OneWrite' /\ NoneLost'
      /\ ConnectGoesOn' /\ BeatGoesOn' /\ ReadGoesOn' /\ RequestsMoveOn'
  BY <1>1, <1>2, OperationEnds
<1>4. LinkTypes'
  BY <1>1 DEF IInv, TypeOK, LinkTypes, link, beating
<1> QED BY <1>3, <1>4 DEF IInv, TypeOK

LEMMA ReadEndsStep == ASSUME IInv, NEW op \in ReadOps, ReadEnds(op) PROVE IInv'
<1>1. PICK result \in Results :
          /\ sock \in {"connected", "broken"} /\ sock' = sock
          /\ done' = Append(done, Finish(op, result))
          /\ pending[op] > 0
          /\ pending' = [pending EXCEPT ![op] = @ - 1]
          /\ UNCHANGED <<link, flushing, writes, beating, requests, users, server, crashed>>
  BY DEF ReadEnds, Results
<1>2. /\ pending' \in [Ops -> Nat] /\ pending'[op] < pending[op]
      /\ \A o \in Ops \ {op} : pending'[o] = pending[o]
      /\ op \in Ops /\ op # "beat"
  BY <1>1 DEF IInv, TypeOK, IoTypes, Ops, ReadOps
<1>3. /\ IoTypes' /\ RequestTypes' /\ NotBegun' /\ OneWrite' /\ NoneLost'
      /\ ConnectGoesOn' /\ BeatGoesOn' /\ ReadGoesOn' /\ RequestsMoveOn'
  BY <1>1, <1>2, OperationEnds
<1>4. LinkTypes'
  BY <1>1 DEF IInv, TypeOK, LinkTypes, link, beating
<1> QED BY <1>3, <1>4 DEF IInv, TypeOK

LEMMA BeatExpiresStep == ASSUME IInv, BeatExpires PROVE IInv'
<1>1. /\ pending["beat"] > 0
      /\ pending' = [pending EXCEPT !["beat"] = 0]
      /\ done' = Append(done, Finish("beat", "ok"))
      /\ UNCHANGED <<link, sock, flushing, writes, beating, requests, users, server, crashed>>
  BY DEF BeatExpires
<1>2. /\ pending' \in [Ops -> Nat] /\ pending'["beat"] < pending["beat"]
      /\ \A o \in Ops \ {"beat"} : pending'[o] = pending[o]
      /\ "beat" \in Ops /\ "ok" \in Results
  BY <1>1 DEF IInv, TypeOK, IoTypes, Ops, Results
<1>3. sock' # "closed"
  BY <1>1, <1>2 DEF IInv, NotBegun
<1>4. /\ IoTypes' /\ RequestTypes' /\ NotBegun' /\ OneWrite' /\ NoneLost'
      /\ ConnectGoesOn' /\ BeatGoesOn' /\ ReadGoesOn' /\ RequestsMoveOn'
  BY <1>1, <1>2, <1>3, OperationEnds
<1>5. LinkTypes'
  BY <1>1 DEF IInv, TypeOK, LinkTypes, link, beating
<1> QED BY <1>4, <1>5 DEF IInv, TypeOK

\* The socket breaks, or the server comes or goes.
LEMMA SocketStep ==
    ASSUME IInv, sock # "closed" => sock' # "closed", sock = "closed" => sock' = "closed",
           sock' \in {"closed", "connecting", "connected", "broken"}, server' \in {"up", "down"},
           UNCHANGED <<link, flushing, io, beating, requests, users, crashed>>
    PROVE  IInv'
<1>1. TypeOK'
  <2>1. LinkTypes'
    BY DEF IInv, TypeOK, LinkTypes, link, beating
  <2>2. IoTypes' /\ RequestTypes'
    BY DEF IInv, TypeOK, IoTypes, RequestTypes, io, requests, users
  <2> QED BY <2>1, <2>2 DEF TypeOK
<1>2. OneWrite' /\ NoneLost' /\ NotBegun'
  BY DEF IInv, OneWrite, NoneLost, NotBegun, io, requests, link
<1>3. ConnectGoesOn' /\ BeatGoesOn' /\ ReadGoesOn'
  BY DEF IInv, ConnectGoesOn, BeatGoesOn, ReadGoesOn, Alive, io, link
<1>4. RequestsMoveOn'
  BY DEF IInv, RequestsMoveOn, Alive, AboutToWrite, io, link, requests, users
<1> QED BY <1>1, <1>2, <1>3, <1>4 DEF IInv

LEMMA ConnectionBreaksStep == ASSUME IInv, ConnectionBreaks PROVE IInv'
<1>1. /\ sock = "connected" /\ sock' = "broken"
      /\ UNCHANGED <<link, flushing, io, beating, requests, users, server, crashed>>
  BY DEF ConnectionBreaks
<1>2. server' \in {"up", "down"}
  BY <1>1 DEF IInv, TypeOK, LinkTypes
<1> QED BY <1>1, <1>2, SocketStep

LEMMA ServerChangesStep == ASSUME IInv, ServerChanges PROVE IInv'
<1>1. /\ server' \in {"up", "down"} /\ sock' = sock
      /\ UNCHANGED <<link, flushing, io, beating, requests, users, crashed>>
  BY DEF ServerChanges
<1>2. sock' \in {"closed", "connecting", "connected", "broken"}
  BY <1>1 DEF IInv, TypeOK, LinkTypes
<1> QED BY <1>1, <1>2, SocketStep

\* The writes that are left when the first ends.
LEMMA WriteEnds ==
    ASSUME IInv, writes # <<>>, writes' = Tail(writes), NEW result \in Results,
           done' = Append(done, Finish("write", result)),
           result = "ok" => queue # <<>> /\ Head(queue) \in wire',
           wire \subseteq wire', sock # "closed",
           UNCHANGED <<link, sock, flushing, pending, beating, queue, overlap, users, server,
                       crashed>>
    PROVE  /\ LinkTypes' /\ IoTypes' /\ writes' \in Seq(RequestIds) /\ NotBegun' /\ OneWrite'
           /\ ConnectGoesOn' /\ BeatGoesOn' /\ ReadGoesOn' /\ RequestsMoveOn'
<1>1. /\ done' \in Seq(Finishes)
      /\ \A f : In(f, done') <=> In(f, done) \/ f = Finish("write", result)
      /\ AtMostOnce(Written, done) /\ (Finish("write", result) = Written => ~In(Written, done)) =>
             AtMostOnce(Written, done')
  BY Finishing
<1>2. writes' \in Seq(RequestIds) /\ Len(writes') = Len(writes) - 1 /\ Len(writes) \in Nat
  BY HeadTailProperties DEF IInv, TypeOK, RequestTypes
<1>3. LinkTypes' /\ IoTypes'
  <2>1. LinkTypes'
    BY DEF IInv, TypeOK, LinkTypes, link, beating
  <2>2. IoTypes'
    BY <1>1 DEF IInv, TypeOK, IoTypes
  <2> QED BY <2>1, <2>2
<1>4. OneWrite'
  <2>1. CASE overlap'
    BY <2>1 DEF OneWrite
  <2>2. CASE ~overlap'
    <3>1. Len(writes) <= 1 /\ AtMostOnce(Written, done) /\ ~In(Written, done)
      BY <2>2 DEF IInv, OneWrite
    <3>2. AtMostOnce(Written, done')
      BY <1>1, <3>1
    <3>3. Len(writes') = 0
      BY <1>2, <3>1, EmptySeq
    <3>4. writes' = <<>>
      BY <1>2, <3>3, EmptySeq
    <3>5. In(Written, done') => result = "ok"
      BY <1>1, <3>1, FinishDistinct DEF Written
    <3> QED BY <3>2, <3>3, <3>4, <3>5 DEF OneWrite, Written
  <2> QED BY <2>1, <2>2
<1>5. ConnectGoesOn' /\ BeatGoesOn' /\ ReadGoesOn'
  BY <1>1 DEF IInv, ConnectGoesOn, BeatGoesOn, ReadGoesOn, Alive, link
<1>6. RequestsMoveOn'
  BY <1>1 DEF RequestsMoveOn, Written, Results
<1>7. NotBegun'
  BY DEF NotBegun
<1> QED BY <1>2, <1>3, <1>4, <1>5, <1>6, <1>7

LEMMA WriteLeavesStep == ASSUME IInv, WriteLeaves PROVE IInv'
<1>1. /\ writes # <<>> /\ queue # <<>> /\ sock = "connected"
      /\ wire' = wire \cup {Head(queue)} /\ writes' = Tail(writes)
      /\ done' = Append(done, Finish("write", "ok"))
      /\ UNCHANGED <<link, sock, flushing, pending, beating, queue, issued, overlap, users,
                     server, crashed>>
  BY DEF WriteLeaves, Refers
<1>2. /\ LinkTypes' /\ IoTypes' /\ writes' \in Seq(RequestIds) /\ NotBegun' /\ OneWrite'
      /\ ConnectGoesOn' /\ BeatGoesOn' /\ ReadGoesOn' /\ RequestsMoveOn'
  <2>1. "ok" \in Results /\ Head(queue) \in wire' /\ wire \subseteq wire' /\ sock # "closed"
    BY <1>1 DEF Results
  <2> QED BY <1>1, <2>1, WriteEnds
<1>3. Head(queue) \in RequestIds /\ In(Head(queue), queue)
  BY <1>1, InTail DEF IInv, TypeOK, RequestTypes
<1>4. RequestTypes'
  <2>1. wire' \subseteq RequestIds
    BY <1>1, <1>3 DEF IInv, TypeOK, RequestTypes
  <2> QED BY <1>1, <1>2, <2>1 DEF IInv, TypeOK, RequestTypes, users
<1>5. NoneLost'
  BY <1>1, <1>3 DEF IInv, NoneLost
<1> QED BY <1>2, <1>4, <1>5 DEF IInv, TypeOK

LEMMA WriteBreaksStep == ASSUME IInv, WriteBreaks PROVE IInv'
<1>1. /\ writes # <<>> /\ sock = "broken" /\ writes' = Tail(writes)
      /\ done' = Append(done, Finish("write", "error"))
      /\ UNCHANGED <<link, sock, flushing, pending, beating, requests, users, server, crashed>>
  BY DEF WriteBreaks
<1>2. UNCHANGED <<queue, issued, wire, overlap>>
  BY <1>1 DEF requests
<1>3. /\ LinkTypes' /\ IoTypes' /\ writes' \in Seq(RequestIds) /\ NotBegun' /\ OneWrite'
      /\ ConnectGoesOn' /\ BeatGoesOn' /\ ReadGoesOn' /\ RequestsMoveOn'
  <2>1. "error" \in Results /\ wire \subseteq wire' /\ sock # "closed"
    BY <1>1, <1>2 DEF Results
  <2> QED BY <1>1, <1>2, <2>1, WriteEnds
<1>4. RequestTypes'
  BY <1>1, <1>2, <1>3 DEF IInv, TypeOK, RequestTypes, users
<1>5. NoneLost'
  BY <1>2 DEF IInv, NoneLost
<1> QED BY <1>3, <1>4, <1>5 DEF IInv, TypeOK

-----------------------------------------------------------------------------

LEMMA StutterStep == ASSUME IInv, UNCHANGED vars PROVE IInv'
<1>1. /\ UNCHANGED <<link, sock, flushing, io, beating, requests, users, crashed, server>>
  BY DEF vars
<1>2. server' \in {"up", "down"} /\ sock' \in {"closed", "connecting", "connected", "broken"}
  BY <1>1 DEF IInv, TypeOK, LinkTypes
<1> QED BY <1>1, <1>2, SocketStep

LEMMA HandlerIInv == ASSUME IInv, Handler PROVE IInv'
<1>1. PopEmpty => IInv'
  BY CrashStep DEF PopEmpty
<1> QED BY <1>1, ConnectedStep, FlushStep, GiveUpStep, ConnectAgainStep, OperationFailedStep,
           MatchReadStep, HeaderReadStep, PayloadReadStep, RequestWrittenStep, BeatDueStep,
           BeatAbortedUnansweredStep, BeatAbortedAnsweredStep
        DEF Handler

LEMMA UserIInv == ASSUME IInv, NEW u \in Users, User(u) PROVE IInv'
<1>1. GetRequestFails(u) => IInv'
  BY CrashStep DEF GetRequestFails
<1>2. WriteDangles(u) => IInv'
  BY CrashStep DEF WriteDangles
<1>3. ASSUME TestTrue(u) \/ TestFalse(u) \/ Sleep(u) \/ Return(u) PROVE IInv'
  <2>1. {"sleep", "asleep", "result", "go", "refused"} \subseteq UserStates
    BY DEF UserStates
  <2> QED BY <1>3, <2>1, WaitingStep DEF TestTrue, TestFalse, Sleep, Return
<1> QED BY <1>1, <1>2, <1>3, AlreadyReadyStep, CallReadyStep, EnqueueStep, GetRequestStep, WriteStep
        DEF User

LEMMA AgainIInv ==
    ASSUME IInv, NEW u \in Users, WakesSpuriously(u) \/ CallsAgain(u)
    PROVE  IInv'
<1>1. {"test", "start"} \subseteq UserStates
  BY DEF UserStates
<1> QED BY <1>1, WaitingStep DEF WakesSpuriously, CallsAgain

LEMMA WorldIInv == ASSUME IInv, World PROVE IInv'
<1>1. WriteOfFreed => IInv'
  BY CrashStep DEF WriteOfFreed
<1> QED BY <1>1, ConnectEndsStep, ConnectionBreaksStep, ServerChangesStep, ReadEndsStep,
           WriteLeavesStep, WriteBreaksStep, BeatExpiresStep
        DEF World

LEMMA NextIInv == IInv /\ [Next]_vars => IInv'
<1> SUFFICES ASSUME IInv, [Next]_vars PROVE IInv'
  OBVIOUS
<1>1. CASE Next
  BY <1>1, HandlerIInv, UserIInv, AgainIInv, WorldIInv, StopStep DEF Next
<1>2. CASE UNCHANGED vars
  BY <1>2, StutterStep
<1> QED BY <1>1, <1>2

LEMMA Invariance == Spec => []IInv
BY InitIInv, NextIInv, PTL DEF Spec

-----------------------------------------------------------------------------
(* The theorems.                                                           *)

\* Every variable of the connection keeps to its type; in particular at most
\* one connect and one wait of the heartbeat are in flight.
THEOREM TypeCorrect == Spec => []TypeOK
<1>1. IInv => TypeOK
  BY DEF IInv
<1> QED BY <1>1, Invariance, PTL

\* A client that was started and is not connected is connecting: whatever
\* order reads, writes, the heartbeat and connects fail in, nothing stops
\* do_reconnect short of the limit of attempts.
THEOREM NobodyStranded == Spec => []NeverStranded
<1>1. IInv => NeverStranded
  <2> SUFFICES ASSUME IInv, Alive, ~ready, sock # "closed"
               PROVE  \/ pending["connect"] = 1
                      \/ Queued("connect", "ok") \/ Queued("connect", "error")
    BY DEF NeverStranded
  <2>1. pending["connect"] = 1 \/ \E result \in Results : In(Finish("connect", result), done)
    BY DEF IInv, ConnectGoesOn
  <2> QED BY <2>1, QueuedIn DEF Results
<1> QED BY <1>1, Invariance, PTL

\* While the client is ready the heartbeat goes on, and unless reading met a
\* bad byte there is a read that will notice the end of the connection.
THEOREM AlwaysWatched == Spec => []ConnectionWatched
<1>1. IInv => ConnectionWatched
  <2> SUFFICES ASSUME IInv, Alive, ready
               PROVE  /\ pending["beat"] = 1 \/ Queued("beat", "ok")
                      /\ ~halted => \E op \in ReadOps : \/ pending[op] > 0 \/ Queued(op, "ok")
                                                        \/ Queued(op, "error")
    BY DEF ConnectionWatched
  <2>1. pending["beat"] = 1 \/ Queued("beat", "ok")
    BY QueuedIn DEF IInv, BeatGoesOn
  <2>2. ASSUME ~halted
        PROVE  \E op \in ReadOps : pending[op] > 0 \/ Queued(op, "ok") \/ Queued(op, "error")
    <3>1. PICK op \in ReadOps :
              pending[op] > 0 \/ \E result \in Results : In(Finish(op, result), done)
      BY <2>2 DEF IInv, ReadGoesOn
    <3> QED BY <3>1, QueuedIn DEF Results
  <2> QED BY <2>1, <2>2
<1> QED BY <1>1, Invariance, PTL

\* As long as no two do_write were under way at a time, the connection may
\* break and be made again at any moment and every request is still queued
\* or was sent.
THEOREM NothingLost == Spec => []NoRequestLost
<1>1. IInv => NoRequestLost
  <2> SUFFICES ASSUME IInv, ~overlap
               PROVE  issued = {queue[i] : i \in 1..Len(queue)} \cup wire
    BY DEF NoRequestLost
  <2>1. \A id : id \in issued <=> (\E i \in 1..Len(queue) : queue[i] = id) \/ id \in wire
    BY DEF IInv, NoneLost, In
  <2> QED BY <2>1
<1> QED BY <1>1, Invariance, PTL

\* Requests do not get stuck: while the client is ready and requests wait,
\* somebody is writing or about to, or a failure will connect again.
THEOREM NothingStuck == Spec => []RequestsMove
<1>1. IInv => RequestsMove
  BY QueuedIn DEF IInv, RequestsMoveOn, RequestsMove, Written
<1> QED BY <1>1, Invariance, PTL
=============================================================================
