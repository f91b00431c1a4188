-------------------------- MODULE ReadyKeepAliveProofs -------------------------
(***************************************************************************)
(* Theorems about two protocols of the connection that have nothing to do  *)
(* with what is sent over it, each about its own specification: the timers *)
(* of KeepAlive, for every interval, deadline, delay and number of calls   *)
(* that PromptAssumption admits, and the threads of WaitEvent, for any     *)
(* number of them.                                                         *)
(*                                                                         *)
(* That both ends notice a silence needs only a sum: the ticks since the   *)
(* last response and those until the next heartbeat are at most the misses *)
(* counted so far, and the one to come, times the interval.                *)
(*                                                                         *)
(* That a working connection is kept needs to know where its heartbeat is. *)
(* HeaderComes says that the header the session waits for is under way and *)
(* will be there before the deadline, or is as far off as the client's     *)
(* wait; a response on its way back to the client is what can put the next *)
(* heartbeat off, by an interval and at most once, so it is bounded too.   *)
(* Answering says the same of the response the client waits for: since     *)
(* the first miss, a heartbeat is on its way with a number of requests     *)
(* before it, each good for MaxBusy ticks, or its response is.  What is    *)
(* left to wait and what has been waited never add up to more than Bound.  *)
(* As the sum counts the requests before a message and not the messages,   *)
(* it needs FewCalls; as the age of a message bounds those behind it, it   *)
(* needs InOrder.                                                          *)
(***************************************************************************)
EXTENDS WaitEvent, KeepAlive, FiniteSetTheorems, FunctionTheorems, SequenceTheorems, TLAPS

Handlers == {"due", "aborted", "failed"}
Messages == [kind : Kinds \cup {"beat"}, age : 0..MaxDelay]
Waits    == NoWait..Interval

FlagsOK ==
    /\ reading \in BOOLEAN /\ answered \in BOOLEAN /\ kept \in BOOLEAN
    /\ open \in BOOLEAN /\ heard \in BOOLEAN /\ raced \in BOOLEAN

TimesOK ==
    /\ link \in {"up", "connecting"}
    /\ wait \in Waits
    /\ done \in Seq(Handlers)
    /\ missed \in 0..MaxMissed
    /\ net \in {"good", "silent", "reset"}
    /\ up \in Seq(Messages) /\ down \in Seq(0..MaxDelay)
    /\ left \in 0..Deadline
    /\ function = NoFunction \/ function \in [kind : Kinds, left : 0..MaxBusy]
    /\ quiet \in Nat /\ idle \in Nat /\ conns \in Nat

KeepAliveTypeOK == FlagsOK /\ TimesOK

\* Ticks until the next heartbeat is due.
Due == IF wait = NoWait THEN 0 ELSE wait

\* What was sent first arrives first, and is the oldest.
UpOrder(q)   == \A i, j \in DOMAIN q : i < j => q[j].age <= q[i].age
DownOrder(q) == \A i, j \in DOMAIN q : i < j => q[j] <= q[i]

InOrder == UpOrder(up) /\ DownOrder(down)

\* How many requests are before the b-th message of q.
Ahead(q, b) == Cardinality({i \in DOMAIN q : i < b /\ q[i].kind # "beat"})

FewCalls ==
    Ahead(up, Len(up) + 1) + (IF function = NoFunction THEN 0 ELSE 1) <= MaxCalls

\* The client counts a miss in every interval without response.
ClientWatches ==
    link = "up" =>
        /\ wait = NoWait => \E i \in DOMAIN done : done[i] = "due"
        /\ quiet + Due <= MaxMissed * Interval
        /\ quiet + Due <= (missed + 1) * Interval

\* The session's deadline runs, and a function ends before it.
SessionWatches ==
    open =>
        /\ left > 0 => idle + left = Deadline
        /\ idle <= Deadline
        /\ function # NoFunction => idle + function.left <= MaxBusy

\* A connection that works: nobody cut it, and no response met a wait that had
\* expired.
Sound == link = "up" /\ net = "good" /\ ~raced

BothOpen == Sound => reading /\ open /\ left # 0

\* There is one handler at most, and after a response its abort is harmless.
OneHandler ==
    Sound =>
        \/ done = <<>> /\ wait # NoWait
        \/ done = <<"due">> /\ wait = NoWait
        \/ done = <<"aborted">> /\ wait = Interval /\ (heard => answered)

\* No abort is about to be counted as a miss, and then as many as there can be.
Going == Sound /\ (done = <<"aborted">> => answered)

\* The next header reaches the session before its deadline: it is under way,
\* or its time is known from the client's wait.  A response that is under way,
\* or that the function will send, may start that wait anew.
HeaderComes ==
    /\ left > function.left
    /\ up # <<>> => left > MaxDelay - up[1].age
    /\ up = <<>> =>
        /\ left > Due + MaxDelay
        /\ function # NoFunction => left > function.left + Interval + 2 * MaxDelay
        /\ \A i \in DOMAIN down : left > MaxDelay - down[i] + Interval + MaxDelay

Fed == Going => HeaderComes

\* The time an answer takes, and the time since the first miss.
Bound   == 2 * MaxDelay + MaxCalls * MaxBusy
Elapsed == missed * Interval - Due

\* The answer is in time: it is under way, or a heartbeat is, with so many
\* requests before it.
InTime(b) ==
    /\ up[b].kind = "beat"
    /\ Elapsed + 2 * MaxDelay - up[b].age + function.left + MaxBusy * Ahead(up, b) <= Bound

Answering ==
    Sound /\ heard /\ missed > 0 =>
        \/ down # <<>> /\ Elapsed + MaxDelay - down[1] <= Bound
        \/ \E b \in DOMAIN up : InTime(b)

KeptIInv ==
    /\ KeepAliveTypeOK /\ InOrder /\ FewCalls
    /\ ClientWatches /\ SessionWatches
    /\ BothOpen /\ OneHandler /\ Fed /\ Answering

-----------------------------------------------------------------------------
LEMMA Naturals ==
    /\ Interval \in Nat /\ MaxMissed \in Nat /\ Deadline \in Nat /\ MaxConns \in Nat
    /\ MaxCalls \in Nat /\ MaxDelay \in Nat /\ MaxBusy \in Nat
    /\ Interval > 0 /\ MaxMissed > 0 /\ Deadline > 0 /\ MaxCalls > 0
BY PromptAssumption

LEMMA Times ==
    ASSUME NEW a \in Nat, NEW b \in Nat, NEW c \in Nat, a <= b
    PROVE  c * a \in Nat /\ c * a <= c * b /\ a * c <= b * c /\ c * (a + 1) = c * a + c
<1>1. PICK d \in Nat : b = a + d
  <2>1. b - a \in Nat /\ b = a + (b - a)
    OBVIOUS
  <2> QED BY <2>1
<1>2. c * a \in Nat /\ c * d \in Nat /\ a * c = c * a /\ b * c = c * b
  OBVIOUS
<1>3. c * b = c * a + c * d /\ c * (a + 1) = c * a + c
  BY <1>1
<1> QED BY <1>2, <1>3

LEMMA Appended ==
    ASSUME NEW S, NEW s \in Seq(S), NEW x \in S
    PROVE  /\ Append(s, x) \in Seq(S) /\ Append(s, x) # <<>>
           /\ DOMAIN Append(s, x) = 1..(Len(s) + 1) /\ DOMAIN s = 1..Len(s)
           /\ \A i \in 1..Len(s) : Append(s, x)[i] = s[i]
           /\ Append(s, x)[Len(s) + 1] = x
           /\ Len(Append(s, x)) = Len(s) + 1
OBVIOUS

LEMMA Tailed ==
    ASSUME NEW S, NEW s \in Seq(S), s # <<>>
    PROVE  /\ Tail(s) \in Seq(S) /\ DOMAIN Tail(s) = 1..(Len(s) - 1) /\ DOMAIN s = 1..Len(s)
           /\ \A i \in 1..(Len(s) - 1) : Tail(s)[i] = s[i + 1]
           /\ Head(s) = s[1] /\ s[1] \in S /\ Len(s) \in Nat /\ Len(s) > 0
           /\ Len(Tail(s)) = Len(s) - 1
OBVIOUS

\* A set whose members have their successors in another is not larger.
LEMMA Shifted ==
    ASSUME NEW S \in SUBSET Nat, NEW T, IsFiniteSet(T), \A i \in S : i + 1 \in T
    PROVE  IsFiniteSet(S) /\ Cardinality(S) <= Cardinality(T)
<1> DEFINE f == [i \in S |-> i + 1]
<1>1. f \in [S -> T]
  OBVIOUS
<1>2. \A a, b \in S : f[a] = f[b] => a = b
  OBVIOUS
<1> HIDE DEF f
<1>3. f \in Injection(S, T)
  BY <1>1, <1>2, Fun_IsInj
<1> QED BY <1>3, FS_Injection

LEMMA AheadFinite ==
    ASSUME NEW q \in Seq(Messages), NEW b \in Nat
    PROVE  /\ IsFiniteSet({i \in DOMAIN q : i < b /\ q[i].kind # "beat"})
           /\ Ahead(q, b) \in Nat
<1> DEFINE A == {i \in DOMAIN q : i < b /\ q[i].kind # "beat"}
<1>1. A \in SUBSET Nat /\ \A i \in A : i <= b
  OBVIOUS
<1>2. IsFiniteSet(A)
  BY <1>1, FS_BoundedSetOfNaturals
<1> QED BY <1>2, FS_CardinalityType DEF Ahead

\* Up to b nothing changes if kinds do not.
LEMMA AheadSame ==
    ASSUME NEW q \in Seq(Messages), NEW r \in Seq(Messages), NEW b \in Nat,
           \A i \in Nat : i < b => (i \in DOMAIN q <=> i \in DOMAIN r),
           \A i \in DOMAIN q : i < b => q[i].kind = r[i].kind
    PROVE  Ahead(q, b) = Ahead(r, b)
<1>1. {i \in DOMAIN q : i < b /\ q[i].kind # "beat"} = {i \in DOMAIN r : i < b /\ r[i].kind # "beat"}
  OBVIOUS
<1> QED BY <1>1 DEF Ahead

LEMMA AheadAppended ==
    ASSUME NEW q \in Seq(Messages), NEW m \in Messages
    PROVE  /\ \A b \in 1..(Len(q) + 1) : Ahead(Append(q, m), b) = Ahead(q, b)
           /\ Ahead(Append(q, m), Len(q) + 2)
                  <= Ahead(q, Len(q) + 1) + (IF m.kind = "beat" THEN 0 ELSE 1)
<1> DEFINE r == Append(q, m)
<1>1. r \in Seq(Messages) /\ DOMAIN r = 1..(Len(q) + 1) /\ DOMAIN q = 1..Len(q)
      /\ r[Len(q) + 1] = m /\ \A i \in 1..Len(q) : r[i] = q[i]
  BY Appended
<1> HIDE DEF r
<1>2. ASSUME NEW b \in 1..(Len(q) + 1)
      PROVE  Ahead(r, b) = Ahead(q, b)
  BY <1>1, AheadSame
<1> DEFINE A == {i \in DOMAIN q : i < Len(q) + 1 /\ q[i].kind # "beat"}
           B == {i \in DOMAIN r : i < Len(q) + 2 /\ r[i].kind # "beat"}
<1>3. IsFiniteSet(A) /\ Cardinality(A) \in Nat
  BY AheadFinite, FS_CardinalityType
<1>4. B = IF m.kind = "beat" THEN A ELSE A \cup {Len(q) + 1}
  <2>1. \A i : i \in B <=> i \in A \/ (i = Len(q) + 1 /\ m.kind # "beat")
    BY <1>1
  <2> QED BY <2>1
<1>5. Cardinality(B) <= Cardinality(A) + (IF m.kind = "beat" THEN 0 ELSE 1)
  <2> HIDE DEF A, B
  <2>1. Cardinality(A \cup {Len(q) + 1}) =
            IF Len(q) + 1 \in A THEN Cardinality(A) ELSE Cardinality(A) + 1
    BY <1>3, FS_AddElement, Zenon
  <2> QED BY <1>3, <1>4, <2>1
<1> QED BY <1>2, <1>5 DEF Ahead, r

LEMMA AheadTail ==
    ASSUME NEW q \in Seq(Messages), q # <<>>, NEW b \in 1..Len(q)
    PROVE  Ahead(Tail(q), b) + (IF q[1].kind = "beat" THEN 0 ELSE 1) <= Ahead(q, b + 1)
<1> DEFINE r == Tail(q)
<1>1. /\ r \in Seq(Messages) /\ DOMAIN r = 1..(Len(q) - 1) /\ DOMAIN q = 1..Len(q)
      /\ \A i \in 1..(Len(q) - 1) : r[i] = q[i + 1]
      /\ Len(q) \in Nat /\ Len(q) > 0
  BY Tailed
<1> HIDE DEF r
<1> DEFINE A == {i \in DOMAIN q : i < b + 1 /\ q[i].kind # "beat"}
           B == {i \in DOMAIN r : i < b /\ r[i].kind # "beat"}
<1>2. IsFiniteSet(A) /\ Cardinality(A) \in Nat
  <2>1. b + 1 \in Nat
    BY <1>1
  <2>2. IsFiniteSet(A)
    BY <2>1, AheadFinite, Zenon
  <2> QED BY <2>2, FS_CardinalityType
<1>3. B \in SUBSET Nat /\ \A i \in B : i + 1 \in A \ {1}
  BY <1>1
<1>4. q[1].kind # "beat" => 1 \in A
  BY <1>1
<1> HIDE DEF A, B
<1>5. /\ IsFiniteSet(A \ {1})
      /\ Cardinality(A \ {1}) = IF 1 \in A THEN Cardinality(A) - 1 ELSE Cardinality(A)
  BY <1>2, FS_RemoveElement
<1>6. IsFiniteSet(B) /\ Cardinality(B) <= Cardinality(A \ {1})
  BY <1>3, <1>5, Shifted
<1>7. Cardinality(B) \in Nat
  BY <1>6, FS_CardinalityType
<1>8. Cardinality(B) + (IF q[1].kind = "beat" THEN 0 ELSE 1) <= Cardinality(A)
  BY <1>2, <1>4, <1>5, <1>6, <1>7
<1> QED BY <1>8 DEF Ahead, A, B, r

-----------------------------------------------------------------------------
(* The variables keep their types.                                         *)

LEMMA SentType ==
    ASSUME up \in Seq(Messages), NEW kind \in Kinds \cup {"beat"}
    PROVE  Sent(kind) \in Seq(Messages)
<1>1. [kind |-> kind, age |-> 0] \in Messages
  BY Naturals DEF Messages
<1> QED BY <1>1 DEF Sent

LEMMA WaitAbortsType == WaitAborts \in Seq(Handlers)
<1>1. <<"aborted">> \in Seq(Handlers) /\ <<>> \in Seq(Handlers)
  BY DEF Handlers
<1> QED BY <1>1 DEF WaitAborts

\* What Miss does to the variables it sets.
LEMMA MissType ==
    ASSUME NEW d \in Seq(Handlers), missed \in 0..MaxMissed, wait \in Waits,
           link \in {"up", "connecting"}, Miss(d)
    PROVE  /\ missed' \in 0..MaxMissed /\ wait' \in Waits /\ done' \in Seq(Handlers)
           /\ link' \in {"up", "connecting"}
<1>1. missed' \in 0..MaxMissed
  BY Naturals DEF Miss, Close
<1>2. wait' \in Waits
  BY Naturals DEF Miss, Close, Waits, NoWait
<1>3. done' \in Seq(Handlers)
  <2>1. Append(d, "failed") \in Seq(Handlers) /\ d \o WaitAborts \in Seq(Handlers)
    BY WaitAbortsType DEF Handlers
  <2> QED BY <2>1 DEF Miss, Close
<1>4. link' \in {"up", "connecting"}
  BY DEF Miss, Close
<1> QED BY <1>1, <1>2, <1>3, <1>4

LEMMA FlagsNext ==
    ASSUME FlagsOK, KeepAliveNext PROVE FlagsOK'
<1> USE DEF FlagsOK
<1>1. CASE Connects
  BY <1>1 DEF Connects
<1>2. CASE BeatExpires
  BY <1>2 DEF BeatExpires, client, session
<1>3. CASE BeatDue
  <2>1. reading' \in BOOLEAN
    BY <1>3 DEF BeatDue, Miss, Close
  <2> QED BY <1>3, <2>1 DEF BeatDue, session
<1>4. CASE BeatAborted
  <2>1. reading' \in BOOLEAN
    BY <1>4 DEF BeatAborted, Miss, Close
  <2> QED BY <1>4, <2>1 DEF BeatAborted, session
<1>5. CASE OperationFailed
  BY <1>5 DEF OperationFailed, Close, session
<1>6. CASE HeaderRead
  BY <1>6 DEF HeaderRead, session
<1>7. ASSUME NEW kind \in Kinds, Request(kind) PROVE FlagsOK'
  BY <1>7 DEF Request, beating, client, session
<1>8. CASE HeartbeatRead
  BY <1>8 DEF HeartbeatRead, beating, client
<1>9. ASSUME NEW kind \in Kinds, NEW busy \in 0..MaxBusy, RequestRead(kind, busy)
      PROVE  FlagsOK'
  BY <1>9 DEF RequestRead, beating, client
<1>10. CASE FunctionReturns
  BY <1>10 DEF FunctionReturns, beating, client
<1>11. CASE CheckExpired
  BY <1>11 DEF CheckExpired
<1>12. CASE GoesSilent
  BY <1>12 DEF GoesSilent, beating, client, session
<1>13. CASE Resets
  BY <1>13 DEF Resets
<1>14. CASE Tick
  BY <1>14 DEF Tick
<1> QED BY <1>1, <1>2, <1>3, <1>4, <1>5, <1>6, <1>7, <1>8, <1>9, <1>10, <1>11, <1>12, <1>13,
           <1>14 DEF KeepAliveNext, Client, Session, World

LEMMA TypeInit == KeepAliveInit => KeepAliveTypeOK
<1> SUFFICES ASSUME KeepAliveInit PROVE KeepAliveTypeOK
  OBVIOUS
<1>1. FlagsOK
  BY DEF KeepAliveInit, FlagsOK
<1>2. TimesOK
  BY Naturals DEF KeepAliveInit, TimesOK, Waits, NoWait
<1> QED BY <1>1, <1>2 DEF KeepAliveTypeOK

LEMMA TypeClient ==
    ASSUME TimesOK, Client PROVE TimesOK'
<1> USE DEF TimesOK
<1>1. CASE Connects
  <2>1. [kind |-> "beat", age |-> 0] \in Messages
    BY Naturals DEF Messages
  <2>2. up' \in Seq(Messages) /\ down' \in Seq(0..MaxDelay)
    BY <1>1, <2>1 DEF Connects
  <2>3. wait' \in Waits /\ left' \in 0..Deadline
    BY <1>1, Naturals DEF Connects, Waits, NoWait
  <2> QED BY <1>1, <2>2, <2>3, WaitAbortsType DEF Connects
<1>2. CASE BeatExpires
  <2>1. wait' \in Waits
    BY <1>2, Naturals DEF BeatExpires, Waits, NoWait
  <2>2. Append(done, "due") \in Seq(Handlers)
    BY DEF Handlers
  <2> QED BY <1>2, <2>1, <2>2 DEF BeatExpires, client, wires, session
<1>3. CASE BeatDue
  <2>1. Tail(done) \in Seq(Handlers) /\ Append(Tail(done), "failed") \in Seq(Handlers)
    BY <1>3 DEF BeatDue, Handlers
  <2>2. Sent("beat") \in Seq(Messages)
    BY SentType
  <2>3. \E d \in Seq(Handlers) : Miss(d)
    BY <1>3, <2>1 DEF BeatDue
  <2>4. /\ missed' \in 0..MaxMissed /\ wait' \in Waits /\ done' \in Seq(Handlers)
        /\ link' \in {"up", "connecting"}
    BY <2>3, MissType
  <2> QED BY <1>3, <2>2, <2>4 DEF BeatDue, session
<1>4. CASE BeatAborted
  <2>1. Tail(done) \in Seq(Handlers)
    BY <1>4 DEF BeatAborted
  <2>2. /\ missed' \in 0..MaxMissed /\ wait' \in Waits /\ done' \in Seq(Handlers)
        /\ link' \in {"up", "connecting"}
    BY <1>4, <2>1, MissType DEF BeatAborted
  <2> QED BY <1>4, <2>2 DEF BeatAborted, wires, session
<1>5. CASE OperationFailed
  <2>1. /\ Tail(done) \o WaitAborts \in Seq(Handlers)
        /\ Append(Tail(done) \o WaitAborts, "failed") \in Seq(Handlers)
    BY <1>5, WaitAbortsType DEF OperationFailed, Handlers
  <2>2. wait' \in Waits
    BY <1>5, Naturals DEF OperationFailed, Waits, NoWait
  <2> QED BY <1>5, <2>1, <2>2 DEF OperationFailed, Close, wires, session
<1>6. CASE HeaderRead
  <2>1. done \o WaitAborts \in Seq(Handlers) /\ Tail(down) \in Seq(0..MaxDelay)
    BY <1>6, WaitAbortsType DEF HeaderRead
  <2>2. wait' \in Waits /\ missed' \in 0..MaxMissed /\ quiet' \in Nat
    BY <1>6, Naturals DEF HeaderRead, Waits, NoWait
  <2> QED BY <1>6, <2>1, <2>2 DEF HeaderRead, session
<1>7. ASSUME NEW kind \in Kinds, Request(kind) PROVE TimesOK'
  BY <1>7, SentType DEF Request, beating, client, session
<1> QED BY <1>1, <1>2, <1>3, <1>4, <1>5, <1>6, <1>7 DEF Client

LEMMA TypeSession ==
    ASSUME TimesOK, Session PROVE TimesOK'
<1> USE DEF TimesOK
<1>1. Append(down, 0) \in Seq(0..MaxDelay)
  BY Naturals
<1>2. CASE HeartbeatRead
  BY <1>1, <1>2, Naturals DEF HeartbeatRead, Reads, CheckRestarted, Reply, beating, client
<1>3. ASSUME NEW kind \in Kinds, NEW busy \in 0..MaxBusy, RequestRead(kind, busy)
      PROVE  TimesOK'
  BY <1>3, Naturals DEF RequestRead, Reads, CheckRestarted, beating, client
<1>4. CASE FunctionReturns
  BY <1>1, <1>4 DEF FunctionReturns, Reply, beating, client
<1>5. CASE CheckExpired
  <2>1. Append(done, "failed") \in Seq(Handlers)
    BY DEF Handlers
  <2> QED BY <1>5, <2>1 DEF CheckExpired, wires
<1> QED BY <1>2, <1>3, <1>4, <1>5 DEF Session

LEMMA OlderType ==
    ASSUME NEW age \in 0..MaxDelay PROVE Older(age) \in 0..MaxDelay
BY Naturals DEF Older

LEMMA SoonerType ==
    ASSUME NEW n \in Nat, NEW t \in 0..n PROVE Sooner(t) \in 0..n
BY DEF Sooner

\* A tick, to messages.
LEMMA Aged ==
    ASSUME TimesOK, Tick
    PROVE  /\ up' \in Seq(Messages) /\ Len(up') = Len(up) /\ DOMAIN up' = DOMAIN up
           /\ \A i \in DOMAIN up : up'[i].kind = up[i].kind /\ up'[i].age = Older(up[i].age)
           /\ down' \in Seq(0..MaxDelay) /\ Len(down') = Len(down) /\ DOMAIN down' = DOMAIN down
           /\ \A i \in DOMAIN down : down'[i] = Older(down[i])
<1>1. /\ up \in Seq(Messages) /\ down \in Seq(0..MaxDelay)
      /\ DOMAIN up = 1..Len(up) /\ DOMAIN down = 1..Len(down)
      /\ Len(up) \in Nat /\ Len(down) \in Nat
  BY DEF TimesOK
<1>2. /\ up' = [i \in 1..Len(up) |-> [up[i] EXCEPT !.age = Older(@)]]
      /\ down' = [i \in 1..Len(down) |-> Older(down[i])]
  BY <1>1 DEF Tick
<1>3. \A i \in 1..Len(up) : up[i] \in Messages
  BY <1>1
<1>4. \A i \in 1..Len(down) : down[i] \in 0..MaxDelay
  BY <1>1, Naturals
<1>5. ASSUME NEW i \in 1..Len(up)
      PROVE  /\ [up[i] EXCEPT !.age = Older(@)] \in Messages
             /\ [up[i] EXCEPT !.age = Older(@)].kind = up[i].kind
             /\ [up[i] EXCEPT !.age = Older(@)].age = Older(up[i].age)
  BY <1>3, OlderType DEF Messages
<1>6. up' \in Seq(Messages) /\ Len(up') = Len(up) /\ DOMAIN up' = 1..Len(up)
  BY <1>1, <1>2, <1>5
<1>7. down' \in Seq(0..MaxDelay) /\ Len(down') = Len(down) /\ DOMAIN down' = 1..Len(down)
  BY <1>1, <1>2, <1>4, OlderType
<1>8. \A i \in DOMAIN up : up'[i].kind = up[i].kind /\ up'[i].age = Older(up[i].age)
  BY <1>1, <1>2, <1>5
<1>9. \A i \in DOMAIN down : down'[i] = Older(down[i])
  BY <1>1, <1>2
<1> QED BY <1>1, <1>6, <1>7, <1>8, <1>9

LEMMA TypeWorld ==
    ASSUME TimesOK, World PROVE TimesOK'
<1> USE DEF TimesOK
<1>1. CASE GoesSilent
  BY <1>1 DEF GoesSilent, beating, client, session
<1>2. CASE Resets
  <2>1. Append(done, "failed") \in Seq(Handlers)
    BY DEF Handlers
  <2> QED BY <1>2, <2>1 DEF Resets
<1>3. CASE Tick
  <2>1. up' \in Seq(Messages) /\ down' \in Seq(0..MaxDelay)
    BY <1>3, Aged
  <2>2. wait' \in Waits
    <3>1. wait # 0 /\ wait' = IF wait = NoWait THEN NoWait ELSE wait - 1
      BY <1>3 DEF Tick
    <3>2. wait \in Waits
      OBVIOUS
    <3> QED BY <3>1, <3>2, Naturals DEF Waits, NoWait
  <2>3. left' \in 0..Deadline
    BY <1>3, Naturals, SoonerType DEF Tick
  <2>4. function' = NoFunction \/ function' \in [kind : Kinds, left : 0..MaxBusy]
    <3>1. CASE function = NoFunction
      BY <1>3, <3>1 DEF Tick, Sooner, NoFunction
    <3>2. CASE function \in [kind : Kinds, left : 0..MaxBusy]
      <4>1. function.left \in 0..MaxBusy /\ function.kind \in Kinds
        BY <3>2
      <4>2. Sooner(function.left) \in 0..MaxBusy
        BY <4>1, Naturals, SoonerType
      <4>3. function' = [function EXCEPT !.left = Sooner(function.left)]
        BY <1>3 DEF Tick
      <4> HIDE DEF Sooner
      <4> QED BY <3>2, <4>2, <4>3
    <3> QED BY <3>1, <3>2
  <2>5. quiet' \in Nat /\ idle' \in Nat
    BY <1>3 DEF Tick
  <2> QED BY <1>3, <2>1, <2>2, <2>3, <2>4, <2>5 DEF Tick
<1> QED BY <1>1, <1>2, <1>3 DEF World

LEMMA TypeNext == KeepAliveTypeOK /\ [KeepAliveNext]_keepAliveVars => KeepAliveTypeOK'
<1> SUFFICES ASSUME KeepAliveTypeOK, [KeepAliveNext]_keepAliveVars PROVE KeepAliveTypeOK'
  OBVIOUS
<1>1. CASE UNCHANGED keepAliveVars
  BY <1>1 DEF KeepAliveTypeOK, FlagsOK, TimesOK, keepAliveVars, beating, client, wires, session
<1>2. CASE KeepAliveNext
  BY <1>2, FlagsNext, TypeClient, TypeSession, TypeWorld DEF KeepAliveNext, KeepAliveTypeOK
<1> QED BY <1>1, <1>2

-----------------------------------------------------------------------------
(* Messages stay in order.                                                 *)

Beat == [kind |-> "beat", age |-> 0]

LEMMA MessageType ==
    /\ \A m \in Messages : m.age \in 0..MaxDelay /\ m.age \in Nat
    /\ \A kind \in Kinds \cup {"beat"} : [kind |-> kind, age |-> 0] \in Messages
<1>1. \A m \in Messages : m.age \in 0..MaxDelay
  BY DEF Messages
<1>2. \A age \in 0..MaxDelay : age \in Nat
  BY Naturals
<1>3. \A kind \in Kinds \cup {"beat"} : [kind |-> kind, age |-> 0] \in Messages
  BY Naturals DEF Messages
<1> QED BY <1>1, <1>2, <1>3

LEMMA UpType ==
    ASSUME TimesOK
    PROVE  /\ up \in Seq(Messages) /\ Len(up) \in Nat /\ DOMAIN up = 1..Len(up)
           /\ \A i \in DOMAIN up : /\ up[i] \in Messages
                                   /\ up[i].age \in 0..MaxDelay /\ up[i].age \in Nat
           /\ down \in Seq(0..MaxDelay) /\ Len(down) \in Nat /\ DOMAIN down = 1..Len(down)
           /\ \A i \in DOMAIN down : down[i] \in 0..MaxDelay /\ down[i] \in Nat
<1>1. /\ up \in Seq(Messages) /\ down \in Seq(0..MaxDelay)
      /\ Len(up) \in Nat /\ DOMAIN up = 1..Len(up)
      /\ Len(down) \in Nat /\ DOMAIN down = 1..Len(down)
  BY DEF TimesOK
<1>2. \A i \in DOMAIN up : up[i] \in Messages
  BY <1>1
<1>3. \A i \in DOMAIN down : down[i] \in 0..MaxDelay
  BY <1>1, Naturals
<1>4. \A age \in 0..MaxDelay : age \in Nat
  BY Naturals
<1> QED BY <1>1, <1>2, <1>3, <1>4, MessageType

\* The same, after a step.
LEMMA MessagesType ==
    /\ \A q \in Seq(Messages) : \A i \in DOMAIN q : q[i].age \in Nat
    /\ \A q \in Seq(0..MaxDelay) : \A i \in DOMAIN q : q[i] \in Nat
    /\ \A q \in Seq(Messages) : q # <<>> => 1 \in DOMAIN q
    /\ \A q \in Seq(0..MaxDelay) : q # <<>> => 1 \in DOMAIN q
<1>1. ASSUME NEW q \in Seq(Messages)
      PROVE  (\A i \in DOMAIN q : q[i].age \in Nat) /\ (q # <<>> => 1 \in DOMAIN q)
  <2>1. \A i \in DOMAIN q : q[i] \in Messages
    OBVIOUS
  <2>2. q # <<>> => 1 \in DOMAIN q
    OBVIOUS
  <2> QED BY <2>1, <2>2, MessageType
<1>2. ASSUME NEW q \in Seq(0..MaxDelay)
      PROVE  (\A i \in DOMAIN q : q[i] \in Nat) /\ (q # <<>> => 1 \in DOMAIN q)
  <2>1. \A i \in DOMAIN q : q[i] \in 0..MaxDelay
    BY Naturals
  <2>2. q # <<>> => 1 \in DOMAIN q
    BY Naturals
  <2> QED BY <2>1, <2>2, Naturals
<1> QED BY <1>1, <1>2

LEMMA FunctionLeft ==
    \A f : f = NoFunction \/ f \in [kind : Kinds, left : 0..MaxBusy]
            => f.left \in 0..MaxBusy /\ f.left \in Nat
<1> SUFFICES ASSUME NEW f, f = NoFunction \/ f \in [kind : Kinds, left : 0..MaxBusy]
             PROVE  f.left \in 0..MaxBusy /\ f.left \in Nat
  OBVIOUS
<1>1. CASE f = NoFunction
  BY <1>1, Naturals DEF NoFunction
<1>2. CASE f \in [kind : Kinds, left : 0..MaxBusy]
  <2>1. f.left \in 0..MaxBusy
    BY <1>2
  <2> QED BY <2>1, Naturals
<1> QED BY <1>1, <1>2

LEMMA OrderUp ==
    ASSUME NEW q \in Seq(Messages), UpOrder(q)
    PROVE  /\ \A m \in Messages : m.age = 0 => UpOrder(Append(q, m))
           /\ q # <<>> => UpOrder(Tail(q))
<1>0. DOMAIN q = 1..Len(q) /\ Len(q) \in Nat
  OBVIOUS
<1>1. ASSUME NEW m \in Messages, m.age = 0 PROVE UpOrder(Append(q, m))
  <2> DEFINE r == Append(q, m)
  <2>1. /\ DOMAIN r = 1..(Len(q) + 1) /\ r[Len(q) + 1] = m
        /\ \A i \in 1..Len(q) : r[i] = q[i] /\ q[i].age \in Nat
    <3>1. \A i \in 1..Len(q) : q[i] \in Messages
      OBVIOUS
    <3> QED BY <1>0, <3>1, Appended, MessageType
  <2> HIDE DEF r
  <2>2. ASSUME NEW i \in DOMAIN r, NEW j \in DOMAIN r, i < j PROVE r[j].age <= r[i].age
    <3>1. i \in 1..Len(q) /\ r[i] = q[i] /\ q[i].age \in Nat
      BY <1>0, <2>1, <2>2
    <3>2. CASE j = Len(q) + 1
      BY <1>1, <2>1, <3>1, <3>2
    <3>3. CASE j # Len(q) + 1
      BY <1>0, <2>1, <2>2, <3>1, <3>3 DEF UpOrder
    <3> QED BY <3>2, <3>3
  <2> QED BY <2>2 DEF UpOrder, r
<1>2. ASSUME q # <<>> PROVE UpOrder(Tail(q))
  <2> DEFINE r == Tail(q)
  <2>1. DOMAIN r = 1..(Len(q) - 1) /\ \A i \in 1..(Len(q) - 1) : r[i] = q[i + 1]
    BY <1>2, Tailed
  <2> HIDE DEF r
  <2> QED BY <1>0, <2>1 DEF UpOrder, r
<1> QED BY <1>1, <1>2

LEMMA OrderDown ==
    ASSUME NEW q \in Seq(0..MaxDelay), DownOrder(q)
    PROVE  DownOrder(Append(q, 0)) /\ (q # <<>> => DownOrder(Tail(q)))
<1>0. DOMAIN q = 1..Len(q) /\ Len(q) \in Nat /\ 0 \in 0..MaxDelay
  BY Naturals
<1>1. DownOrder(Append(q, 0))
  <2> DEFINE r == Append(q, 0)
  <2>1. /\ DOMAIN r = 1..(Len(q) + 1) /\ r[Len(q) + 1] = 0
        /\ \A i \in 1..Len(q) : r[i] = q[i] /\ q[i] \in Nat
    BY <1>0, Appended, Naturals
  <2> HIDE DEF r
  <2> QED BY <1>0, <2>1 DEF DownOrder, r
<1>2. ASSUME q # <<>> PROVE DownOrder(Tail(q))
  <2> DEFINE r == Tail(q)
  <2>1. DOMAIN r = 1..(Len(q) - 1) /\ \A i \in 1..(Len(q) - 1) : r[i] = q[i + 1]
    BY <1>2, Tailed
  <2> HIDE DEF r
  <2> QED BY <1>0, <2>1 DEF DownOrder, r
<1> QED BY <1>1, <1>2

LEMMA OlderMonotone ==
    ASSUME NEW a \in 0..MaxDelay, NEW b \in 0..MaxDelay, a <= b
    PROVE  Older(a) <= Older(b)
BY Naturals DEF Older

\* What a step does to the messages of the two directions.
LEMMA UpSteps ==
    ASSUME TimesOK, KeepAliveNext
    PROVE  \/ up' = up
           \/ up' = <<>>
           \/ up' = <<Beat>>
           \/ \E kind \in Kinds \cup {"beat"} : up' = Append(up, [kind |-> kind, age |-> 0])
           \/ up # <<>> /\ up' = Tail(up)
           \/ Tick
BY DEF KeepAliveNext, Client, Session, World, Connects, BeatExpires, BeatDue, BeatAborted,
       OperationFailed, HeaderRead, Request, HeartbeatRead, RequestRead, FunctionReturns,
       CheckExpired, GoesSilent, Resets, Sent, Reads, Beat, wires, client, session

LEMMA DownSteps ==
    ASSUME TimesOK, KeepAliveNext
    PROVE  \/ down' = down
           \/ down' = <<>>
           \/ down' = Append(down, 0)
           \/ down # <<>> /\ down' = Tail(down)
           \/ Tick
BY DEF KeepAliveNext, Client, Session, World, Connects, BeatExpires, BeatDue, BeatAborted,
       OperationFailed, HeaderRead, Request, HeartbeatRead, RequestRead, FunctionReturns,
       CheckExpired, GoesSilent, Resets, Reply, wires, client, session

LEMMA OrderNext ==
    ASSUME TimesOK, InOrder, KeepAliveNext PROVE InOrder'
<1>0. /\ up \in Seq(Messages) /\ down \in Seq(0..MaxDelay)
      /\ DOMAIN up = 1..Len(up) /\ DOMAIN down = 1..Len(down)
      /\ \A kind \in Kinds \cup {"beat"} : [kind |-> kind, age |-> 0] \in Messages
  BY UpType, MessageType
<1>1. CASE Tick
  <2>1. \A i \in DOMAIN up : up[i].age \in 0..MaxDelay
    BY UpType
  <2>2. \A i \in DOMAIN down : down[i] \in 0..MaxDelay
    BY UpType
  <2>3. UpOrder(up')
    BY <1>1, <2>1, Aged, OlderMonotone DEF InOrder, UpOrder
  <2>4. DownOrder(down')
    BY <1>1, <2>2, Aged, OlderMonotone DEF InOrder, DownOrder
  <2> QED BY <2>3, <2>4 DEF InOrder
<1>2. CASE ~Tick
  <2>1. UpOrder(up')
    <3>1. UpOrder(<<>>) /\ UpOrder(<<Beat>>)
      BY DEF UpOrder
    <3> QED BY <1>0, <1>2, <3>1, UpSteps, OrderUp DEF InOrder
  <2>2. DownOrder(down')
    <3>1. DownOrder(<<>>)
      BY DEF DownOrder
    <3> QED BY <1>0, <1>2, <3>1, DownSteps, OrderDown DEF InOrder
  <2> QED BY <2>1, <2>2 DEF InOrder
<1> QED BY <1>1, <1>2

-----------------------------------------------------------------------------
(* No more requests are under way than users make.                         *)

LEMMA FewCallsNext ==
    ASSUME TimesOK, FewCalls, KeepAliveNext PROVE FewCalls'
<1>0. /\ up \in Seq(Messages) /\ Len(up) \in Nat /\ DOMAIN up = 1..Len(up)
      /\ \A kind \in Kinds \cup {"beat"} : [kind |-> kind, age |-> 0] \in Messages
      /\ Ahead(up, Len(up) + 1) \in Nat
  <2>1. up \in Seq(Messages) /\ Len(up) \in Nat /\ DOMAIN up = 1..Len(up) /\ Len(up) + 1 \in Nat
    BY UpType
  <2> QED BY <2>1, MessageType, AheadFinite
<1>1. Ahead(<<>>, Len(<<>>) + 1) = 0 /\ Ahead(<<Beat>>, Len(<<Beat>>) + 1) = 0
  <2>1. /\ {i \in DOMAIN <<>> : i < 1 /\ <<>>[i].kind # "beat"} = {}
        /\ {i \in DOMAIN <<Beat>> : i < 2 /\ <<Beat>>[i].kind # "beat"} = {}
    BY DEF Beat
  <2>2. Len(<<>>) + 1 = 1 /\ Len(<<Beat>>) + 1 = 2
    OBVIOUS
  <2> QED BY <2>1, <2>2, FS_EmptySet DEF Ahead
<1>2. ASSUME up' = <<>> \/ up' = <<Beat>>, UNCHANGED function \/ function' = NoFunction
      PROVE  FewCalls'
  <2>1. Ahead(up', Len(up') + 1) = 0
    BY <1>1, <1>2
  <2>2. function' = NoFunction \/ function' = function
    BY <1>2
  <2> QED BY <1>0, <2>1, <2>2, Naturals DEF FewCalls
<1>3. ASSUME UNCHANGED <<up, function>> PROVE FewCalls'
  BY <1>3 DEF FewCalls
<1>4. ASSUME up' = Append(up, Beat), UNCHANGED function PROVE FewCalls'
  <2>1. Ahead(up', Len(up) + 2) <= Ahead(up, Len(up) + 1)
        /\ Len(up') = Len(up) + 1 /\ Ahead(up', Len(up) + 2) \in Nat
    <3>1. Beat \in Messages /\ Beat.kind = "beat"
      BY <1>0 DEF Beat
    <3>2. up' \in Seq(Messages) /\ Len(up') = Len(up) + 1 /\ Len(up) + 2 \in Nat
      BY <1>0, <1>4, <3>1, Appended
    <3>3. Ahead(up', Len(up) + 2) <= Ahead(up, Len(up) + 1) + 0
      <4> HIDE DEF Beat
      <4> QED BY <1>0, <1>4, <3>1, AheadAppended
    <3>4. Ahead(up', Len(up) + 2) \in Nat
      BY <3>2, AheadFinite
    <3> QED BY <1>0, <3>2, <3>3, <3>4
  <2> QED BY <1>0, <1>4, <2>1, Naturals DEF FewCalls
<1>5. CASE \E kind \in Kinds : Request(kind)
  <2>1. Cardinality(Asked) = Ahead(up, Len(up) + 1)
    <3>1. Asked = {i \in DOMAIN up : i < Len(up) + 1 /\ up[i].kind # "beat"}
      BY <1>0 DEF Asked
    <3> QED BY <3>1 DEF Ahead
  <2>2. PICK kind \in Kinds : Request(kind)
    BY <1>5
  <2>3. /\ Ahead(up, Len(up) + 1) + (IF function = NoFunction THEN 0 ELSE 1) < MaxCalls
        /\ UNCHANGED function
    <3>1. Len(down) \in Nat
      BY DEF TimesOK
    <3> QED BY <1>0, <2>1, <2>2, <3>1, Naturals DEF Request, Calls, session
  <2>4. CASE up' = Append(up, [kind |-> kind, age |-> 0])
    <3>1. Ahead(up', Len(up) + 2) <= Ahead(up, Len(up) + 1) + 1
          /\ Len(up') = Len(up) + 1 /\ Ahead(up', Len(up) + 2) \in Nat
      <4> DEFINE m == [kind |-> kind, age |-> 0]
      <4>1. m \in Messages /\ m.kind # "beat"
        BY <1>0 DEF Kinds
      <4> HIDE DEF m
      <4>2. up' = Append(up, m)
        BY <2>4 DEF m
      <4>3. up' \in Seq(Messages) /\ Len(up') = Len(up) + 1 /\ Len(up) + 2 \in Nat
        BY <1>0, <4>1, <4>2, Appended
      <4> QED BY <1>0, <4>1, <4>2, <4>3, AheadAppended, AheadFinite
    <3> QED BY <1>0, <2>3, <3>1, Naturals DEF FewCalls
  <2>5. CASE up' = up
    BY <1>3, <2>3, <2>5
  <2> QED BY <2>2, <2>4, <2>5 DEF Request, Sent
<1>6. ASSUME up # <<>>, up' = Tail(up),
             \/ UNCHANGED function
             \/ up[1].kind # "beat" /\ function = NoFunction
      PROVE  FewCalls'
  <2>1. Len(up) > 0 /\ Len(Tail(up)) = Len(up) - 1 /\ Tail(up) \in Seq(Messages)
    BY <1>0, <1>6, Tailed
  <2>2. Ahead(Tail(up), Len(up)) + (IF up[1].kind = "beat" THEN 0 ELSE 1) <= Ahead(up, Len(up) + 1)
    BY <1>0, <1>6, <2>1, AheadTail
  <2>3. Ahead(Tail(up), Len(up)) \in Nat
    BY <1>0, <2>1, AheadFinite
  <2> QED BY <1>0, <1>6, <2>1, <2>2, <2>3, Naturals DEF FewCalls
<1>7. CASE Connects
  BY <1>2, <1>7 DEF Connects, Beat
<1>8. CASE BeatDue
  BY <1>3, <1>4, <1>8 DEF BeatDue, Sent, Beat, session
<1>9. CASE HeartbeatRead
  BY <1>0, <1>6, <1>9, Tailed DEF HeartbeatRead, Reads
<1>10. ASSUME NEW kind \in Kinds, NEW busy \in 0..MaxBusy, RequestRead(kind, busy)
       PROVE  FewCalls'
  <2>1. up # <<>> /\ up' = Tail(up) /\ Head(up).kind = kind /\ function = NoFunction
    BY <1>10 DEF RequestRead, Reads, Free
  <2>2. up[1].kind # "beat"
    BY <1>0, <2>1, Tailed DEF Kinds
  <2> QED BY <1>6, <2>1, <2>2
<1>11. CASE FunctionReturns
  <2>1. up' = up /\ function' = NoFunction /\ function # NoFunction
    BY <1>11 DEF FunctionReturns
  <2> QED BY <1>0, <2>1, Naturals DEF FewCalls
<1>12. CASE GoesSilent \/ Resets
  BY <1>2, <1>12 DEF GoesSilent, Resets, session
<1>13. CASE Tick
  <2>1. Ahead(up', Len(up') + 1) = Ahead(up, Len(up) + 1)
    <3>1. /\ up' \in Seq(Messages) /\ Len(up') = Len(up) /\ DOMAIN up' = DOMAIN up
          /\ \A i \in DOMAIN up : up'[i].kind = up[i].kind
      BY <1>13, Aged
    <3>2. Len(up) + 1 \in Nat
      BY <1>0
    <3>3. Ahead(up', Len(up) + 1) = Ahead(up, Len(up) + 1)
      BY <1>0, <3>1, <3>2, AheadSame
    <3> QED BY <3>1, <3>3
  <2>2. function' = NoFunction => function = NoFunction
    <3>1. CASE function \in [kind : Kinds, left : 0..MaxBusy]
      <4>1. function'.kind = function.kind /\ function.kind \in Kinds
        BY <1>13, <3>1 DEF Tick
      <4> QED BY <4>1 DEF Kinds, NoFunction
    <3> QED BY <3>1 DEF TimesOK
  <2>3. function = NoFunction => function' = NoFunction
    BY <1>13 DEF Tick, NoFunction, Sooner
  <2> QED BY <2>1, <2>2, <2>3 DEF FewCalls
<1>14. CASE BeatExpires \/ BeatAborted \/ OperationFailed \/ HeaderRead \/ CheckExpired
  BY <1>3, <1>14 DEF BeatExpires, BeatAborted, OperationFailed, HeaderRead, CheckExpired,
     wires, session
<1> QED BY <1>5, <1>7, <1>8, <1>9, <1>10, <1>11, <1>12, <1>13, <1>14
        DEF KeepAliveNext, Client, Session, World

-----------------------------------------------------------------------------
(* Silence is noticed.                                                     *)

LEMMA DueType == TimesOK => Due \in 0..Interval /\ missed \in Nat /\ quiet \in Nat
BY Naturals DEF TimesOK, Due, Waits, NoWait

\* Another miss that does not close leaves time for one more interval.
LEMMA MissWatches ==
    ASSUME TimesOK, ClientWatches, link = "up", NEW d, Miss(d), link' = "up", UNCHANGED quiet
    PROVE  ClientWatches'
<1>1. missed + 1 < MaxMissed /\ missed' = missed + 1 /\ wait' = Interval
  BY Naturals DEF TimesOK, Miss, Close
<1>2. Due' = Interval /\ wait' # NoWait
  BY <1>1, Naturals DEF Due, NoWait
<1>3. quiet + Due <= (missed + 1) * Interval /\ Due \in Nat /\ quiet \in Nat /\ missed \in Nat
  BY DueType DEF ClientWatches
<1>4. (missed + 2) * Interval = (missed + 1) * Interval + Interval
  BY <1>3, Naturals
<1>5. (missed + 2) * Interval <= MaxMissed * Interval
  BY <1>1, <1>3, Naturals, Times
<1>6. quiet + Interval <= (missed + 1) * Interval + Interval
  BY <1>3, Naturals
<1>7. /\ quiet' + Due' <= MaxMissed * Interval
      /\ quiet' + Due' <= (missed' + 1) * Interval
  <2>1. missed' + 1 = missed + 2 /\ quiet' = quiet
    BY <1>1, <1>3
  <2>2. (missed + 2) * Interval \in Nat /\ MaxMissed * Interval \in Nat
    BY <1>3, Naturals, Times
  <2>3. quiet' + Due' = quiet + Interval
    BY <1>2, <2>1
  <2> HIDE DEF Due
  <2> QED BY <1>3, <1>4, <1>5, <1>6, <2>1, <2>2, <2>3, Naturals
<1> QED BY <1>2, <1>7 DEF ClientWatches

LEMMA ClientWatchesNext ==
    ASSUME TimesOK, ClientWatches, KeepAliveNext PROVE ClientWatches'
<1>0. Due \in 0..Interval /\ missed \in Nat /\ quiet \in Nat
  BY DueType
<1>1. CASE Connects \/ HeaderRead
  <2>1. wait' = Interval /\ quiet' = 0 /\ missed' \in Nat
    BY <1>0, <1>1 DEF Connects, HeaderRead
  <2>2. Due' = Interval /\ wait' # NoWait
    BY <2>1, Naturals DEF Due, NoWait
  <2>3. ASSUME NEW n \in Nat, 1 <= n PROVE Interval <= n * Interval
    <3>1. 1 * Interval <= n * Interval /\ 1 * Interval = Interval
      BY <2>3, Naturals, Times
    <3> QED BY <3>1
  <2>4. missed' + 1 \in Nat /\ 1 <= missed' + 1 /\ 1 <= MaxMissed
    <3>1. \A n \in Nat : n + 1 \in Nat /\ 1 <= n + 1 /\ (n > 0 => 1 <= n)
      OBVIOUS
    <3> QED BY <2>1, <3>1, Naturals
  <2>5. Interval <= MaxMissed * Interval /\ Interval <= (missed' + 1) * Interval
    BY <2>3, <2>4, Naturals
  <2>6. quiet' + Due' = Interval
    BY <2>1, <2>2, Naturals
  <2> QED BY <2>2, <2>5, <2>6 DEF ClientWatches
<1>2. CASE BeatExpires
  <2>1. Due' = Due
    BY <1>2 DEF BeatExpires, Due, NoWait
  <2>2. \E i \in DOMAIN done' : done'[i] = "due"
    <3>1. done \in Seq(Handlers) /\ done' = Append(done, "due") /\ Len(done) \in Nat
      BY <1>2 DEF BeatExpires, TimesOK
    <3>2. Len(done) + 1 \in DOMAIN done' /\ done'[Len(done) + 1] = "due"
      BY <3>1
    <3> QED BY <3>2
  <2> QED BY <1>2, <2>1, <2>2 DEF BeatExpires, ClientWatches, client
<1>3. CASE BeatDue
  <2>1. CASE link = "up"
    <3>1. \E d : Miss(d)
      BY <1>3 DEF BeatDue
    <3>2. CASE link' = "up"
      BY <1>3, <2>1, <3>1, <3>2, MissWatches DEF BeatDue
    <3>3. CASE link' # "up"
      BY <3>3 DEF ClientWatches
    <3> QED BY <3>2, <3>3
  <2>2. CASE link # "up"
    BY <1>3, <2>2 DEF BeatDue, Miss, Close, ClientWatches
  <2> QED BY <2>1, <2>2
<1>4. CASE BeatAborted
  <2>1. CASE answered
    <3>1. done' = Tail(done) /\ UNCHANGED <<wait, missed, link, quiet>>
          /\ done # <<>> /\ done[1] = "aborted" /\ done \in Seq(Handlers)
      BY <1>4, <2>1 DEF BeatAborted, TimesOK
    <3>2. ASSUME NEW i \in DOMAIN done, done[i] = "due"
          PROVE  \E j \in DOMAIN done' : done'[j] = "due"
      <4>1. i - 1 \in DOMAIN done' /\ done'[i - 1] = done[i]
        <5>1. i \in 1..Len(done) /\ i # 1
          BY <3>1, <3>2
        <5> QED BY <3>1, <5>1
      <4> QED BY <3>2, <4>1
    <3> QED BY <3>1, <3>2 DEF ClientWatches, Due
  <2>2. CASE ~answered
    BY <1>4, <2>2, MissWatches DEF BeatAborted, Miss, Close, ClientWatches
  <2> QED BY <2>1, <2>2
<1>5. CASE OperationFailed
  BY <1>5 DEF OperationFailed, Close, ClientWatches
<1>6. CASE CheckExpired \/ Resets
  <2>1. UNCHANGED <<wait, missed, link, quiet>> /\ (done' = done \/ done' = Append(done, "failed"))
    BY <1>6 DEF CheckExpired, Resets
  <2>2. ASSUME NEW i \in DOMAIN done, done[i] = "due"
        PROVE  \E j \in DOMAIN done' : done'[j] = "due"
    <3>1. done \in Seq(Handlers)
      BY DEF TimesOK
    <3>2. i \in DOMAIN done' /\ done'[i] = done[i]
      BY <2>1, <3>1
    <3> QED BY <2>2, <3>2
  <2> QED BY <2>1, <2>2 DEF ClientWatches, Due
<1>7. CASE Tick
  <2>1. UNCHANGED <<missed, link, done>> /\ done = <<>> /\ wait # 0
        /\ wait' = (IF wait = NoWait THEN NoWait ELSE wait - 1)
        /\ quiet' = IF link = "up" THEN quiet + 1 ELSE quiet
    BY <1>7 DEF Tick
  <2>2. SUFFICES ASSUME link = "up" PROVE ClientWatches'
    BY <2>1 DEF ClientWatches
  <2>3. wait # NoWait
    BY <2>1, <2>2 DEF ClientWatches
  <2>4. wait \in 1..Interval
    BY <2>1, <2>3, Naturals DEF TimesOK, Waits, NoWait
  <2>5. wait' = wait - 1 /\ wait' # NoWait /\ Due' = wait - 1 /\ Due = wait /\ quiet' = quiet + 1
    BY <2>1, <2>2, <2>3, <2>4 DEF Due, NoWait
  <2>6. quiet' + Due' = quiet + Due
    BY <1>0, <2>4, <2>5
  <2> QED BY <2>1, <2>2, <2>5, <2>6 DEF ClientWatches
<1>8. CASE UNCHANGED <<link, wait, done, missed, quiet>>
  BY <1>8 DEF ClientWatches, Due
<1> QED BY <1>1, <1>2, <1>3, <1>4, <1>5, <1>6, <1>7, <1>8 DEF KeepAliveNext, Client, Session,
           World, Request, HeartbeatRead, RequestRead, FunctionReturns, GoesSilent, beating, client

LEMMA SessionWatchesNext ==
    ASSUME TimesOK, SessionWatches, KeepAliveNext PROVE SessionWatches'
<1>0. /\ left \in 0..Deadline /\ idle \in Nat
      /\ function # NoFunction => function.left \in 0..MaxBusy /\ function.kind \in Kinds
  BY DEF TimesOK
<1>1. CASE Connects
  BY <1>1, Naturals DEF Connects, SessionWatches
<1>2. CASE HeartbeatRead
  BY <1>2, Naturals DEF HeartbeatRead, Reads, Free, CheckRestarted, SessionWatches
<1>3. ASSUME NEW kind \in Kinds, NEW busy \in 0..MaxBusy, RequestRead(kind, busy)
      PROVE  SessionWatches'
  <2>1. left' = Deadline /\ idle' = 0 /\ function'.left = busy
    BY <1>3 DEF RequestRead, CheckRestarted
  <2> QED BY <2>1, Naturals DEF SessionWatches
<1>4. CASE FunctionReturns
  BY <1>4 DEF FunctionReturns, SessionWatches
<1>5. CASE CheckExpired \/ Resets
  <2>1. ~open'
    BY <1>5 DEF CheckExpired, Resets
  <2> QED BY <2>1 DEF SessionWatches
<1>6. CASE Tick
  <2>1. /\ UNCHANGED open /\ left' = Sooner(left) /\ idle' = (IF open THEN idle + 1 ELSE idle)
        /\ function' = [function EXCEPT !.left = Sooner(@)]
        /\ function # NoFunction => function.left > 0
        /\ Free => left > 0
    BY <1>6 DEF Tick
  <2> SUFFICES ASSUME open PROVE SessionWatches'
    BY <2>1 DEF SessionWatches
  <2>2. idle' = idle + 1
    BY <2>1
  <2>3. left' > 0 => idle' + left' = Deadline
    BY <1>0, <2>1, <2>2, Naturals DEF SessionWatches, Sooner
  <2>4. CASE function = NoFunction
    <3>1. function' = NoFunction
      BY <2>1, <2>4 DEF NoFunction, Sooner
    <3>2. left > 0
      BY <2>1, <2>4 DEF Free
    <3>3. idle' <= Deadline
      BY <1>0, <2>2, <3>2, Naturals DEF SessionWatches
    <3> QED BY <2>3, <3>1, <3>3 DEF SessionWatches
  <2>5. CASE function # NoFunction
    <3>1. function.left \in 0..MaxBusy /\ function.left > 0 /\ idle + function.left <= MaxBusy
      BY <1>0, <2>1, <2>5 DEF SessionWatches
    <3>2. function'.left = function.left - 1
      <4>1. function \in [kind : Kinds, left : 0..MaxBusy]
        BY <2>5 DEF TimesOK
      <4>2. function'.left = Sooner(function.left)
        BY <2>1, <4>1
      <4> QED BY <3>1, <4>2, Naturals DEF Sooner
    <3>3. idle' + function'.left <= MaxBusy
      BY <1>0, <2>2, <3>1, <3>2, Naturals
    <3>4. idle' <= Deadline
      <4>1. MaxBusy < Deadline
        BY PromptAssumption, Naturals
      <4> QED BY <1>0, <2>2, <3>1, <4>1, Naturals
    <3> QED BY <2>3, <3>3, <3>4 DEF SessionWatches
  <2> QED BY <2>4, <2>5
<1>7. CASE UNCHANGED session
  BY <1>7 DEF SessionWatches, session
<1> QED BY <1>1, <1>2, <1>3, <1>4, <1>5, <1>6, <1>7 DEF KeepAliveNext, Client, Session, World,
           BeatExpires, BeatDue, BeatAborted, OperationFailed, HeaderRead, Request, GoesSilent

-----------------------------------------------------------------------------
(* Both ends are open as long as the connection is sound.                  *)

\* On a sound connection Miss closes, or it is the last handler that runs.
LEMMA BothOpenNext ==
    ASSUME TimesOK, BothOpen, OneHandler, Fed, KeepAliveNext PROVE BothOpen'
<1> SUFFICES ASSUME Sound' PROVE reading' /\ open' /\ left' # 0
  BY DEF BothOpen
<1>1. CASE Connects
  BY <1>1, Naturals DEF Connects
<1>2. CASE BeatExpires
  BY <1>2 DEF BeatExpires, client, wires, session, Sound, BothOpen
<1>3. CASE BeatDue
  <2>1. link = "up" /\ net = "good" /\ ~raced /\ UNCHANGED <<reading, session>>
    BY <1>3 DEF BeatDue, Miss, Close, Sound
  <2> QED BY <2>1 DEF BothOpen, Sound, session
<1>4. CASE BeatAborted
  <2>1. link = "up" /\ net = "good" /\ ~raced /\ UNCHANGED <<reading, session>>
    BY <1>4 DEF BeatAborted, Miss, Close, Sound, wires
  <2> QED BY <2>1 DEF BothOpen, Sound, session
<1>5. CASE OperationFailed
  BY <1>5 DEF OperationFailed, Close, Sound
<1>6. CASE HeaderRead
  BY <1>6 DEF HeaderRead, session, Sound, BothOpen
<1>7. CASE \E kind \in Kinds : Request(kind)
  BY <1>7 DEF Request, beating, client, session, Sound, BothOpen
<1>8. CASE HeartbeatRead
  BY <1>8, Naturals DEF HeartbeatRead, CheckRestarted, beating, client, Sound, BothOpen
<1>9. CASE \E kind \in Kinds, busy \in 0..MaxBusy : RequestRead(kind, busy)
  BY <1>9, Naturals DEF RequestRead, CheckRestarted, beating, client, Sound, BothOpen
<1>10. CASE FunctionReturns
  BY <1>10 DEF FunctionReturns, beating, client, Sound, BothOpen
<1>11. CASE CheckExpired
  BY <1>11 DEF CheckExpired, wires, Sound, BothOpen
<1>12. CASE GoesSilent \/ Resets
  BY <1>12 DEF GoesSilent, Resets, Sound
<1>13. CASE Tick
  <2>1. /\ Sound /\ UNCHANGED <<reading, open>> /\ done = <<>> /\ wait # 0
        /\ left' = Sooner(left)
        /\ Free => left > 0
        /\ function # NoFunction => function.left > 0
        /\ Free /\ up # <<>> => up[1].age < MaxDelay
    <3>1. up # <<>> => Head(up) = up[1]
      BY UpType, Tailed
    <3> QED BY <1>13, <3>1 DEF Tick, Sound
  <2>2. left > 1
    <3>1. left \in Nat /\ left > function.left /\ wait # NoWait
      BY <2>1 DEF Fed, HeaderComes, Going, TimesOK, OneHandler
    <3>2. CASE function # NoFunction
      BY <2>1, <3>1, <3>2 DEF TimesOK
    <3>3. CASE function = NoFunction /\ up # <<>>
      <4>1. up[1].age < MaxDelay /\ left > MaxDelay - up[1].age /\ up[1].age \in Nat
        BY <2>1, <3>3, UpType DEF Fed, HeaderComes, Going, Free, BothOpen
      <4> QED BY <3>1, <4>1, Naturals
    <3>4. CASE up = <<>>
      <4>1. left > Due + MaxDelay
        BY <2>1, <3>4 DEF Fed, HeaderComes, Going
      <4>2. Due \in Nat /\ Due > 0
        BY <2>1, <3>1, Naturals DEF Due, TimesOK, Waits, NoWait
      <4> QED BY <3>1, <4>1, <4>2, Naturals
    <3> QED BY <3>2, <3>3, <3>4
  <2>3. left' # 0
    <3>1. left \in Nat
      BY Naturals DEF TimesOK
    <3>2. left' = Sooner(left)
      BY <2>1
    <3> QED BY <2>2, <3>1, <3>2 DEF Sooner
  <2> QED BY <2>1, <2>3 DEF BothOpen
<1> QED BY <1>1, <1>2, <1>3, <1>4, <1>5, <1>6, <1>7, <1>8, <1>9, <1>10, <1>11, <1>12, <1>13
        DEF KeepAliveNext, Client, Session, World

LEMMA OneHandlerNext ==
    ASSUME TimesOK, BothOpen, OneHandler, KeepAliveNext PROVE OneHandler'
<1> SUFFICES ASSUME Sound' PROVE OneHandler'
  BY DEF OneHandler
<1>0. /\ NoWait # Interval /\ NoWait # 0 /\ Interval # 0
      /\ done \in Seq(Handlers)
      /\ Tail(<<"due">>) = <<>> /\ Tail(<<"aborted">>) = <<>>
      /\ <<>> \o <<>> = <<>> /\ <<>> \o <<"aborted">> = <<"aborted">>
      /\ Append(<<>>, "due") = <<"due">>
      /\ Head(<<"due">>) = "due" /\ Head(<<"aborted">>) = "aborted"
      /\ <<"due">> # <<>> /\ <<"aborted">> # <<>> /\ <<"due">> # <<"aborted">>
  <2>1. NoWait # Interval /\ NoWait # 0 /\ Interval # 0
    BY Naturals DEF NoWait
  <2>2. <<"due">>[1] = "due" /\ <<"aborted">>[1] = "aborted"
    OBVIOUS
  <2> QED BY <2>1, <2>2 DEF TimesOK
<1>1. CASE Connects
  BY <1>0, <1>1 DEF Connects, WaitAborts, OneHandler
<1>2. CASE BeatExpires
  <2>1. Sound
    BY <1>2 DEF BeatExpires, client, wires, Sound
  <2>2. done = <<>>
    BY <1>0, <1>2, <2>1 DEF BeatExpires, OneHandler
  <2> QED BY <1>0, <1>2, <2>2 DEF BeatExpires, OneHandler
<1>3. CASE BeatDue
  <2>1. link = "up" /\ Sound
    BY <1>3 DEF BeatDue, Miss, Close, Sound
  <2>2. done = <<"due">> /\ wait = NoWait
    BY <1>0, <1>3, <2>1 DEF BeatDue, OneHandler
  <2>3. Miss(<<>>) /\ link' = "up"
    BY <1>0, <1>3, <2>1, <2>2 DEF BeatDue, Sound
  <2>4. done' = <<>> /\ wait' = Interval
    BY <1>0, <2>2, <2>3 DEF Miss, Close, WaitAborts
  <2> QED BY <1>0, <2>4 DEF OneHandler
<1>4. CASE BeatAborted
  <2>1. link = "up" /\ Sound /\ UNCHANGED <<heard, answered>>
    BY <1>4 DEF BeatAborted, Miss, Close, wires, Sound
  <2>2. done = <<"aborted">> /\ wait = Interval /\ (heard => answered)
    BY <1>0, <1>4, <2>1 DEF BeatAborted, OneHandler
  <2>3. CASE answered
    BY <1>0, <1>4, <2>2, <2>3 DEF BeatAborted, OneHandler
  <2>4. CASE ~answered
    <3>1. Miss(<<>>) /\ link' = "up"
      BY <1>0, <1>4, <2>2, <2>4 DEF BeatAborted, Sound
    <3>2. done' = <<"aborted">> /\ wait' = Interval
      BY <1>0, <2>2, <3>1 DEF Miss, Close, WaitAborts
    <3> QED BY <2>1, <2>2, <3>2 DEF OneHandler
  <2> QED BY <2>3, <2>4
<1>5. CASE OperationFailed
  BY <1>5 DEF OperationFailed, Close, Sound
<1>6. CASE HeaderRead
  <2>1. Sound /\ done = <<>> /\ answered' /\ wait' = Interval /\ done' = done \o WaitAborts
    BY <1>6 DEF HeaderRead, Sound
  <2>2. wait # NoWait
    BY <1>0, <2>1 DEF OneHandler
  <2> QED BY <1>0, <2>1, <2>2 DEF OneHandler, WaitAborts
<1>7. CASE CheckExpired
  BY <1>7 DEF CheckExpired, wires, Sound, BothOpen
<1>8. CASE GoesSilent \/ Resets
  BY <1>8 DEF GoesSilent, Resets, Sound
<1>9. CASE Tick
  <2>1. Sound /\ UNCHANGED done /\ done = <<>> /\ wait # 0
        /\ wait' = (IF wait = NoWait THEN NoWait ELSE wait - 1)
    BY <1>9 DEF Tick, Sound
  <2>2. wait # NoWait
    BY <1>0, <2>1 DEF OneHandler
  <2>3. wait' # NoWait
    BY <2>1, <2>2, Naturals DEF TimesOK, Waits, NoWait
  <2> QED BY <2>1, <2>3 DEF OneHandler
<1>10. CASE UNCHANGED <<beating, client, net>>
  BY <1>10 DEF beating, client, Sound, OneHandler
<1> QED BY <1>1, <1>2, <1>3, <1>4, <1>5, <1>6, <1>7, <1>8, <1>9, <1>10
        DEF KeepAliveNext, Client, Session, World, Request, HeartbeatRead, RequestRead,
            FunctionReturns

-----------------------------------------------------------------------------
(* The deadline is never met on a sound connection.                        *)

\* What the client's handlers do on a connection that goes on.
LEMMA ClientGoes ==
    ASSUME TimesOK, BothOpen, OneHandler, Going'
    PROVE  /\ BeatExpires => Going /\ Due' = Due
           /\ BeatDue => /\ Going /\ done = <<"due">> /\ wait = NoWait /\ wait' = Interval
                         /\ missed + 1 < MaxMissed /\ missed' = missed + 1
                         /\ up' = Append(up, Beat)
           /\ BeatAborted => Going /\ UNCHANGED <<wait, missed>>
           /\ HeaderRead => Going /\ wait' = Interval /\ missed' = 0
           /\ ~OperationFailed
<1>0. /\ done \in Seq(Handlers) /\ <<"due">> # <<"aborted">> /\ <<>> # <<"aborted">>
      /\ Head(<<"due">>) = "due" /\ Head(<<"aborted">>) = "aborted"
      /\ Tail(<<"aborted">>) = <<>> /\ <<>> \o <<"aborted">> = <<"aborted">>
      /\ NoWait # Interval /\ NoWait # 0
  <2>1. NoWait # Interval /\ NoWait # 0
    BY Naturals DEF NoWait
  <2>2. <<"due">>[1] = "due" /\ <<"aborted">>[1] = "aborted"
    OBVIOUS
  <2> QED BY <2>1, <2>2 DEF TimesOK
<1>1. ASSUME BeatExpires PROVE Going /\ Due' = Due
  <2>1. Sound /\ wait = 0 /\ wait' = NoWait
    BY <1>1 DEF BeatExpires, client, wires, Sound, Going
  <2>2. Due' = Due
    BY <2>1 DEF Due
  <2>3. wait # Interval
    BY <2>1, Naturals
  <2>4. Going
    BY <1>0, <2>1, <2>3 DEF OneHandler, Going
  <2> QED BY <2>2, <2>4
<1>2. ASSUME BeatDue
      PROVE  /\ Going /\ done = <<"due">> /\ wait = NoWait /\ wait' = Interval
             /\ missed + 1 < MaxMissed /\ missed' = missed + 1
             /\ up' = Append(up, Beat)
  <2>1. link = "up" /\ Sound
    BY <1>2 DEF BeatDue, Miss, Close, Sound, Going
  <2>2. done = <<"due">> /\ wait = NoWait
    BY <1>0, <1>2, <2>1 DEF BeatDue, OneHandler
  <2>3. ~(missed + 1 >= MaxMissed)
    BY <1>2, <2>1 DEF BeatDue, Miss, Close, Sound, Going
  <2>4. up' = Append(up, Beat) /\ wait' = Interval
    BY <1>2, <2>1, <2>3 DEF BeatDue, Miss, Sent, Sound, BothOpen, Beat
  <2>5. missed + 1 < MaxMissed /\ missed' = missed + 1
    <3>1. missed' = IF missed < MaxMissed THEN missed + 1 ELSE missed
      BY <1>2 DEF BeatDue, Miss
    <3> QED BY <2>3, <3>1, Naturals DEF TimesOK
  <2> QED BY <1>0, <2>1, <2>2, <2>4, <2>5 DEF Going
<1>3. ASSUME BeatAborted PROVE Going /\ UNCHANGED <<wait, missed>>
  <2>1. link = "up" /\ Sound /\ UNCHANGED answered
    BY <1>3 DEF BeatAborted, Miss, Close, wires, Sound, Going
  <2>2. done = <<"aborted">> /\ wait = Interval
    BY <1>0, <1>3, <2>1 DEF BeatAborted, OneHandler
  <2>3. CASE ~answered
    <3>1. Miss(<<>>) /\ link' = "up" /\ done' # <<"aborted">>
      BY <1>0, <1>3, <2>1, <2>2, <2>3 DEF BeatAborted, Going, Sound
    <3> QED BY <1>0, <2>2, <3>1 DEF Miss, Close, WaitAborts
  <2>4. CASE answered
    BY <1>3, <2>1, <2>4 DEF BeatAborted, Going
  <2> QED BY <2>3, <2>4
<1>4. ASSUME HeaderRead PROVE Going /\ wait' = Interval /\ missed' = 0
  BY <1>0, <1>4 DEF HeaderRead, Sound, Going
<1>5. ~OperationFailed
  BY DEF OperationFailed, Close, Going, Sound
<1> QED BY <1>1, <1>2, <1>3, <1>4, <1>5

LEMMA FunctionType ==
    ASSUME TimesOK
    PROVE  /\ function.left \in 0..MaxBusy /\ function.left \in Nat
           /\ function = NoFunction => function.left = 0
           /\ left \in Nat /\ left <= Deadline
<1>1. CASE function = NoFunction
  BY <1>1, Naturals DEF NoFunction, TimesOK
<1>2. CASE function # NoFunction
  BY <1>2, Naturals DEF TimesOK
<1> QED BY <1>1, <1>2

\* A header was read: the deadline is as far away as it can be.
LEMMA FedAnew ==
    ASSUME TimesOK', left' = Deadline
    PROVE  HeaderComes'
<1>1. Deadline > Interval + 2 * MaxDelay + MaxBusy
  BY PromptAssumption, Naturals
<1>2. function'.left \in 0..MaxBusy
  BY FunctionLeft DEF TimesOK
<1>3. Due' \in 0..Interval
  BY Naturals DEF TimesOK, Due, Waits, NoWait
<1>4. /\ up' # <<>> => up'[1].age \in Nat
      /\ \A i \in DOMAIN down' : down'[i] \in Nat
  <2>1. up' \in Seq(Messages) /\ down' \in Seq(0..MaxDelay)
    BY DEF TimesOK
  <2>2. \A i \in DOMAIN up' : up'[i].age \in Nat
    BY <2>1, MessagesType, Zenon
  <2>3. up' # <<>> => 1 \in DOMAIN up'
    BY <2>1, MessagesType, Zenon
  <2>4. \A i \in DOMAIN down' : down'[i] \in Nat
    BY <2>1, MessagesType, Zenon
  <2> QED BY <2>2, <2>3, <2>4, Zenon
<1>5. /\ left' > function'.left
      /\ left' > Due' + MaxDelay
      /\ left' > function'.left + Interval + 2 * MaxDelay
  <2>1. \A busy \in 0..MaxBusy : /\ Deadline > busy
                                 /\ Deadline > busy + Interval + 2 * MaxDelay
    BY <1>1, Naturals
  <2>2. \A due \in 0..Interval : Deadline > due + MaxDelay
    BY <1>1, Naturals
  <2> QED BY <1>2, <1>3, <2>1, <2>2
<1>6. \A age \in Nat : left' > MaxDelay - age /\ left' > MaxDelay - age + Interval + MaxDelay
  BY <1>1, Naturals
<1> QED BY <1>4, <1>5, <1>6 DEF HeaderComes

LEMMA TickGoes ==
    ASSUME TimesOK, BothOpen, OneHandler, Tick, Going'
    PROVE  /\ Sound /\ Going /\ Due \in Nat /\ Due > 0 /\ Due' = Due - 1
           /\ left' = Sooner(left)
           /\ function = NoFunction => function' = NoFunction
           /\ function # NoFunction => function.left > 0 /\ function'.left = function.left - 1
           /\ function = NoFunction /\ up # <<>> => up[1].age < MaxDelay
           /\ down # <<>> => down[1] < MaxDelay
<1>1. Sound /\ Going /\ done = <<>> /\ reading /\ open
  BY DEF Tick, Going, Sound, BothOpen
<1>2. /\ wait # 0 /\ wait # NoWait /\ wait' = wait - 1
      /\ left' = Sooner(left)
      /\ function' = [function EXCEPT !.left = Sooner(@)]
      /\ function # NoFunction => function.left > 0
  BY <1>1 DEF Tick, OneHandler
<1>3. Due \in Nat /\ Due > 0 /\ Due' = Due - 1
  <2>1. wait \in Waits
    BY DEF TimesOK
  <2>2. wait \in Nat /\ wait > 0
    BY <1>2, <2>1, Naturals DEF Waits, NoWait
  <2>3. wait' # NoWait
    BY <1>2, <2>2 DEF NoWait
  <2> QED BY <1>2, <2>2, <2>3 DEF Due
<1>4. function = NoFunction => function' = NoFunction
  BY <1>2 DEF NoFunction, Sooner
<1>5. ASSUME function # NoFunction PROVE function'.left = function.left - 1
  <2>1. function \in [kind : Kinds, left : 0..MaxBusy]
    BY <1>5 DEF TimesOK
  <2>2. function'.left = Sooner(function.left)
    BY <1>2, <2>1
  <2> QED BY <1>2, <1>5, <2>2 DEF Sooner
<1>6. (up # <<>> => Head(up) = up[1]) /\ (down # <<>> => Head(down) = down[1])
  BY UpType, Tailed
<1>7. /\ function = NoFunction /\ up # <<>> => up[1].age < MaxDelay
      /\ down # <<>> => down[1] < MaxDelay
  BY <1>1, <1>6 DEF Tick, Free
<1> QED BY <1>1, <1>2, <1>3, <1>4, <1>5, <1>7

LEMMA FedNext ==
    ASSUME TimesOK, TimesOK', InOrder, BothOpen, OneHandler, Fed, KeepAliveNext PROVE Fed'
<1> SUFFICES ASSUME Going' PROVE HeaderComes'
  BY DEF Fed
<1>0. /\ left \in Nat /\ function.left \in Nat /\ Due \in Nat
      /\ function = NoFunction => function.left = 0
  BY FunctionType, DueType, Naturals
<1>1. CASE Connects
  BY <1>1, FedAnew DEF Connects
<1>2. CASE BeatExpires
  BY <1>2, ClientGoes DEF BeatExpires, Fed, HeaderComes, wires, session
<1>3. CASE BeatAborted
  BY <1>3, ClientGoes DEF BeatAborted, Fed, HeaderComes, Due, wires, session
<1>4. ASSUME Going, HeaderComes, NEW kind \in Kinds \cup {"beat"},
             up' = Append(up, [kind |-> kind, age |-> 0]), UNCHANGED <<left, function>>
      PROVE  HeaderComes'
  <2> DEFINE m == [kind |-> kind, age |-> 0]
  <2>1. up' # <<>> /\ (up = <<>> => up'[1] = m) /\ (up # <<>> => up'[1] = up[1])
    <3>1. m \in Messages /\ up \in Seq(Messages) /\ Len(up) \in Nat
      BY UpType, MessageType
    <3>2. up = <<>> => Len(up) + 1 = 1
      OBVIOUS
    <3>3. up # <<>> => 1 \in 1..Len(up)
      BY <3>1
    <3> HIDE DEF m
    <3>4. up' = Append(up, m)
      BY <1>4 DEF m
    <3> QED BY <3>1, <3>2, <3>3, <3>4, Appended
  <2>2. CASE up = <<>>
    <3>1. left > Due + MaxDelay /\ up'[1].age = 0
      BY <1>4, <2>1, <2>2 DEF HeaderComes
    <3>2. left > MaxDelay - up'[1].age
      BY <1>0, <3>1, Naturals
    <3> QED BY <1>4, <2>1, <3>2 DEF HeaderComes
  <2>3. CASE up # <<>>
    BY <1>4, <2>1, <2>3 DEF HeaderComes
  <2> QED BY <2>2, <2>3
<1>5. CASE BeatDue
  BY <1>4, <1>5, ClientGoes DEF BeatDue, Beat, Fed, session
<1>6. CASE HeaderRead
  <2>1. HeaderComes /\ UNCHANGED <<up, left, function>> /\ down # <<>> /\ down' = Tail(down)
    BY <1>6, ClientGoes DEF HeaderRead, Fed, session
  <2>2. Due' = Interval
    BY <1>6, ClientGoes, Naturals DEF Due, NoWait
  <2>3. /\ Len(down) \in Nat /\ DOMAIN down = 1..Len(down) /\ 1 \in DOMAIN down
        /\ down[1] \in 0..MaxDelay /\ DOMAIN down' = 1..(Len(down) - 1)
        /\ \A i \in 1..(Len(down) - 1) : down'[i] = down[i + 1] /\ i + 1 \in DOMAIN down
    <3>1. /\ down \in Seq(0..MaxDelay) /\ Len(down) \in Nat /\ DOMAIN down = 1..Len(down)
          /\ Len(down) > 0
      BY <2>1, UpType, Tailed
    <3>2. 1 \in DOMAIN down /\ down[1] \in 0..MaxDelay
      BY <3>1, UpType
    <3>3. DOMAIN down' = 1..(Len(down) - 1) /\ \A i \in 1..(Len(down) - 1) : down'[i] = down[i + 1]
      BY <2>1, <3>1, Tailed
    <3>4. \A i \in 1..(Len(down) - 1) : i + 1 \in DOMAIN down
      BY <3>1
    <3> QED BY <3>1, <3>2, <3>3, <3>4
  <2>4. CASE up = <<>>
    <3>1. left > MaxDelay - down[1] + Interval + MaxDelay
      BY <2>1, <2>3, <2>4 DEF HeaderComes
    <3>2. left > Interval + MaxDelay
      BY <1>0, <2>3, <3>1, Naturals
    <3>3. \A i \in DOMAIN down' : left > MaxDelay - down'[i] + Interval + MaxDelay
      BY <2>1, <2>3, <2>4 DEF HeaderComes
    <3> QED BY <2>1, <2>2, <2>4, <3>2, <3>3 DEF HeaderComes
  <2>5. CASE up # <<>>
    BY <2>1, <2>5 DEF HeaderComes
  <2> QED BY <2>4, <2>5
<1>7. ASSUME NEW kind \in Kinds, Request(kind) PROVE HeaderComes'
  <2>1. Going /\ HeaderComes /\ UNCHANGED <<left, function, down, wait>>
    BY <1>7 DEF Request, beating, client, session, Going, Sound, Fed
  <2>2. CASE up' = up
    BY <2>1, <2>2 DEF HeaderComes, Due
  <2>3. CASE up' # up
    BY <1>4, <1>7, <2>1, <2>3 DEF Request, Sent
  <2> QED BY <2>2, <2>3
<1>8. CASE HeartbeatRead
  BY <1>8, FedAnew DEF HeartbeatRead, CheckRestarted
<1>9. CASE \E kind \in Kinds, busy \in 0..MaxBusy : RequestRead(kind, busy)
  BY <1>9, FedAnew DEF RequestRead, CheckRestarted
<1>10. CASE FunctionReturns
  <2>1. /\ Going /\ HeaderComes /\ UNCHANGED <<left, up, wait>>
        /\ function # NoFunction /\ function.left = 0 /\ function' = NoFunction
        /\ down' = down \/ down' = Append(down, 0)
    BY <1>10 DEF FunctionReturns, Reply, beating, client, Going, Sound, Fed
  <2>2. function'.left = 0
    BY <2>1 DEF NoFunction
  <2>3. CASE up # <<>>
    BY <2>1, <2>2, <2>3 DEF HeaderComes
  <2>4. CASE up = <<>>
    <3>1. left > Interval + 2 * MaxDelay /\ left > Due + MaxDelay
      BY <1>0, <2>1, <2>4, Naturals DEF HeaderComes
    <3>2. ASSUME NEW i \in DOMAIN down' PROVE left > MaxDelay - down'[i] + Interval + MaxDelay
      <4>1. CASE i \in DOMAIN down /\ down'[i] = down[i]
        BY <2>1, <2>4, <4>1 DEF HeaderComes
      <4>2. CASE down'[i] = 0
        BY <1>0, <3>1, <4>2, Naturals
      <4>3. \/ i \in DOMAIN down /\ down'[i] = down[i]
            \/ down'[i] = 0
        <5>1. down \in Seq(0..MaxDelay) /\ Len(down) \in Nat /\ DOMAIN down = 1..Len(down)
              /\ 0 \in 0..MaxDelay
          BY UpType, Naturals
        <5>2. CASE down' = down
          BY <3>2, <5>2
        <5>3. CASE down' = Append(down, 0)
          <6>1. i \in 1..(Len(down) + 1)
            BY <3>2, <5>1, <5>3, Appended
          <6>2. i = Len(down) + 1 \/ i \in 1..Len(down)
            BY <5>1, <6>1
          <6> QED BY <5>1, <5>3, <6>2, Appended
        <5> QED BY <2>1, <5>2, <5>3
      <4> QED BY <4>1, <4>2, <4>3
    <3> QED BY <2>1, <2>2, <2>4, <3>1, <3>2 DEF HeaderComes, Due
  <2> QED BY <2>3, <2>4
<1>11. CASE CheckExpired
  BY <1>11 DEF CheckExpired, wires, Going, Sound, BothOpen
<1>12. CASE GoesSilent \/ Resets
  BY <1>12 DEF GoesSilent, Resets, Sound, Going
<1>13. CASE Tick
  <2>1. /\ HeaderComes /\ left' = Sooner(left)
        /\ function # NoFunction => function.left > 0
        /\ function = NoFunction /\ up # <<>> => up[1].age < MaxDelay
        /\ down # <<>> => down[1] < MaxDelay
    BY <1>13, TickGoes DEF Fed
  <2>2. Due \in Nat /\ Due > 0 /\ Due' = Due - 1
    BY <1>13, TickGoes
  <2>3. /\ function = NoFunction => function' = NoFunction
        /\ function # NoFunction => function'.left = function.left - 1
    BY <1>13, TickGoes
  <2>4. /\ left > function.left
        /\ up # <<>> => left > MaxDelay - up[1].age
        /\ up = <<>> => left > Due + MaxDelay
    BY <2>1 DEF HeaderComes
  <2>5. left' = left - 1
    <3>1. left > 0
      BY <1>0, <2>4
    <3>2. left' = Sooner(left)
      BY <2>1
    <3> QED BY <3>1, <3>2 DEF Sooner
  <2>6. function'.left \in Nat
    BY FunctionLeft DEF TimesOK
  <2>7. up # <<>> => /\ up[1].age \in 0..MaxDelay
                     /\ up'[1].age = Older(up[1].age)
    <3>1. up # <<>> => 1 \in DOMAIN up
      BY UpType
    <3> QED BY <1>13, <3>1, UpType, Aged
  <2>8. left' > function'.left
    <3>1. CASE function # NoFunction
      BY <1>0, <2>3, <2>4, <2>5, <3>1
    <3>2. CASE function = NoFunction
      <4>1. left > 1
        <5>1. CASE up # <<>>
          <6>1. up[1].age < MaxDelay /\ left > MaxDelay - up[1].age /\ up[1].age \in Nat
            BY <2>1, <2>4, <2>7, <3>2, <5>1, Naturals
          <6> QED BY <1>0, <6>1, Naturals
        <5>2. CASE up = <<>>
          BY <1>0, <2>2, <2>4, <5>2, Naturals
        <5> QED BY <5>1, <5>2
      <4>2. function'.left = 0
        BY <2>3, <3>2 DEF NoFunction
      <4> QED BY <1>0, <2>5, <4>1, <4>2
    <3> QED BY <3>1, <3>2
  <2>9. ASSUME up' # <<>> PROVE left' > MaxDelay - up'[1].age
    <3>1. up # <<>>
      BY <1>13, <2>9, Aged, UpType
    <3>2. CASE up[1].age < MaxDelay
      <4>1. up'[1].age = up[1].age + 1 /\ up[1].age \in Nat /\ left > MaxDelay - up[1].age
        BY <2>4, <2>7, <3>1, <3>2, Naturals DEF Older
      <4> QED BY <1>0, <2>5, <4>1, Naturals
    <3>3. CASE up[1].age = MaxDelay
      <4>1. up'[1].age = MaxDelay
        BY <2>7, <3>1, <3>3, Naturals DEF Older
      <4> QED BY <2>6, <2>8, <4>1, Naturals, <1>0, <2>5
    <3> QED BY <2>7, <3>1, <3>2, <3>3, Naturals
  <2>10. ASSUME up' = <<>>
         PROVE  /\ left' > Due' + MaxDelay
                /\ function' # NoFunction => left' > function'.left + Interval + 2 * MaxDelay
                /\ \A i \in DOMAIN down' : left' > MaxDelay - down'[i] + Interval + MaxDelay
    <3>1. up = <<>>
      BY <1>13, <2>10, Aged, UpType
    <3>2. left' > Due' + MaxDelay
      BY <1>0, <2>2, <2>4, <2>5, <3>1, Naturals
    <3>3. ASSUME function' # NoFunction PROVE left' > function'.left + Interval + 2 * MaxDelay
      <4>1. function # NoFunction /\ function'.left = function.left - 1
        BY <2>3, <3>3
      <4>2. left > function.left + Interval + 2 * MaxDelay
        BY <2>1, <3>1, <4>1 DEF HeaderComes
      <4> QED BY <1>0, <2>5, <4>1, <4>2, Naturals
    <3>4. ASSUME NEW i \in DOMAIN down' PROVE left' > MaxDelay - down'[i] + Interval + MaxDelay
      <4>1. i \in DOMAIN down /\ down'[i] = Older(down[i]) /\ down[i] \in Nat
        BY <1>13, <3>4, Aged, UpType
      <4>2. down[i] < MaxDelay
        <5>1. down # <<>> /\ 1 \in DOMAIN down /\ down[1] \in Nat /\ i \in Nat /\ i >= 1
          BY <4>1, UpType
        <5>2. down[i] <= down[1]
          BY <4>1, <5>1 DEF InOrder, DownOrder
        <5> QED BY <2>1, <4>1, <5>1, <5>2, Naturals
      <4>3. down'[i] = down[i] + 1
        BY <4>1, <4>2 DEF Older
      <4>4. left > MaxDelay - down[i] + Interval + MaxDelay
        BY <2>1, <3>1, <4>1 DEF HeaderComes
      <4> QED BY <1>0, <2>5, <4>1, <4>3, <4>4, Naturals
    <3> QED BY <3>2, <3>3, <3>4
  <2> QED BY <2>8, <2>9, <2>10 DEF HeaderComes
<1>14. ~OperationFailed
  BY ClientGoes
<1> QED BY <1>1, <1>2, <1>3, <1>5, <1>6, <1>7, <1>8, <1>9, <1>10, <1>11, <1>12, <1>13, <1>14
        DEF KeepAliveNext, Client, Session, World

-----------------------------------------------------------------------------
(* An answer comes before the last miss.                                   *)

LEMMA BusyAhead ==
    ASSUME NEW q \in Seq(Messages), NEW b \in Nat
    PROVE  MaxBusy * Ahead(q, b) \in Nat
<1>1. Ahead(q, b) \in Nat
  BY AheadFinite
<1> QED BY <1>1, Naturals, Times

LEMMA ElapsedType == TimesOK => Elapsed \in Int /\ missed * Interval \in Nat
<1> SUFFICES ASSUME TimesOK PROVE Elapsed \in Int /\ missed * Interval \in Nat
  OBVIOUS
<1>1. missed \in Nat /\ Due \in Nat
  BY DueType, Naturals
<1>2. missed * Interval \in Nat
  BY <1>1, Naturals, Times
<1> QED BY <1>1, <1>2 DEF Elapsed

\* The first miss is counted when a heartbeat is sent, which then has at most
\* every request before it.
LEMMA FirstMiss ==
    ASSUME TimesOK, FewCalls, wait = NoWait, wait' = Interval, missed = 0, missed' = missed + 1,
           up' = Append(up, Beat), UNCHANGED function
    PROVE  \E b \in DOMAIN up' : InTime(b)'
<1>0. PICK b \in Nat : b = Len(up) + 1
  BY UpType
<1> DEFINE A == Ahead(up, b)
<1>1. /\ up \in Seq(Messages) /\ Len(up) \in Nat /\ b \in Nat /\ b \in 1..(Len(up) + 1)
      /\ Beat \in Messages
  BY <1>0, UpType, MessageType DEF Beat
<1>2. b \in DOMAIN up' /\ up'[b] = Beat /\ Ahead(up', b) = A
  BY <1>0, <1>1, Appended, AheadAppended
<1>3. A \in Nat /\ function.left \in 0..MaxBusy /\ (function = NoFunction => function.left = 0)
  BY <1>1, AheadFinite, FunctionType
<1>4. Elapsed' = 0
  <2>1. Due' = Interval /\ missed' = 1
    BY Naturals DEF Due, NoWait
  <2> QED BY <2>1, Naturals DEF Elapsed
<1>5. A + (IF function = NoFunction THEN 0 ELSE 1) <= MaxCalls
  BY <1>0 DEF FewCalls
<1> HIDE DEF A
<1>6. function.left + MaxBusy * A <= MaxCalls * MaxBusy
  <2>1. CASE function = NoFunction
    <3>1. A <= MaxCalls /\ function.left = 0
      BY <1>3, <1>5, <2>1, Naturals
    <3>2. MaxBusy * A <= MaxBusy * MaxCalls /\ MaxBusy * A \in Nat
      BY <1>3, <3>1, Naturals, Times
    <3>3. MaxBusy * MaxCalls = MaxCalls * MaxBusy
      BY Naturals
    <3> QED BY <3>1, <3>2, <3>3
  <2>2. CASE function # NoFunction
    <3>1. A + 1 <= MaxCalls
      BY <1>5, <2>2
    <3>2. MaxBusy * (A + 1) <= MaxBusy * MaxCalls
      BY <1>3, <3>1, Naturals, Times
    <3>3. MaxBusy * (A + 1) = MaxBusy * A + MaxBusy /\ MaxBusy * A \in Nat
      BY <1>3, Naturals, Times
    <3>4. MaxBusy * MaxCalls = MaxCalls * MaxBusy
      BY Naturals
    <3> QED BY <1>3, <3>2, <3>3, <3>4, Naturals
  <2> QED BY <2>1, <2>2
<1>7. Elapsed' + 2 * MaxDelay - Beat.age + function'.left + MaxBusy * A <= Bound
  <2>1. MaxBusy * A \in Nat /\ MaxCalls * MaxBusy \in Nat /\ function.left \in Nat /\ Beat.age = 0
    BY <1>3, Naturals, Times DEF Beat
  <2> QED BY <1>4, <1>6, <2>1, Naturals DEF Bound
<1>8. InTime(b)'
  BY <1>2, <1>7 DEF InTime, Beat
<1> QED BY <1>2, <1>8

\* Messages are only added behind.
LEMMA StaysInTime ==
    ASSUME TimesOK, NEW b \in DOMAIN up, InTime(b), NEW m \in Messages, up' = Append(up, m),
           Elapsed' = Elapsed, UNCHANGED function
    PROVE  b \in DOMAIN up' /\ InTime(b)'
<1>1. up \in Seq(Messages) /\ Len(up) \in Nat /\ DOMAIN up = 1..Len(up) /\ b \in 1..(Len(up) + 1)
  BY UpType
<1>2. b \in DOMAIN up' /\ up'[b] = up[b]
  BY <1>1, Appended
<1>3. Ahead(up', b) = Ahead(up, b)
  BY <1>1, AheadAppended
<1> QED BY <1>2, <1>3 DEF InTime

\* A message was read, and it was not that heartbeat: the function that it
\* calls was counted.
LEMMA ComesNearer ==
    ASSUME TimesOK, up # <<>>, up' = Tail(up), NEW b \in DOMAIN up, b # 1, InTime(b),
           Elapsed' = Elapsed, function = NoFunction, function'.left \in 0..MaxBusy,
           up[1].kind = "beat" => function'.left = 0
    PROVE  b - 1 \in DOMAIN up' /\ InTime(b - 1)'
<1> DEFINE c == b - 1
           A == Ahead(up, b)
           B == Ahead(Tail(up), c)
<1>1. /\ up \in Seq(Messages) /\ Len(up) \in Nat /\ DOMAIN up = 1..Len(up) /\ Len(up) > 0
      /\ c \in 1..Len(up) /\ c \in 1..(Len(up) - 1) /\ c + 1 = b /\ b \in Nat /\ c \in Nat
      /\ Tail(up) \in Seq(Messages) /\ DOMAIN Tail(up) = 1..(Len(up) - 1)
      /\ \A i \in 1..(Len(up) - 1) : Tail(up)[i] = up[i + 1]
  BY UpType, Tailed
<1>2. c \in DOMAIN up' /\ up'[c] = up[b]
  BY <1>1
<1>3. A \in Nat /\ B \in Nat /\ up[b].age \in Nat
  BY <1>1, AheadFinite, UpType
<1>4. B + (IF up[1].kind = "beat" THEN 0 ELSE 1) <= A
  BY <1>1, AheadTail
<1>5. function'.left + MaxBusy * B <= MaxBusy * A
  <2> HIDE DEF A, B
  <2>1. MaxBusy * A \in Nat /\ MaxBusy * B \in Nat
    BY <1>3, Naturals, Times
  <2>2. CASE up[1].kind = "beat"
    <3>1. MaxBusy * B <= MaxBusy * A
      BY <1>3, <1>4, <2>2, Naturals, Times
    <3> QED BY <2>1, <2>2, <3>1
  <2>3. CASE up[1].kind # "beat"
    <3>1. MaxBusy * (B + 1) <= MaxBusy * A /\ MaxBusy * (B + 1) = MaxBusy * B + MaxBusy
      BY <1>3, <1>4, <2>3, Naturals, Times
    <3> QED BY <2>1, <3>1, Naturals
  <2> QED BY <2>2, <2>3
<1>6. Elapsed + 2 * MaxDelay - up[b].age + function.left + MaxBusy * A <= Bound /\ up[b].kind = "beat"
  BY DEF InTime
<1>7. Elapsed + 2 * MaxDelay - up[b].age + function'.left + MaxBusy * B <= Bound
  <2>1. function.left = 0 /\ Elapsed \in Int
    BY FunctionType, ElapsedType
  <2>2. MaxBusy * A \in Nat /\ MaxBusy * B \in Nat /\ Bound \in Nat /\ function'.left \in Nat
    <3>1. MaxBusy * A \in Nat /\ MaxBusy * B \in Nat /\ MaxCalls * MaxBusy \in Nat
      BY <1>3, Naturals, Times
    <3>2. \A busy \in 0..MaxBusy : busy \in Nat
      BY Naturals
    <3>3. 2 * MaxDelay \in Nat /\ \A x, y \in Nat : x + y \in Nat
      BY Naturals
    <3>4. Bound \in Nat
      BY <3>1, <3>3 DEF Bound
    <3> QED BY <3>1, <3>2, <3>4
  <2> HIDE DEF A, B, Elapsed, Bound
  <2> QED BY <1>3, <1>5, <1>6, <2>1, <2>2, Naturals
<1>8. up' = Tail(up)
  OBVIOUS
<1> QED BY <1>2, <1>6, <1>7, <1>8 DEF InTime

(* One more unit of time has passed, and what it was waiting for is one nearer. *)
LEMMA LaterButCloser ==
  ASSUME NEW e \in Int, NEW later, later = e + 1,
         NEW delay \in Nat, NEW bound \in Nat, NEW rest \in Nat,
         NEW age \in Nat, NEW older \in Nat, NEW ticks \in Nat, NEW fewer \in Nat,
         older - fewer >= age - ticks + 1,
         e + 2 * delay - age + ticks + rest <= bound
  PROVE  later + 2 * delay - older + fewer + rest <= bound
  OBVIOUS

LEMMA AnsweringNext ==
    ASSUME TimesOK, InOrder, FewCalls, BothOpen, OneHandler, OneHandler', Answering, KeepAliveNext
    PROVE  Answering'
<1> DEFINE Answers == \/ down # <<>> /\ Elapsed + MaxDelay - down[1] <= Bound
                      \/ \E b \in DOMAIN up : InTime(b)
<1> SUFFICES ASSUME Sound', heard', missed' > 0 PROVE Answers'
  BY DEF Answering
<1>0. /\ up \in Seq(Messages) /\ Len(up) \in Nat /\ DOMAIN up = 1..Len(up)
      /\ down \in Seq(0..MaxDelay)
      /\ \A kind \in Kinds \cup {"beat"} : [kind |-> kind, age |-> 0] \in Messages
      /\ 0 \in 0..MaxDelay
  BY UpType, MessageType, Naturals
<1>1. Going'
  BY DEF OneHandler, Going
<1>2. down # <<>> /\ (down' = down \/ down' = Append(down, 0)) => down' # <<>> /\ down'[1] = down[1]
  BY <1>0, UpType, Appended
<1>3. CASE Connects
  BY <1>3 DEF Connects
<1>4. CASE BeatExpires
  <2>1. Going /\ Due' = Due /\ UNCHANGED <<up, down, missed, function, heard>>
    BY <1>1, <1>4, ClientGoes DEF BeatExpires, client, wires, session
  <2>2. Elapsed' = Elapsed
    BY <2>1 DEF Elapsed
  <2> QED BY <2>1, <2>2 DEF Answering, Going, InTime
<1>5. CASE BeatDue
  <2>1. /\ Going /\ wait = NoWait /\ wait' = Interval /\ missed' = missed + 1
        /\ up' = Append(up, Beat) /\ UNCHANGED <<down, function, heard>>
    BY <1>1, <1>5, ClientGoes DEF BeatDue, session
  <2>2. CASE missed = 0
    BY <2>1, <2>2, FirstMiss
  <2>3. CASE missed # 0
    <3>1. Elapsed' = Elapsed
      <4>1. Due = 0 /\ Due' = Interval /\ missed \in Nat
        BY <2>1, Naturals, DueType DEF Due, NoWait
      <4>2. (missed + 1) * Interval = missed * Interval + Interval /\ missed * Interval \in Nat
        BY <4>1, Naturals, ElapsedType
      <4> QED BY <2>1, <4>1, <4>2, Naturals DEF Elapsed
    <3>2. Answers
      <4>1. missed > 0
        BY <2>3, DueType
      <4> QED BY <2>1, <4>1 DEF Answering, Going
    <3>3. ASSUME NEW b \in DOMAIN up, InTime(b) PROVE Answers'
      BY <1>0, <2>1, <3>1, <3>3, StaysInTime DEF Beat
    <3> QED BY <2>1, <3>1, <3>2, <3>3
  <2> QED BY <2>2, <2>3
<1>6. CASE BeatAborted
  <2>1. Going /\ UNCHANGED <<wait, missed, up, down, function, heard>>
    BY <1>1, <1>6, ClientGoes DEF BeatAborted, wires, session
  <2> QED BY <2>1 DEF Answering, Going, InTime, Elapsed, Due
<1>7. CASE OperationFailed \/ HeaderRead
  BY <1>1, <1>7, ClientGoes
<1>8. ASSUME NEW kind \in Kinds, Request(kind) PROVE Answers'
  <2>1. Sound /\ UNCHANGED <<wait, missed, down, function, heard>>
        /\ (up' = up \/ up' = Append(up, [kind |-> kind, age |-> 0]))
    BY <1>8 DEF Request, Sent, beating, client, session, Sound
  <2>2. Answers /\ Elapsed' = Elapsed
    BY <2>1 DEF Answering, Elapsed, Due
  <2>3. ASSUME NEW b \in DOMAIN up, InTime(b) PROVE b \in DOMAIN up' /\ InTime(b)'
    <3>1. CASE up' = up
      BY <2>1, <2>2, <2>3, <3>1 DEF InTime
    <3>2. CASE up' = Append(up, [kind |-> kind, age |-> 0])
      BY <1>0, <2>1, <2>2, <2>3, <3>2, StaysInTime
    <3> QED BY <2>1, <3>1, <3>2
  <2> QED BY <2>1, <2>2, <2>3
<1>9. CASE HeartbeatRead
  <2>1. /\ Sound /\ UNCHANGED <<wait, missed, function, heard>> /\ function = NoFunction
        /\ up # <<>> /\ up' = Tail(up) /\ down' = Append(down, 0)
    BY <1>9 DEF HeartbeatRead, Reads, Free, Reply, beating, client, Sound
  <2>2. Answers /\ Elapsed' = Elapsed
    BY <2>1 DEF Answering, Elapsed, Due
  <2>3. ASSUME down # <<>>, Elapsed + MaxDelay - down[1] <= Bound PROVE Answers'
    BY <1>2, <2>1, <2>2, <2>3
  <2>4. ASSUME NEW b \in DOMAIN up, InTime(b) PROVE Answers'
    <3>1. CASE b # 1
      BY <2>1, <2>2, <2>4, <3>1, ComesNearer, FunctionType
    <3>2. CASE b = 1
      <4>1. Elapsed + MaxDelay <= Bound
        <5>1. /\ Elapsed + 2 * MaxDelay - up[b].age + function.left + MaxBusy * Ahead(up, b) <= Bound
              /\ up[b].age \in 0..MaxDelay /\ function.left \in Nat
              /\ MaxBusy * Ahead(up, b) \in Nat /\ Elapsed \in Int /\ Bound \in Nat
          <6>1. b \in Nat
            BY UpType
          <6>2. MaxCalls * MaxBusy \in Nat
            BY Naturals, Times
          <6>3. Bound \in Nat
            BY <6>2, Naturals DEF Bound
          <6> QED BY <1>0, <2>4, <6>1, <6>3, UpType, FunctionType, BusyAhead, ElapsedType DEF InTime
        <5> HIDE DEF Elapsed, Bound
        <5> QED BY <5>1, Naturals
      <4>2. down' # <<>> /\ down'[1] \in Nat
        <5>1. CASE down = <<>>
          BY <2>1, <5>1
        <5>2. CASE down # <<>>
          BY <1>2, <2>1, <5>2, UpType
        <5> QED BY <5>1, <5>2
      <4>3. Elapsed' + MaxDelay - down'[1] <= Bound
        <5>1. Elapsed \in Int /\ Bound \in Int
          <6>1. MaxCalls * MaxBusy \in Nat
            BY Naturals, Times
          <6> QED BY <6>1, ElapsedType, Naturals DEF Bound
        <5> HIDE DEF Elapsed, Bound
        <5> QED BY <2>2, <4>1, <4>2, <5>1, Naturals
      <4> QED BY <4>2, <4>3 DEF Bound
    <3> QED BY <3>1, <3>2
  <2> QED BY <2>2, <2>3, <2>4
<1>10. ASSUME NEW kind \in Kinds, NEW busy \in 0..MaxBusy, RequestRead(kind, busy) PROVE Answers'
  <2>1. /\ Sound /\ UNCHANGED <<wait, missed, down, heard>> /\ function = NoFunction
        /\ up # <<>> /\ up' = Tail(up) /\ up[1].kind = kind
        /\ function' = [kind |-> kind, left |-> busy]
    <3>1. Head(up) = up[1] \/ up = <<>>
      BY <1>0, Tailed
    <3> QED BY <1>10, <3>1 DEF RequestRead, Reads, Free, beating, client, Sound
  <2>2. Answers /\ Elapsed' = Elapsed
    BY <2>1 DEF Answering, Elapsed, Due
  <2>3. ASSUME NEW b \in DOMAIN up, InTime(b) PROVE Answers'
    <3>1. b # 1 /\ up[1].kind # "beat"
      BY <2>1, <2>3 DEF InTime, Kinds
    <3>2. function'.left \in 0..MaxBusy
      BY <2>1
    <3> QED BY <2>1, <2>2, <2>3, <3>1, <3>2, ComesNearer
  <2> QED BY <2>1, <2>2, <2>3
<1>11. CASE FunctionReturns
  <2>1. /\ Sound /\ UNCHANGED <<wait, missed, up, heard>> /\ function.left = 0
        /\ function' = NoFunction /\ (down' = down \/ down' = Append(down, 0))
    BY <1>11 DEF FunctionReturns, Reply, beating, client, Sound
  <2>2. Answers /\ Elapsed' = Elapsed /\ function'.left = function.left
    BY <2>1 DEF Answering, Elapsed, Due, NoFunction
  <2> QED BY <1>2, <2>1, <2>2 DEF InTime
<1>12. CASE CheckExpired
  BY <1>12 DEF CheckExpired, wires, Sound, BothOpen
<1>13. CASE GoesSilent \/ Resets
  BY <1>13 DEF GoesSilent, Resets, Sound
<1>14. CASE Tick
  <2>1. Sound /\ UNCHANGED <<missed, heard>> /\ Due' = Due - 1 /\ Due \in Nat
    BY <1>1, <1>14, TickGoes DEF Tick
  <2>2. Answers /\ Elapsed' = Elapsed + 1 /\ Elapsed \in Int
    <3>1. missed * Interval \in Nat
      BY ElapsedType
    <3>2. Elapsed' = Elapsed + 1
      BY <2>1, <3>1 DEF Elapsed
    <3> QED BY <2>1, <3>2, ElapsedType DEF Answering
  <2>3. Bound \in Nat
    <3>1. MaxCalls * MaxBusy \in Nat
      BY Naturals, Times
    <3> QED BY <3>1, Naturals DEF Bound
  <2>4. ASSUME down # <<>>, Elapsed + MaxDelay - down[1] <= Bound PROVE Answers'
    <3>1. down[1] < MaxDelay /\ 1 \in DOMAIN down /\ down[1] \in Nat
      BY <1>1, <1>14, <2>4, TickGoes, UpType
    <3>2. down'[1] = down[1] + 1 /\ down' # <<>>
      BY <1>14, <2>4, <3>1, Aged, UpType DEF Older
    <3>3. Elapsed' + MaxDelay - down'[1] <= Bound
      <4> HIDE DEF Elapsed, Bound
      <4> QED BY <2>2, <2>3, <2>4, <3>1, <3>2, Naturals
    <3> QED BY <3>2, <3>3 DEF Bound
  <2>5. ASSUME NEW b \in DOMAIN up, InTime(b) PROVE Answers'
    <3>1. /\ b \in DOMAIN up' /\ up'[b].kind = up[b].kind /\ up'[b].age = Older(up[b].age)
          /\ up[b].age \in 0..MaxDelay /\ up[b].age \in Nat /\ b \in Nat /\ b >= 1
          /\ 1 \in DOMAIN up /\ up # <<>>
      BY <1>14, <2>5, Aged, UpType
    <3>2. Ahead(up', b) = Ahead(up, b)
      BY <1>14, <3>1, Aged, AheadSame, UpType
    <3>3. up'[b].age - function'.left >= up[b].age - function.left + 1
          /\ up'[b].age \in Nat /\ function'.left \in Nat
      <4>1. CASE function # NoFunction
        <5>1. function.left > 0 /\ function'.left = function.left - 1 /\ function.left \in Nat
          BY <1>1, <1>14, <4>1, TickGoes, FunctionType
        <5>2. up'[b].age \in Nat /\ up'[b].age >= up[b].age
          BY <3>1, Naturals DEF Older
        <5> QED BY <3>1, <5>1, <5>2
      <4>2. CASE function = NoFunction
        <5>1. function'.left = 0 /\ function.left = 0
          BY <1>1, <1>14, <4>2, TickGoes, FunctionType
        <5>2. up[1].age < MaxDelay /\ up[1].age \in Nat
          BY <1>1, <1>14, <3>1, <4>2, TickGoes, UpType
        <5>3. up[b].age <= up[1].age
          <6>1. CASE b = 1
            BY <5>2, <6>1
          <6>2. CASE b # 1
            BY <2>5, <3>1, <6>2 DEF InOrder, UpOrder
          <6> QED BY <6>1, <6>2
        <5>4. up'[b].age = up[b].age + 1
          BY <3>1, <5>2, <5>3, Naturals DEF Older
        <5> QED BY <3>1, <5>1, <5>4
      <4> QED BY <4>1, <4>2
    <3>4. Elapsed' + 2 * MaxDelay - up'[b].age + function'.left + MaxBusy * Ahead(up', b) <= Bound
      <4>1. Elapsed + 2 * MaxDelay - up[b].age + function.left + MaxBusy * Ahead(up, b) <= Bound
        BY <2>5 DEF InTime
      <4>2. MaxBusy * Ahead(up, b) \in Nat /\ function.left \in Nat
        BY <1>0, <3>1, BusyAhead, FunctionType
      <4>3. Elapsed \in Int /\ Elapsed' = Elapsed + 1 /\ MaxDelay \in Nat /\ Bound \in Nat
            /\ up[b].age \in Nat
        BY <2>2, <2>3, <3>1, Naturals
      <4>4. MaxBusy * Ahead(up', b) = MaxBusy * Ahead(up, b)
        BY <3>2
      <4> DEFINE ahead == MaxBusy * Ahead(up, b)
      <4>5. Elapsed' + 2 * MaxDelay - up'[b].age + function'.left + ahead <= Bound
        <5> HIDE DEF ahead, Elapsed, Bound
        <5> QED BY <3>3, <4>1, <4>2, <4>3, LaterButCloser DEF ahead
      <4> QED BY <4>4, <4>5
    <3>5. up[b].kind = "beat"
      BY <2>5 DEF InTime
    <3>6. InTime(b)'
      BY <3>1, <3>4, <3>5 DEF InTime, Bound
    <3> QED BY <3>1, <3>6
  <2> QED BY <2>2, <2>4, <2>5
<1> QED BY <1>3, <1>4, <1>5, <1>6, <1>7, <1>8, <1>9, <1>10, <1>11, <1>12, <1>13, <1>14
        DEF KeepAliveNext, Client, Session, World

-----------------------------------------------------------------------------
LEMMA KeptInit == KeepAliveInit => KeptIInv
<1> SUFFICES ASSUME KeepAliveInit PROVE KeptIInv
  OBVIOUS
<1>1. KeepAliveTypeOK
  BY TypeInit
<1>2. InOrder
  BY DEF KeepAliveInit, InOrder, UpOrder, DownOrder
<1>3. FewCalls
  <2>1. {i \in DOMAIN <<>> : i < Len(<<>>) + 1 /\ <<>>[i].kind # "beat"} = {}
    OBVIOUS
  <2> QED BY <2>1, FS_EmptySet, Naturals DEF KeepAliveInit, FewCalls, Ahead
<1>4. ClientWatches /\ SessionWatches /\ BothOpen /\ OneHandler /\ Fed /\ Answering
  BY DEF KeepAliveInit, ClientWatches, SessionWatches, BothOpen, OneHandler, Fed, Going,
         Answering, Sound
<1> QED BY <1>1, <1>2, <1>3, <1>4 DEF KeptIInv

LEMMA KeptNext == KeptIInv /\ [KeepAliveNext]_keepAliveVars => KeptIInv'
<1> SUFFICES ASSUME KeptIInv, [KeepAliveNext]_keepAliveVars PROVE KeptIInv'
  OBVIOUS
<1>1. CASE KeepAliveNext
  <2>1. KeepAliveTypeOK' /\ TimesOK' /\ TimesOK
    BY TypeNext DEF KeptIInv, KeepAliveTypeOK
  <2>2. InOrder' /\ FewCalls' /\ ClientWatches' /\ SessionWatches'
    BY <1>1, <2>1, OrderNext, FewCallsNext, ClientWatchesNext, SessionWatchesNext DEF KeptIInv
  <2>3. BothOpen' /\ OneHandler'
    BY <1>1, <2>1, BothOpenNext, OneHandlerNext DEF KeptIInv
  <2>4. Fed' /\ Answering'
    BY <1>1, <2>1, <2>3, FedNext, AnsweringNext DEF KeptIInv
  <2> QED BY <2>1, <2>2, <2>3, <2>4 DEF KeptIInv
<1>2. CASE UNCHANGED keepAliveVars
  <2>1. UNCHANGED <<link, reading, wait, done, answered, missed, net, up, down, open, left,
                    function, heard, raced, quiet, idle, conns, kept>>
    BY <1>2 DEF keepAliveVars, beating, client, wires, session
  <2>2. KeepAliveTypeOK' /\ InOrder' /\ FewCalls'
    BY <2>1 DEF KeptIInv, KeepAliveTypeOK, FlagsOK, TimesOK, InOrder, FewCalls
  <2>3. ClientWatches' /\ SessionWatches' /\ BothOpen' /\ OneHandler'
    BY <2>1 DEF KeptIInv, ClientWatches, SessionWatches, BothOpen, OneHandler, Sound, Due
  <2>4. Fed'
    BY <2>1 DEF KeptIInv, Fed, HeaderComes, Going, Sound, Due
  <2>5. Answering'
    BY <2>1 DEF KeptIInv, Answering, InTime, Elapsed, Sound, Due
  <2> QED BY <2>2, <2>3, <2>4, <2>5 DEF KeptIInv
<1> QED BY <1>1, <1>2

LEMMA KeptInvariance == KeepAliveSpec => []KeptIInv
BY KeptInit, KeptNext, PTL DEF KeepAliveSpec

\* Every variable of the two ends and of what is between them keeps its type:
\* in particular, no message gets older than MaxDelay before it is read.
THEOREM KeepAliveTypeCorrect == KeepAliveSpec => []KeepAliveTypeOK
<1>1. KeptIInv => KeepAliveTypeOK
  BY DEF KeptIInv
<1> QED BY <1>1, KeptInvariance, PTL

\* Whatever happens, a client that is connected has read a response within
\* MaxMissed intervals, and a session a header before its deadline.
THEOREM SilenceEnds == KeepAliveSpec => []SilenceIsNoticed
<1>1. KeptIInv => SilenceIsNoticed
  <2> SUFFICES ASSUME KeptIInv PROVE SilenceIsNoticed
    OBVIOUS
  <2>1. Due \in Nat /\ quiet \in Nat
    BY DueType, Naturals DEF KeptIInv, KeepAliveTypeOK
  <2>2. MaxMissed * Interval \in Nat
    BY Naturals, Times
  <2>3. link = "up" => quiet + Due <= MaxMissed * Interval
    BY DEF KeptIInv, ClientWatches
  <2>4. link = "up" => quiet <= MaxMissed * Interval
    <3> HIDE DEF Due
    <3> QED BY <2>1, <2>2, <2>3
  <2> QED BY <2>4 DEF KeptIInv, SessionWatches, SilenceIsNoticed
<1> QED BY <1>1, KeptInvariance, PTL

\* The last miss is not counted on a connection that works.
LEMMA NotTheLast ==
    ASSUME KeptIInv, BeatDue, Sound, heard PROVE link' = "up"
<1>1. TimesOK
  BY DEF KeptIInv, KeepAliveTypeOK
<1>2. done = <<"due">> /\ wait = NoWait
  <2>1. <<>> # <<"aborted">> /\ <<"aborted">>[1] = "aborted" /\ Head(<<"aborted">>) = "aborted"
    OBVIOUS
  <2> QED BY <2>1 DEF BeatDue, KeptIInv, OneHandler
<1>3. SUFFICES ASSUME link' # "up" PROVE FALSE
  OBVIOUS
<1>4. missed + 1 >= MaxMissed
  BY <1>3 DEF BeatDue, Miss, Sound
<1>5. missed \in Nat /\ missed > 0 /\ MaxMissed - 1 <= missed
  <2>1. MaxMissed >= 2
    <3>1. CASE MaxMissed = 1
      <4>1. (MaxMissed - 1) * Interval = 0 /\ 2 * MaxDelay + MaxCalls * MaxBusy \in Nat
        <5>1. MaxCalls * MaxBusy \in Nat
          BY Naturals, Times
        <5> QED BY <3>1, <5>1, Naturals
      <4> QED BY <4>1, PromptAssumption
    <3> QED BY <3>1, Naturals
  <2>2. missed \in Nat
    BY <1>1, DueType
  <2> QED BY <1>4, <2>1, <2>2, Naturals
<1>6. (MaxMissed - 1) * Interval <= missed * Interval
  <2>1. MaxMissed - 1 \in Nat
    BY Naturals
  <2> QED BY <1>5, <2>1, Naturals, Times
<1>7. Elapsed = missed * Interval /\ missed * Interval \in Nat
  BY <1>1, <1>2, ElapsedType DEF Elapsed, Due
<1>8. Elapsed > Bound /\ Bound \in Nat
  <2>1. 2 * MaxDelay + MaxCalls * MaxBusy < (MaxMissed - 1) * Interval
    BY PromptAssumption
  <2>2. MaxCalls * MaxBusy \in Nat /\ (MaxMissed - 1) * Interval \in Int
    BY Naturals, Times
  <2> QED BY <1>6, <1>7, <2>1, <2>2, Naturals DEF Bound
<1>9. \/ down # <<>> /\ Elapsed + MaxDelay - down[1] <= Bound
      \/ \E b \in DOMAIN up : InTime(b)
  BY <1>5 DEF KeptIInv, Answering
<1>10. CASE down # <<>> /\ Elapsed + MaxDelay - down[1] <= Bound
  <2>1. down[1] \in 0..MaxDelay
    BY <1>1, <1>10, UpType, MessagesType
  <2> HIDE DEF Elapsed, Bound
  <2> QED BY <1>7, <1>8, <1>10, <2>1, Naturals
<1>11. ASSUME NEW b \in DOMAIN up, InTime(b) PROVE FALSE
  <2>1. /\ up[b].age \in 0..MaxDelay /\ function.left \in Nat /\ b \in Nat
        /\ up \in Seq(Messages)
    BY <1>1, UpType, FunctionType
  <2>2. MaxBusy * Ahead(up, b) \in Nat
    BY <2>1, BusyAhead
  <2>3. Elapsed + 2 * MaxDelay - up[b].age + function.left + MaxBusy * Ahead(up, b) <= Bound
    BY <1>11 DEF InTime
  <2> HIDE DEF Elapsed, Bound
  <2> QED BY <1>7, <1>8, <2>1, <2>2, <2>3, Naturals
<1> QED BY <1>9, <1>10, <1>11

\* A connection that works is kept by both ends, whatever the intervals, the
\* delays and the functions, as long as answers come soon enough.
THEOREM WorkingConnectionsLast == KeepAliveSpec => WorkingIsKept
<1>1. KeptIInv /\ [KeepAliveNext]_keepAliveVars =>
          [link = "up" /\ link' = "connecting" /\ heard /\ ~raced => net # "good"]_keepAliveVars
  <2> SUFFICES ASSUME KeptIInv, KeepAliveNext, Sound, heard, link' = "connecting"
               PROVE  FALSE
    BY DEF Sound
  <2>1. "up" # "connecting" /\ link = "up"
    BY DEF Sound
  <2>2. ~BeatDue
    BY <2>1, NotTheLast
  <2>3. /\ Head(<<"due">>) = "due" /\ Head(<<"aborted">>) = "aborted"
        /\ "failed" # "due" /\ "failed" # "aborted" /\ "due" # "aborted"
    <3>1. <<"due">>[1] = "due" /\ <<"aborted">>[1] = "aborted"
      OBVIOUS
    <3> QED BY <3>1
  <2>4. ~OperationFailed
    BY <2>3 DEF OperationFailed, KeptIInv, OneHandler
  <2>5. ~BeatAborted
    <3>1. BeatAborted => answered
      BY <2>3 DEF BeatAborted, KeptIInv, OneHandler
    <3> QED BY <2>1, <3>1 DEF BeatAborted
  <2> QED BY <2>1, <2>2, <2>4, <2>5 DEF KeepAliveNext, Client, Session, World, Connects,
             BeatExpires, HeaderRead, Request, HeartbeatRead, RequestRead, FunctionReturns,
             CheckExpired, GoesSilent, Resets, Tick, client
<1> QED BY <1>1, KeptInvariance, PTL DEF KeepAliveSpec, WorkingIsKept

-----------------------------------------------------------------------------
(* WaitEvent *)

Waiting == {"lock", "test", "sleep", "asleep", "result"}

\* call_once: at most one thread is inside, and only while flag_ is taken;
\* nobody is past it before it is done.
OnlyOneConnects ==
    /\ \A u, v \in Users : upc[u] = "connect" /\ upc[v] = "connect" => u = v
    /\ \A u \in Users : upc[u] = "connect" => once = "taken"
    /\ \A u \in Users : upc[u] \in Waiting => once = "done"
    /\ starts = IF once = "done" THEN 1 ELSE 0

IInv == TypeOK /\ NoEarlyReturn /\ OnlyOneConnects

USE WaitEventAssumption

LEMMA InitIInv == Init => IInv
<1> SUFFICES ASSUME Init PROVE IInv
  OBVIOUS
<1>1. TypeOK
  <2>1. limit \in Nat /\ failures \in Nat /\ starts \in 0..1
    BY DEF Init, DefaultLimit
  <2> QED BY <2>1 DEF Init, TypeOK, UserStates, RunStates
<1>2. NoEarlyReturn /\ OnlyOneConnects
  BY DEF Init, NoEarlyReturn, OnlyOneConnects, Waiting
<1> QED BY <1>1, <1>2 DEF IInv

\* What happens to the mutex, the answers and the program counters.
LEMMA UserStep ==
    ASSUME IInv, NEW u \in Users, User(u) \/ WakesSpuriously(u)
    PROVE  IInv'
<1> USE DEF IInv, UserStates, Waiting, Goes, engine
<1>1. CASE AlreadyReady(u)
  BY <1>1 DEF AlreadyReady, TypeOK, NoEarlyReturn, OnlyOneConnects
<1>2. CASE NotReady(u)
  BY <1>2 DEF NotReady, TypeOK, NoEarlyReturn, OnlyOneConnects
<1>3. CASE OnceTaken(u)
  BY <1>3 DEF OnceTaken, TypeOK, NoEarlyReturn, OnlyOneConnects
<1>4. CASE StartConnect(u)
  <2>1. TypeOK'
    BY <1>4 DEF StartConnect, TypeOK, OnlyOneConnects, RunStates, DefaultTimeout
  <2>2. NoEarlyReturn' /\ OnlyOneConnects'
    BY <1>4 DEF StartConnect, TypeOK, NoEarlyReturn, OnlyOneConnects
  <2> QED BY <2>1, <2>2
<1>5. CASE OnceDone(u)
  BY <1>5 DEF OnceDone, TypeOK, NoEarlyReturn, OnlyOneConnects
<1>6. CASE Lock(u)
  BY <1>6 DEF Lock, TypeOK, NoEarlyReturn, OnlyOneConnects
<1>7. CASE TestTrue(u)
  BY <1>7 DEF TestTrue, TypeOK, NoEarlyReturn, OnlyOneConnects
<1>8. CASE TestFalse(u)
  BY <1>8 DEF TestFalse, TypeOK, NoEarlyReturn, OnlyOneConnects
<1>9. CASE Sleep(u)
  BY <1>9 DEF Sleep, TypeOK, NoEarlyReturn, OnlyOneConnects
<1>10. CASE Return(u)
  BY <1>10 DEF Return, TypeOK, NoEarlyReturn, OnlyOneConnects
<1>11. CASE WakesSpuriously(u)
  BY <1>11 DEF WakesSpuriously, TypeOK, NoEarlyReturn, OnlyOneConnects
<1> QED
  BY <1>1, <1>2, <1>3, <1>4, <1>5, <1>6, <1>7, <1>8, <1>9, <1>10, <1>11 DEF User

\* The run thread: stop_ is never reset, and a notification sends threads
\* back to their test.
LEMMA RunStep ==
    ASSUME IInv, Run \/ Lost
    PROVE  IInv'
<1> USE DEF IInv, RunGoes, user, RunStates
<1>1. CASE Succeeds
  BY <1>1 DEF Succeeds, TypeOK, NoEarlyReturn, OnlyOneConnects
<1>2. CASE FailsAgain
  <2>1. failures' \in Nat
    BY <1>2 DEF FailsAgain, TypeOK
  <2>2. TypeOK'
    BY <1>2, <2>1 DEF FailsAgain, TypeOK
  <2>3. NoEarlyReturn' /\ OnlyOneConnects'
    BY <1>2 DEF FailsAgain, NoEarlyReturn, OnlyOneConnects
  <2> QED BY <2>2, <2>3
<1>3. CASE FailsForGood
  <2>1. failures' \in Nat
    BY <1>3 DEF FailsForGood, TypeOK
  <2>2. TypeOK'
    BY <1>3, <2>1 DEF FailsForGood, TypeOK
  <2>3. NoEarlyReturn' /\ OnlyOneConnects'
    BY <1>3 DEF FailsForGood, NoEarlyReturn, OnlyOneConnects
  <2> QED BY <2>2, <2>3
<1>4. ASSUME NEW from \in RunStates, NEW to \in RunStates, SetStop(from, to)
      PROVE  IInv'
  BY <1>4 DEF SetStop, TypeOK, NoEarlyReturn, OnlyOneConnects
<1>5. ASSUME NEW from \in RunStates, NEW to \in RunStates, NotifyAll(from, to)
      PROVE  IInv'
  BY <1>5 DEF NotifyAll, TypeOK, UserStates, NoEarlyReturn, OnlyOneConnects, Waiting
<1>6. CASE Lost
  BY <1>6 DEF Lost, TypeOK, NoEarlyReturn, OnlyOneConnects
<1> QED BY <1>1, <1>2, <1>3, <1>4, <1>5, <1>6 DEF Run

LEMMA NextIInv == IInv /\ [Next]_vars => IInv'
<1> SUFFICES ASSUME IInv, [Next]_vars PROVE IInv'
  OBVIOUS
<1>1. CASE Next
  BY <1>1, UserStep, RunStep DEF Next
<1>2. CASE UNCHANGED vars
  BY <1>2 DEF IInv, TypeOK, NoEarlyReturn, OnlyOneConnects, vars, user, engine
<1> QED BY <1>1, <1>2

LEMMA Invariance == Spec => []IInv
BY InitIInv, NextIInv, PTL DEF Spec

\* The variables have their types; ready() starts at most one connection.
THEOREM TypeCorrect == Spec => []TypeOK
<1>1. IInv => TypeOK
  BY DEF IInv
<1> QED BY <1>1, Invariance, PTL

\* However many threads call ready() and however they wake up, none of them
\* returns before connecting succeeded once or was given up.
THEOREM ReturnsWithOutcome == Spec => []NoEarlyReturn
<1>1. IInv => NoEarlyReturn
  BY DEF IInv
<1> QED BY <1>1, Invariance, PTL

\* A thread that waits is not the only one: the connection was begun, once.
THEOREM ConnectionBegun == Spec => []BegunBeforeWaiting
<1>1. IInv => BegunBeforeWaiting
  BY DEF IInv, OnlyOneConnects, BegunBeforeWaiting, Waiting
<1> QED BY <1>1, Invariance, PTL
=============================================================================
