--------------------------- MODULE SessionProofs ---------------------------
(***************************************************************************)
(* Theorems about Session, for a peer that sends any number of frames, and *)
(* about the Dispatcher it calls, for any threads, names and registrations.*)
(***************************************************************************)
EXTENDS Session, Dispatcher, SequenceTheorems, TLAPS

(***************************************************************************)
(* The inductive invariant.  The three properties need each other: that    *)
(* one write is in flight follows from NoStall, by which reply() finds the *)
(* queue empty exactly when no write is in flight; NoStall from            *)
(* OneReadOneWrite, by which a handler that runs was the only one; and     *)
(* RepliesInOrder from both.  Besides, a payload is read only for a header *)
(* that announced one, and nothing happens before Run.                     *)
(***************************************************************************)

Replies     == [id : Nat, code : Codes]
Counts      == [OpStates -> Nat]
SessionOps  == [Ops -> Counts]

TypeOK ==
    /\ phase \in {"accepted", "running", "terminated"}
    /\ open \in BOOLEAN
    /\ ops \in SessionOps
    /\ header \in [type : RequestTypes, id : Nat]
    /\ queue \in Seq(Replies) /\ owed \in Seq(Replies) /\ written \in Seq(Replies)
    /\ peer \in {"up", "gone"}
    /\ arrived \in 0..MaxFrames

\* Before Run nothing is in flight.
NothingBegun == phase = "accepted" => Reads = 0 /\ Outstanding(ops, "write") = 0 /\ queue = <<>>

\* The payload that is read is that of header_.
PayloadExpected == Outstanding(ops, "payload") > 0 => header.type \in {"request", "oneway"}

IInv == /\ TypeOK
        /\ NothingBegun
        /\ OneReadOneWrite
        /\ NoStall
        /\ PayloadExpected
        /\ RepliesInOrder

USE MaxFramesAssumption

-----------------------------------------------------------------------------
(* Lemmas about the operations: how many handlers of each there are, and   *)
(* how many of them hold a success.                                        *)

\* Starting an operation adds a handler of it.
LEMMA StartedCounts ==
    ASSUME NEW o \in SessionOps, NEW op \in Ops, NEW isOpen \in BOOLEAN
    PROVE  LET n == StartedOnSocket(o, op, isOpen)
           IN  /\ n \in SessionOps
               /\ Outstanding(n, op) = Outstanding(o, op) + 1
               /\ n[op]["ok"] = o[op]["ok"]
               /\ \A p \in Ops : p # op => n[p] = o[p]
<1>1. o[op] \in Counts
  BY DEF SessionOps
<1> QED BY <1>1 DEF StartedOnSocket, Outstanding, SessionOps, Counts, OpStates

\* Taking a handler from the queue removes it.
LEMMA TakenCounts ==
    ASSUME NEW o \in SessionOps, NEW op \in Ops, NEW result \in {"ok", "error"}, o[op][result] > 0
    PROVE  LET n == Taken(o, op, result)
           IN  /\ n \in SessionOps
               /\ Outstanding(n, op) = Outstanding(o, op) - 1
               /\ n[op]["ok"] = IF result = "ok" THEN o[op]["ok"] - 1 ELSE o[op]["ok"]
               /\ \A p \in Ops : p # op => n[p] = o[p]
<1>1. o[op] \in Counts
  BY DEF SessionOps
<1> QED BY <1>1 DEF Taken, Outstanding, SessionOps, Counts, OpStates

\* An operation that finishes keeps its handler.
LEMMA FinishedCounts ==
    ASSUME NEW o \in SessionOps, NEW op \in Ops, NEW result \in {"ok", "error"}, o[op]["pending"] > 0
    PROVE  LET n == Finished(o, op, result)
           IN  /\ n \in SessionOps
               /\ Outstanding(n, op) = Outstanding(o, op)
               /\ n[op]["ok"] = IF result = "ok" THEN o[op]["ok"] + 1 ELSE o[op]["ok"]
               /\ \A p \in Ops : p # op => n[p] = o[p]
<1>1. o[op] \in Counts
  BY DEF SessionOps
<1> QED BY <1>1 DEF Finished, Outstanding, SessionOps, Counts, OpStates

\* Nor does aborting operations remove or add a handler.
LEMMA AbortedCounts ==
    ASSUME NEW o \in SessionOps, NEW which \in SUBSET Ops
    PROVE  LET n == Aborted(o, which)
           IN  /\ n \in SessionOps
               /\ \A p \in Ops : Outstanding(n, p) = Outstanding(o, p) /\ n[p]["ok"] = o[p]["ok"]
               /\ \A p \in Ops \ which : n[p] = o[p]
<1> DEFINE n == Aborted(o, which)
<1>1. DOMAIN o = Ops
  BY DEF SessionOps
<1>2. ASSUME NEW p \in Ops
      PROVE  /\ n[p] \in Counts
             /\ Outstanding(n, p) = Outstanding(o, p) /\ n[p]["ok"] = o[p]["ok"]
             /\ p \notin which => n[p] = o[p]
  <2>1. o[p] \in Counts
    BY DEF SessionOps
  <2>2. n[p] = IF p \in which
               THEN [o[p] EXCEPT !["pending"] = 0, !["error"] = @ + o[p]["pending"]]
               ELSE o[p]
    BY <1>1 DEF Aborted
  <2> HIDE DEF n
  <2> QED BY <2>1, <2>2 DEF Outstanding, Counts, OpStates
<1>3. n = [p \in Ops |-> n[p]]
  BY <1>1 DEF Aborted
<1> HIDE DEF n
<1>4. n \in SessionOps
  BY <1>2, <1>3 DEF SessionOps
<1> QED BY <1>2, <1>4 DEF n

\* do_check_heartbeat concerns the timer only.
LEMMA CheckRestartedCounts ==
    ASSUME NEW o \in SessionOps
    PROVE  LET n == CheckRestarted(o)
           IN  n \in SessionOps /\ \A p \in SocketOps : n[p] = o[p]
<1>1. /\ Aborted(o, {"check"}) \in SessionOps
      /\ \A p \in SocketOps : Aborted(o, {"check"})[p] = o[p]
  BY AbortedCounts DEF Ops, SocketOps
<1>2. \A a \in SessionOps : Started(a, "check") \in SessionOps
                            /\ \A p \in SocketOps : Started(a, "check")[p] = a[p]
  <2> SUFFICES ASSUME NEW a \in SessionOps
               PROVE  Started(a, "check") \in SessionOps
                      /\ \A p \in SocketOps : Started(a, "check")[p] = a[p]
    OBVIOUS
  <2>1. a["check"] \in Counts
    BY DEF SessionOps, Ops
  <2> QED BY <2>1 DEF Started, SessionOps, Counts, OpStates, Ops, SocketOps
<1> QED BY <1>1, <1>2 DEF CheckRestarted

-----------------------------------------------------------------------------
(* Lemmas about sequences of replies.                                      *)

\* A reply that is appended to what is unwritten is appended to the whole.
LEMMA AppendToConcat ==
    ASSUME NEW w \in Seq(Replies), NEW s \in Seq(Replies), NEW r \in Replies
    PROVE  w \o Append(s, r) = Append(w \o s, r)
<1>1. w \o Append(s, r) = w \o (s \o <<r>>) /\ Append(w \o s, r) = (w \o s) \o <<r>>
  BY AppendIsConcat, ConcatProperties
<1> QED BY <1>1, ConcatAssociative

\* Appending does not touch the front.
LEMMA TailOfAppend ==
    ASSUME NEW s \in Seq(Replies), s # <<>>, NEW r \in Replies
    PROVE  Tail(Append(s, r)) = Append(Tail(s), r)
OBVIOUS

\* The front one of the unwritten replies becomes the last written one.
LEMMA HeadMoves ==
    ASSUME NEW w \in Seq(Replies), NEW s \in Seq(Replies), s # <<>>
    PROVE  Append(w, Head(s)) \o Tail(s) = w \o s
<1>1. Head(s) \in Replies /\ Tail(s) \in Seq(Replies)
  BY HeadTailProperties
<1>2. <<Head(s)>> \o Tail(s) = s
  BY <1>1
<1>3. Append(w, Head(s)) = w \o <<Head(s)>>
  BY <1>1, AppendIsConcat
<1> QED BY <1>1, <1>2, <1>3, ConcatAssociative

\* A queue is empty before a reply is put into it, or not.
LEMMA FirstReply ==
    ASSUME NEW q \in Seq(Replies), NEW r \in Replies
    PROVE  /\ Append(q, r) \in Seq(Replies) /\ Append(q, r) # <<>>
           /\ IsFirst(Append(q, r)) <=> q = <<>>
<1>1. /\ Append(q, r) \in Seq(Replies) /\ Append(q, r) # <<>>
      /\ Len(Append(q, r)) = Len(q) + 1 /\ Len(q) \in Nat
  BY AppendProperties
<1> QED BY <1>1, EmptySeq DEF IsFirst

-----------------------------------------------------------------------------

LEMMA InitIInv == Init => IInv
<1> SUFFICES ASSUME Init PROVE IInv
  OBVIOUS
<1>1. \A op \in Ops : Outstanding(ops, op) = 0 /\ ops[op]["ok"] = 0
  BY DEF Init, Outstanding, NoOp, OpStates
<1>2. TypeOK
  BY DEF Init, TypeOK, SessionOps, Counts, NoOp, OpStates, RequestTypes
<1>3. NothingBegun /\ OneReadOneWrite /\ NoStall /\ PayloadExpected
  BY <1>1 DEF Init, NothingBegun, OneReadOneWrite, NoStall, PayloadExpected, Reads, Ops, SocketOps
<1>4. RepliesInOrder
  BY <1>1 DEF Init, RepliesInOrder, Unwritten, Ops, SocketOps
<1> QED BY <1>2, <1>3, <1>4 DEF IInv

\* What the operations count.
LEMMA CountsOfOps ==
    ASSUME TypeOK, NEW op \in Ops
    PROVE  /\ ops[op]["pending"] \in Nat /\ ops[op]["ok"] \in Nat /\ ops[op]["error"] \in Nat
           /\ Outstanding(ops, op) = ops[op]["pending"] + ops[op]["ok"] + ops[op]["error"]
BY DEF TypeOK, SessionOps, Counts, OpStates, Outstanding

\* Steps that do not write: the replies stay as they are.
LEMMA WriteUntouched ==
    ASSUME IInv, ops' \in SessionOps, UNCHANGED <<queue, owed, written, open>>,
           ops'["write"] = ops["write"]
    PROVE  /\ Outstanding(ops', "write") = Outstanding(ops, "write")
           /\ NoStall' /\ RepliesInOrder'
BY DEF IInv, NoStall, RepliesInOrder, Unwritten, Outstanding

\* reply(): whether it starts the write or finds one in flight, one write is
\* in flight, and the reply is the last one.
LEMMA ReplyStep ==
    ASSUME IInv, NEW id \in Nat, NEW code \in Codes, NEW o \in SessionOps, o["write"] = ops["write"],
           Reply(id, code, o), Owe(id, code), UNCHANGED <<open, written>>
    PROVE  /\ queue' \in Seq(Replies) /\ owed' \in Seq(Replies)
           /\ ops' \in SessionOps /\ \A op \in Ops \ {"write"} : ops'[op] = o[op]
           /\ Outstanding(ops', "write") = 1 \/ ~open'
           /\ Outstanding(ops', "write") <= 1
           /\ queue' # <<>>
           /\ RepliesInOrder'
<1> DEFINE r == [id |-> id, code |-> code]
           q == Append(queue, r)
<1>1. /\ r \in Replies /\ queue \in Seq(Replies) /\ owed \in Seq(Replies) /\ written \in Seq(Replies)
      /\ q \in Seq(Replies) /\ q # <<>> /\ (IsFirst(q) <=> queue = <<>>)
      /\ owed' = Append(owed, r) /\ owed' \in Seq(Replies)
  BY FirstReply DEF IInv, TypeOK, Replies, Owe
<1>2. "write" \in Ops /\ ops["write"]["ok"] \in Nat
      /\ Outstanding(ops, "write") \in Nat /\ Outstanding(o, "write") = Outstanding(ops, "write")
      /\ ops["write"]["ok"] <= Outstanding(ops, "write")
  BY CountsOfOps DEF Ops, SocketOps, IInv, Outstanding
<1>3. CASE queue = <<>>
  <2>1. queue' = q /\ ops' = StartedOnSocket(o, "write", open)
    BY <1>1, <1>3 DEF Reply, DoWrite
  <2>2. Outstanding(ops, "write") = 0 /\ ops["write"]["ok"] = 0
    BY <1>2, <1>3 DEF IInv, NoStall
  <2>3. /\ ops' \in SessionOps
        /\ Outstanding(ops', "write") = 1 /\ ops'["write"]["ok"] = 0
        /\ \A op \in Ops \ {"write"} : ops'[op] = o[op]
    BY <1>2, <2>1, <2>2, StartedCounts DEF IInv, TypeOK
  <2>4. owed = written
    BY <1>1, <1>3, <2>2 DEF IInv, RepliesInOrder, Unwritten
  <2>5. Unwritten' = q /\ q = Append(<<>>, r)
    BY <1>3, <2>1, <2>3 DEF Unwritten
  <2>6. written \o Append(<<>>, r) = Append(written \o <<>>, r) /\ written \o <<>> = written
    BY <1>1, AppendToConcat
  <2> QED BY <1>1, <2>1, <2>3, <2>4, <2>5, <2>6 DEF RepliesInOrder
<1>4. CASE queue # <<>>
  <2>1. queue' = q /\ ops' = o
    BY <1>1, <1>4 DEF Reply
  <2>2. Outstanding(ops', "write") <= 1 /\ (Outstanding(ops', "write") = 1 \/ ~open')
    BY <1>2, <1>4, <2>1 DEF IInv, NoStall, OneReadOneWrite
  <2>3. Unwritten \in Seq(Replies) /\ Unwritten' = Append(Unwritten, r)
    BY <1>1, <1>4, <2>1, TailOfAppend, HeadTailProperties DEF Unwritten
  <2>4. RepliesInOrder'
    BY <1>1, <2>3, AppendToConcat DEF IInv, RepliesInOrder
  <2> QED BY <1>1, <2>1, <2>2, <2>4
<1> QED BY <1>3, <1>4

-----------------------------------------------------------------------------
(* The handlers.                                                           *)

\* A read that is started is one more.
LEMMA ReadingCounts ==
    ASSUME IInv, NEW o \in SessionOps, NEW op \in {"match", "header", "payload"}
    PROVE  LET n == StartedOnSocket(o, op, open)
           IN  /\ n \in SessionOps
               /\ Outstanding(n, op) = Outstanding(o, op) + 1
               /\ \A p \in Ops : p # op => n[p] = o[p]
<1>1. op \in Ops /\ open \in BOOLEAN
  BY DEF IInv, TypeOK, Ops, SocketOps
<1> QED BY <1>1, StartedCounts

\* A handler that runs is the only one of its kind, and no other read is in
\* flight.
LEMMA OnlyRead ==
    ASSUME IInv, NEW op \in {"match", "header", "payload"}, ops[op]["ok"] > 0
    PROVE  /\ Outstanding(ops, op) = 1
           /\ \A p \in {"match", "header", "payload"} \ {op} : Outstanding(ops, p) = 0
<1>1. \A p \in {"match", "header", "payload"} :
          Outstanding(ops, p) \in Nat /\ (ops[p]["ok"] > 0 => Outstanding(ops, p) > 0)
  BY CountsOfOps DEF IInv, Ops, SocketOps
<1> QED BY <1>1 DEF IInv, OneReadOneWrite, Reads

LEMMA RunStep == ASSUME IInv, Run PROVE IInv'
<1> DEFINE o == CheckRestarted(ops)
<1>1. /\ o \in SessionOps /\ \A p \in SocketOps : o[p] = ops[p]
      /\ ops' = StartedOnSocket(o, "match", open)
      /\ phase' = "running" /\ UNCHANGED <<open, header, queue, channel, owed, written>>
  BY CheckRestartedCounts DEF Run, IInv, TypeOK, Reading
<1>2. \A p \in {"match", "header", "payload", "write"} : Outstanding(ops, p) = 0
  <2>1. \A p \in {"match", "header", "payload", "write"} : Outstanding(ops, p) \in Nat
    BY CountsOfOps DEF IInv, Ops, SocketOps
  <2>2. Reads = 0 /\ Outstanding(ops, "write") = 0
    BY DEF Run, IInv, NothingBegun
  <2>3. Outstanding(ops, "match") \in Nat /\ Outstanding(ops, "header") \in Nat
        /\ Outstanding(ops, "payload") \in Nat
    BY <2>1
  <2>4. Outstanding(ops, "match") + Outstanding(ops, "header") + Outstanding(ops, "payload") = 0
    BY <2>2 DEF Reads
  <2>5. Outstanding(ops, "match") = 0 /\ Outstanding(ops, "header") = 0 /\ Outstanding(ops, "payload") = 0
    BY <2>3, <2>4
  <2> QED BY <2>2, <2>5
<1> HIDE DEF o
<1>3. /\ ops' \in SessionOps
      /\ Outstanding(ops', "match") = 1
      /\ \A p \in SocketOps \ {"match"} : ops'[p] = ops[p]
  <2>1. Outstanding(o, "match") = 0
    BY <1>1, <1>2 DEF Outstanding, SocketOps
  <2>2. ops' \in SessionOps
    BY <1>1, ReadingCounts
  <2>3. Outstanding(ops', "match") = Outstanding(o, "match") + 1
    BY <1>1, ReadingCounts
  <2>4. \A p \in Ops : p # "match" => ops'[p] = o[p]
    BY <1>1, ReadingCounts
  <2> QED BY <1>1, <2>1, <2>2, <2>3, <2>4 DEF Ops, SocketOps
<1>4. \A p \in {"header", "payload", "write"} : Outstanding(ops', p) = 0
  BY <1>2, <1>3 DEF Outstanding, SocketOps
<1>5. TypeOK' /\ NothingBegun'
  BY <1>1, <1>3 DEF IInv, TypeOK, NothingBegun, channel
<1>6. OneReadOneWrite' /\ PayloadExpected'
  BY <1>3, <1>4 DEF OneReadOneWrite, Reads, PayloadExpected
<1>7. NoStall' /\ RepliesInOrder'
  BY <1>1, <1>3, WriteUntouched DEF SocketOps
<1> QED BY <1>5, <1>6, <1>7 DEF IInv

LEMMA MatchReadStep == ASSUME IInv, NEW matches \in BOOLEAN, MatchRead(matches) PROVE IInv'
<1> DEFINE o == Rest("match", "ok")
<1>1. /\ o \in SessionOps /\ Outstanding(o, "match") = 0
      /\ \A p \in Ops \ {"match"} : o[p] = ops[p]
  BY TakenCounts, OnlyRead DEF MatchRead, Takes, Rest, IInv, TypeOK, Ops, SocketOps
<1>2. /\ ops' = IF matches THEN StartedOnSocket(o, "header", open) ELSE o
      /\ phase' = "running" /\ UNCHANGED <<open, header, queue, channel, owed, written>>
  BY DEF MatchRead, Takes, Reading
<1> HIDE DEF o
<1>3. Outstanding(o, "header") = 0 /\ Outstanding(o, "payload") = 0
  BY <1>1, OnlyRead DEF MatchRead, Takes, Outstanding, Ops, SocketOps
<1>4. /\ ops' \in SessionOps
      /\ Outstanding(ops', "header") \in 0..1
      /\ \A p \in Ops : p # "header" => ops'[p] = o[p]
  <2>1. CASE matches
    <3>1. ops' = StartedOnSocket(o, "header", open)
      BY <1>2, <2>1
    <3>2. /\ ops' \in SessionOps /\ Outstanding(ops', "header") = Outstanding(o, "header") + 1
          /\ \A p \in Ops : p # "header" => ops'[p] = o[p]
      BY <1>1, <3>1, ReadingCounts
    <3> QED BY <1>3, <3>2
  <2>2. CASE ~matches
    BY <1>1, <1>2, <1>3, <2>2
  <2> QED BY <2>1, <2>2
<1>5. /\ Outstanding(ops', "match") = 0 /\ Outstanding(ops', "payload") = 0
      /\ ops'["write"] = ops["write"]
  BY <1>1, <1>3, <1>4 DEF Outstanding, Ops, SocketOps
<1>6. TypeOK' /\ NothingBegun'
  BY <1>2, <1>4 DEF IInv, TypeOK, NothingBegun, channel
<1>7. NoStall' /\ RepliesInOrder' /\ Outstanding(ops', "write") = Outstanding(ops, "write")
  BY <1>2, <1>4, <1>5, WriteUntouched
<1>8. OneReadOneWrite' /\ PayloadExpected'
  BY <1>4, <1>5, <1>7 DEF IInv, OneReadOneWrite, Reads, PayloadExpected
<1> QED BY <1>6, <1>7, <1>8 DEF IInv

\* What a handler of do_read_header leaves before it replies or reads on.
LEMMA HeaderTaken ==
    ASSUME IInv, ops["header"]["ok"] > 0
    PROVE  LET o == CheckRestarted(Rest("header", "ok"))
           IN  /\ o \in SessionOps /\ o["write"] = ops["write"]
               /\ \A p \in {"match", "header", "payload"} : Outstanding(o, p) = 0
<1> DEFINE t == Rest("header", "ok")
<1>1. /\ t \in SessionOps /\ Outstanding(t, "header") = 0
      /\ \A p \in Ops \ {"header"} : t[p] = ops[p]
  BY TakenCounts, OnlyRead DEF Rest, IInv, TypeOK, Ops, SocketOps
<1> HIDE DEF t
<1>2. Outstanding(t, "match") = 0 /\ Outstanding(t, "payload") = 0 /\ t["write"] = ops["write"]
  BY <1>1, OnlyRead DEF Outstanding, Ops, SocketOps
<1>3. CheckRestarted(t) \in SessionOps /\ \A p \in SocketOps : CheckRestarted(t)[p] = t[p]
  BY <1>1, CheckRestartedCounts
<1> QED BY <1>1, <1>2, <1>3 DEF Outstanding, SocketOps, t

LEMMA RequestReadStep ==
    ASSUME IInv, UnknownRead \/ \E type \in {"request", "oneway"} : RequestRead(type)
    PROVE  IInv'
<1> DEFINE o == CheckRestarted(Rest("header", "ok"))
<1>1. /\ o \in SessionOps /\ o["write"] = ops["write"]
      /\ \A p \in {"match", "header", "payload"} : Outstanding(o, p) = 0
  BY HeaderTaken DEF UnknownRead, RequestRead, Takes
<1>2. PICK type \in {"unknown", "request", "oneway"} :
          /\ ops' = IF type = "unknown" THEN o ELSE StartedOnSocket(o, "payload", open)
          /\ header' = [type |-> type, id |-> arrived]
          /\ phase' = "running" /\ UNCHANGED <<open, queue, channel, owed, written>>
  BY DEF UnknownRead, RequestRead, Takes, Reading
<1> HIDE DEF o
<1>3. /\ ops' \in SessionOps
      /\ Outstanding(ops', "payload") = IF type = "unknown" THEN 0 ELSE 1
      /\ \A p \in Ops : p # "payload" => ops'[p] = o[p]
  <2>1. CASE type = "unknown"
    BY <1>1, <1>2, <2>1
  <2>2. CASE type # "unknown"
    <3>1. ops' = StartedOnSocket(o, "payload", open)
      BY <1>2, <2>2
    <3>2. /\ ops' \in SessionOps /\ Outstanding(ops', "payload") = Outstanding(o, "payload") + 1
          /\ \A p \in Ops : p # "payload" => ops'[p] = o[p]
      BY <1>1, <3>1, ReadingCounts
    <3> QED BY <1>1, <2>2, <3>2
  <2> QED BY <2>1, <2>2
<1>4. /\ Outstanding(ops', "match") = 0 /\ Outstanding(ops', "header") = 0
      /\ ops'["write"] = ops["write"]
  BY <1>1, <1>3 DEF Outstanding, Ops, SocketOps
<1>5. header' \in [type : RequestTypes, id : Nat]
  BY <1>2 DEF IInv, TypeOK, RequestTypes
<1>6. TypeOK' /\ NothingBegun'
  BY <1>2, <1>3, <1>5 DEF IInv, TypeOK, NothingBegun, channel
<1>7. NoStall' /\ RepliesInOrder' /\ Outstanding(ops', "write") = Outstanding(ops, "write")
  BY <1>2, <1>3, <1>4, WriteUntouched
<1>8. OneReadOneWrite' /\ PayloadExpected'
  BY <1>2, <1>3, <1>4, <1>7 DEF IInv, OneReadOneWrite, Reads, PayloadExpected
<1> QED BY <1>6, <1>7, <1>8 DEF IInv

LEMMA HeartbeatReadStep == ASSUME IInv, HeartbeatRead PROVE IInv'
<1> DEFINE o == CheckRestarted(Rest("header", "ok"))
           m == StartedOnSocket(o, "match", open)
<1>1. /\ o \in SessionOps /\ o["write"] = ops["write"]
      /\ \A p \in {"match", "header", "payload"} : Outstanding(o, p) = 0
  BY HeaderTaken DEF HeartbeatRead, Takes
<1>2. /\ Reply(arrived, "success", m) /\ Owe(arrived, "success")
      /\ header' = [type |-> "heartbeat", id |-> arrived]
      /\ phase' = "running" /\ UNCHANGED <<open, channel, written>>
  BY DEF HeartbeatRead, Takes, Reading
<1> HIDE DEF o
<1>3. /\ m \in SessionOps /\ Outstanding(m, "match") = 1
      /\ \A p \in Ops : p # "match" => m[p] = o[p]
  BY <1>1, ReadingCounts
<1> HIDE DEF m
<1>4. arrived \in Nat /\ "success" \in Codes /\ m["write"] = ops["write"]
  BY <1>1, <1>3 DEF IInv, TypeOK, Codes, Ops, SocketOps
<1>5. /\ queue' \in Seq(Replies) /\ owed' \in Seq(Replies) /\ queue' # <<>>
      /\ ops' \in SessionOps /\ \A op \in Ops \ {"write"} : ops'[op] = m[op]
      /\ Outstanding(ops', "write") = 1 \/ ~open'
      /\ Outstanding(ops', "write") <= 1
      /\ RepliesInOrder'
  BY <1>2, <1>3, <1>4, ReplyStep
<1>6. /\ Outstanding(ops', "match") = 1
      /\ Outstanding(ops', "header") = 0 /\ Outstanding(ops', "payload") = 0
  BY <1>1, <1>3, <1>5 DEF Outstanding, Ops, SocketOps
<1>7. TypeOK' /\ NothingBegun'
  BY <1>2, <1>4, <1>5 DEF IInv, TypeOK, NothingBegun, channel, RequestTypes
<1>8. OneReadOneWrite' /\ NoStall' /\ PayloadExpected'
  BY <1>5, <1>6 DEF OneReadOneWrite, NoStall, Reads, PayloadExpected
<1> QED BY <1>5, <1>7, <1>8 DEF IInv

LEMMA PayloadReadStep == ASSUME IInv, NEW code \in Codes, PayloadRead(code) PROVE IInv'
<1> DEFINE o == Rest("payload", "ok")
           m == StartedOnSocket(o, "match", open)
<1>1. /\ o \in SessionOps /\ Outstanding(o, "payload") = 0
      /\ \A p \in Ops \ {"payload"} : o[p] = ops[p]
  BY TakenCounts, OnlyRead DEF PayloadRead, Takes, Rest, IInv, TypeOK, Ops, SocketOps
<1>2. /\ IF header.type = "oneway" THEN queue' = queue /\ ops' = m ELSE Reply(header.id, code, m)
      /\ IF header.type = "request" THEN Owe(header.id, code) ELSE UNCHANGED owed
      /\ phase' = "running" /\ UNCHANGED <<open, header, channel, written>>
  BY DEF PayloadRead, Takes, Reading, Suppressed
<1> HIDE DEF o
<1>3. Outstanding(o, "match") = 0 /\ Outstanding(o, "header") = 0
  BY <1>1, OnlyRead DEF PayloadRead, Takes, Outstanding, Ops, SocketOps
<1>4. /\ m \in SessionOps /\ Outstanding(m, "match") = 1
      /\ \A p \in Ops : p # "match" => m[p] = o[p]
  BY <1>1, <1>3, ReadingCounts
<1> HIDE DEF m
<1>5. header.type \in {"request", "oneway"}
  BY OnlyRead DEF IInv, PayloadExpected, PayloadRead, Takes
<1>6. header.id \in Nat /\ m["write"] = ops["write"]
  BY <1>1, <1>4 DEF IInv, TypeOK, Ops, SocketOps
<1>7. /\ queue' \in Seq(Replies) /\ owed' \in Seq(Replies)
      /\ ops' \in SessionOps /\ \A op \in Ops \ {"write"} : ops'[op] = m[op]
      /\ Outstanding(ops', "write") <= 1
      /\ NoStall' /\ RepliesInOrder'
  <2>1. CASE header.type = "oneway"
    <3>1. ops' = m /\ UNCHANGED <<queue, owed, written, open>>
      BY <1>2, <2>1
    <3>2. NoStall' /\ RepliesInOrder' /\ Outstanding(ops', "write") = Outstanding(ops, "write")
      BY <1>4, <1>6, <3>1, WriteUntouched
    <3> QED BY <1>4, <3>1, <3>2 DEF IInv, TypeOK, OneReadOneWrite
  <2>2. CASE header.type = "request"
    <3>1. Reply(header.id, code, m) /\ Owe(header.id, code) /\ UNCHANGED <<open, written>>
      BY <1>2, <2>2
    <3>2. /\ queue' \in Seq(Replies) /\ owed' \in Seq(Replies) /\ queue' # <<>>
          /\ ops' \in SessionOps /\ \A op \in Ops \ {"write"} : ops'[op] = m[op]
          /\ Outstanding(ops', "write") = 1 \/ ~open'
          /\ Outstanding(ops', "write") <= 1
          /\ RepliesInOrder'
      BY <1>4, <1>6, <3>1, ReplyStep
    <3> QED BY <3>2 DEF NoStall
  <2> QED BY <1>5, <2>1, <2>2
<1>8. /\ Outstanding(ops', "match") = 1
      /\ Outstanding(ops', "header") = 0 /\ Outstanding(ops', "payload") = 0
  BY <1>1, <1>3, <1>4, <1>7 DEF Outstanding, Ops, SocketOps
<1>9. TypeOK' /\ NothingBegun'
  BY <1>2, <1>7 DEF IInv, TypeOK, NothingBegun, channel
<1>10. OneReadOneWrite' /\ PayloadExpected'
  BY <1>7, <1>8 DEF OneReadOneWrite, Reads, PayloadExpected
<1> QED BY <1>7, <1>9, <1>10 DEF IInv

LEMMA FunctionThrowsStep == ASSUME IInv, FunctionThrows PROVE IInv'
BY DEF FunctionThrows, Takes, IInv, TypeOK, NothingBegun, OneReadOneWrite, Reads, NoStall,
   PayloadExpected, RepliesInOrder, Unwritten, channel

\* Handlers and events that close or fail: whatever handlers there are after
\* the step there were before, and a success of the write is not lost.
LEMMA FewerOperations ==
    ASSUME IInv, phase = "running", ops' \in SessionOps,
           \A p \in SocketOps : Outstanding(ops', p) <= Outstanding(ops, p),
           open' \in BOOLEAN, open' => open /\ Outstanding(ops', "write") = Outstanding(ops, "write"),
           ops'["write"]["ok"] = ops["write"]["ok"],
           arrived' \in 0..MaxFrames, peer' \in {"up", "gone"},
           UNCHANGED <<phase, header, queue, owed, written>>
    PROVE  IInv'
<1>1. \A p \in Ops : Outstanding(ops, p) \in Nat /\ Outstanding(ops', p) \in Nat
  <2> SUFFICES ASSUME NEW p \in Ops
               PROVE  Outstanding(ops, p) \in Nat /\ Outstanding(ops', p) \in Nat
    OBVIOUS
  <2>1. ops[p] \in Counts /\ ops'[p] \in Counts
    BY DEF IInv, TypeOK, SessionOps
  <2> QED BY <2>1 DEF Counts, OpStates, Outstanding
<1>2. TypeOK' /\ NothingBegun'
  BY DEF IInv, TypeOK, NothingBegun
<1>3. /\ Outstanding(ops', "match") <= Outstanding(ops, "match")
      /\ Outstanding(ops', "header") <= Outstanding(ops, "header")
      /\ Outstanding(ops', "payload") <= Outstanding(ops, "payload")
      /\ Outstanding(ops', "write") <= Outstanding(ops, "write")
  BY DEF SocketOps
<1>4. /\ Outstanding(ops, "match") \in Nat /\ Outstanding(ops', "match") \in Nat
      /\ Outstanding(ops, "header") \in Nat /\ Outstanding(ops', "header") \in Nat
      /\ Outstanding(ops, "payload") \in Nat /\ Outstanding(ops', "payload") \in Nat
      /\ Outstanding(ops, "write") \in Nat /\ Outstanding(ops', "write") \in Nat
  BY <1>1 DEF Ops, SocketOps
<1>5. OneReadOneWrite'
  BY <1>3, <1>4 DEF IInv, OneReadOneWrite, Reads
<1>6. NoStall'
  BY <1>3, <1>4 DEF IInv, NoStall
<1>7. PayloadExpected'
  BY <1>3, <1>4 DEF IInv, PayloadExpected
<1>8. RepliesInOrder'
  BY DEF IInv, RepliesInOrder, Unwritten
<1> QED BY <1>2, <1>5, <1>6, <1>7, <1>8 DEF IInv

LEMMA OperationFailedStep == ASSUME IInv, NEW op \in SocketOps, OperationFailed(op) PROVE IInv'
<1> DEFINE o == Rest(op, "error")
<1>1. op \in Ops /\ ops \in SessionOps /\ ops[op]["error"] > 0 /\ phase = "running"
  BY DEF OperationFailed, Takes, IInv, TypeOK, Ops
<1>2. /\ o \in SessionOps /\ Outstanding(o, op) = Outstanding(ops, op) - 1
      /\ o[op]["ok"] = ops[op]["ok"]
      /\ \A p \in Ops : p # op => o[p] = ops[p]
  BY <1>1, TakenCounts DEF Rest
<1>3. /\ ops' = Aborted(o, Ops) /\ open' = FALSE
      /\ UNCHANGED <<phase, header, queue, channel, owed, written>>
  BY DEF OperationFailed, Ops
<1> HIDE DEF o
<1>4. /\ ops' \in SessionOps
      /\ \A p \in Ops : Outstanding(ops', p) = Outstanding(o, p) /\ ops'[p]["ok"] = o[p]["ok"]
  BY <1>2, <1>3, AbortedCounts
<1>5. \A p \in Ops : Outstanding(o, p) <= Outstanding(ops, p) /\ o[p]["ok"] = ops[p]["ok"]
  <2> SUFFICES ASSUME NEW p \in Ops
               PROVE  Outstanding(o, p) <= Outstanding(ops, p) /\ o[p]["ok"] = ops[p]["ok"]
    OBVIOUS
  <2>1. Outstanding(ops, p) \in Nat
    BY CountsOfOps DEF IInv
  <2>2. CASE p = op
    BY <1>2, <2>1, <2>2
  <2>3. CASE p # op
    BY <1>2, <2>1, <2>3 DEF Outstanding
  <2> QED BY <2>2, <2>3
<1>6. /\ \A p \in SocketOps : Outstanding(ops', p) <= Outstanding(ops, p)
      /\ ops'["write"]["ok"] = ops["write"]["ok"]
  BY <1>4, <1>5 DEF Ops, SocketOps
<1>7. arrived' \in 0..MaxFrames /\ peer' \in {"up", "gone"}
  BY <1>3 DEF IInv, TypeOK, channel
<1> QED BY <1>1, <1>3, <1>4, <1>6, <1>7, FewerOperations

LEMMA CheckStep == ASSUME IInv, CheckExpired \/ CheckCancelled PROVE IInv'
<1>1. PICK result \in {"ok", "error"} :
          /\ ops["check"][result] > 0 /\ phase = "running"
          /\ \/ open' = FALSE /\ ops' = Aborted(Rest("check", result), SocketOps)
             \/ open' = open /\ ops' = Rest("check", result)
          /\ UNCHANGED <<phase, header, queue, channel, owed, written>>
  BY DEF CheckExpired, CheckCancelled, Takes
<1> DEFINE o == Rest("check", result)
<1>2. "check" \in Ops /\ ops \in SessionOps
  BY DEF IInv, TypeOK, Ops
<1>3. o \in SessionOps /\ \A p \in Ops : p # "check" => o[p] = ops[p]
  BY <1>1, <1>2, TakenCounts DEF Rest
<1>4. \/ open' = FALSE /\ ops' = Aborted(o, SocketOps)
      \/ open' = open /\ ops' = o
  BY <1>1
<1> HIDE DEF o
<1>5. /\ ops' \in SessionOps
      /\ \A p \in Ops : Outstanding(ops', p) = Outstanding(o, p) /\ ops'[p]["ok"] = o[p]["ok"]
  BY <1>3, <1>4, AbortedCounts DEF Ops
<1>6. \A p \in SocketOps : Outstanding(ops', p) = Outstanding(ops, p) /\ Outstanding(ops, p) \in Nat
  BY <1>3, <1>5, CountsOfOps DEF Outstanding, Ops, SocketOps, IInv
<1>7. "write" \in SocketOps /\ ops'["write"]["ok"] = ops["write"]["ok"]
  BY <1>3, <1>5 DEF Ops, SocketOps
<1>8. \A p \in SocketOps : Outstanding(ops', p) <= Outstanding(ops, p)
  BY <1>6
<1>9. arrived' \in 0..MaxFrames /\ peer' \in {"up", "gone"} /\ open' \in BOOLEAN /\ (open' => open)
  <2>1. open \in BOOLEAN /\ (open' = FALSE \/ open' = open)
    BY <1>4 DEF IInv, TypeOK
  <2>2. arrived' \in 0..MaxFrames /\ peer' \in {"up", "gone"}
    BY <1>1 DEF IInv, TypeOK, channel
  <2>3. open' \in BOOLEAN /\ (open' => open)
    <3>1. CASE open' = FALSE
      BY <3>1
    <3>2. CASE open' = open
      BY <2>1, <3>2
    <3> QED BY <2>1, <3>1, <3>2
  <2> QED BY <2>2, <2>3
<1> QED BY <1>1, <1>5, <1>6, <1>7, <1>8, <1>9, FewerOperations

\* The front response is removed, the next one written.
LEMMA ResponseWrittenStep == ASSUME IInv, ResponseWritten PROVE IInv'
<1> DEFINE q == Tail(queue)
           o == Rest("write", "ok")
<1>1. "write" \in Ops /\ ops \in SessionOps /\ ops["write"]["ok"] > 0 /\ phase = "running"
  BY DEF ResponseWritten, Takes, IInv, TypeOK, Ops, SocketOps
<1>2. /\ Outstanding(ops, "write") = 1 /\ ops["write"]["ok"] = 1 /\ queue # <<>>
  BY <1>1, CountsOfOps DEF IInv, OneReadOneWrite, NoStall
<1>3. /\ o \in SessionOps /\ Outstanding(o, "write") = 0 /\ o["write"]["ok"] = 0
      /\ \A p \in Ops : p # "write" => o[p] = ops[p]
  BY <1>1, <1>2, TakenCounts DEF Rest
<1>4. q \in Seq(Replies) /\ Unwritten = q
  BY <1>1, <1>2, HeadTailProperties DEF IInv, TypeOK, Unwritten
<1>5. /\ queue' = q /\ UNCHANGED <<phase, open, header, channel, owed, written>>
      /\ IF q # <<>> THEN ops' = StartedOnSocket(o, "write", open) ELSE ops' = o
  BY DEF ResponseWritten, MoreToWrite, DoWrite
<1> HIDE DEF q, o
<1>6. /\ ops' \in SessionOps /\ ops'["write"]["ok"] = 0
      /\ Outstanding(ops', "write") = IF q # <<>> THEN 1 ELSE 0
      /\ \A p \in Ops : p # "write" => ops'[p] = o[p]
  <2>1. CASE q # <<>>
    <3>1. ops' = StartedOnSocket(o, "write", open) /\ open \in BOOLEAN
      BY <1>5, <2>1 DEF IInv, TypeOK
    <3>2. /\ ops' \in SessionOps /\ Outstanding(ops', "write") = Outstanding(o, "write") + 1
          /\ ops'["write"]["ok"] = o["write"]["ok"]
          /\ \A p \in Ops : p # "write" => ops'[p] = o[p]
      BY <1>1, <1>3, <3>1, StartedCounts
    <3> QED BY <1>3, <2>1, <3>2
  <2>2. CASE q = <<>>
    BY <1>3, <1>5, <2>2
  <2> QED BY <2>1, <2>2
<1>7. TypeOK' /\ NothingBegun'
  BY <1>1, <1>4, <1>5, <1>6 DEF IInv, TypeOK, NothingBegun, channel
<1>8. \A p \in {"match", "header", "payload"} : ops'[p] = ops[p]
  BY <1>3, <1>6 DEF Ops, SocketOps
<1>9. OneReadOneWrite' /\ PayloadExpected' /\ NoStall'
  BY <1>5, <1>6, <1>8
     DEF IInv, OneReadOneWrite, Reads, PayloadExpected, NoStall, Outstanding
<1>10. Unwritten' = q
  BY <1>5, <1>6 DEF Unwritten
<1>11. RepliesInOrder'
  BY <1>4, <1>5, <1>10 DEF IInv, RepliesInOrder
<1> QED BY <1>7, <1>9, <1>11 DEF IInv

-----------------------------------------------------------------------------
(* The world.                                                              *)

\* What finishes, or fails with the connection, other than a success of the
\* write.
LEMMA FinishedStep ==
    ASSUME IInv, FrameBegins \/ (\E op \in {"header", "payload"} : RestArrives(op))
                 \/ (\E op \in SocketOps : ConnectionFails(op)) \/ DeadlinePasses
    PROVE  IInv'
<1>1. PICK op \in Ops, result \in {"ok", "error"} :
          /\ ops[op]["pending"] > 0 /\ phase = "running"
          /\ ops' = Finished(ops, op, result)
          /\ op = "write" => result = "error"
          /\ UNCHANGED <<phase, open, header, queue, peer, owed, written>>
          /\ arrived' \in 0..MaxFrames
  BY DEF FrameBegins, RestArrives, ConnectionFails, DeadlinePasses, Pending, Ops, SocketOps,
         channel, IInv, TypeOK
<1>2. ops \in SessionOps /\ open \in BOOLEAN /\ peer \in {"up", "gone"}
  BY DEF IInv, TypeOK
<1>3. /\ ops' \in SessionOps /\ Outstanding(ops', op) = Outstanding(ops, op)
      /\ ops'[op]["ok"] = IF result = "ok" THEN ops[op]["ok"] + 1 ELSE ops[op]["ok"]
      /\ \A p \in Ops : p # op => ops'[p] = ops[p]
  BY <1>1, <1>2, FinishedCounts
<1>4. \A p \in Ops : Outstanding(ops', p) = Outstanding(ops, p) /\ Outstanding(ops, p) \in Nat
  BY <1>3, CountsOfOps DEF Outstanding, IInv
<1>5. "write" \in Ops /\ SocketOps \subseteq Ops
  BY DEF Ops, SocketOps
<1>6. ops'["write"]["ok"] = ops["write"]["ok"]
  BY <1>1, <1>3, <1>5
<1>7. \A p \in SocketOps : Outstanding(ops', p) <= Outstanding(ops, p)
  BY <1>4, <1>5
<1> QED BY <1>1, <1>2, <1>3, <1>4, <1>5, <1>6, <1>7, FewerOperations

\* The front response of the queue becomes the last one written.
LEMMA ResponseLeavesStep == ASSUME IInv, ResponseLeaves PROVE IInv'
<1>1. "write" \in Ops /\ ops \in SessionOps /\ ops["write"]["pending"] > 0 /\ phase = "running"
  BY DEF ResponseLeaves, Pending, IInv, TypeOK, Ops, SocketOps
<1>2. Outstanding(ops, "write") = 1 /\ ops["write"]["ok"] = 0 /\ queue # <<>>
  BY <1>1, CountsOfOps DEF IInv, OneReadOneWrite, NoStall
<1>3. /\ ops' \in SessionOps /\ Outstanding(ops', "write") = 1 /\ ops'["write"]["ok"] = 1
      /\ \A p \in Ops : p # "write" => ops'[p] = ops[p]
  BY <1>1, <1>2, FinishedCounts DEF ResponseLeaves
<1>4. /\ written' = Append(written, Head(queue))
      /\ UNCHANGED <<phase, open, header, queue, channel, owed>>
  BY DEF ResponseLeaves
<1>5. queue \in Seq(Replies) /\ written \in Seq(Replies) /\ Head(queue) \in Replies
  BY <1>2, HeadTailProperties DEF IInv, TypeOK
<1>6. TypeOK' /\ NothingBegun'
  BY <1>1, <1>3, <1>4, <1>5 DEF IInv, TypeOK, NothingBegun, channel
<1>7. \A p \in {"match", "header", "payload"} : ops'[p] = ops[p]
  BY <1>3 DEF Ops, SocketOps
<1>8. OneReadOneWrite' /\ PayloadExpected' /\ NoStall'
  BY <1>2, <1>3, <1>4, <1>7
     DEF IInv, OneReadOneWrite, Reads, PayloadExpected, NoStall, Outstanding
<1>9. Unwritten = queue /\ Unwritten' = Tail(queue)
  BY <1>2, <1>3, <1>4 DEF Unwritten
<1>10. RepliesInOrder'
  BY <1>2, <1>4, <1>5, <1>9, HeadMoves DEF IInv, RepliesInOrder
<1> QED BY <1>6, <1>8, <1>10 DEF IInv

LEMMA PeerGoesStep == ASSUME IInv, PeerGoes PROVE IInv'
BY DEF PeerGoes, IInv, TypeOK, NothingBegun, OneReadOneWrite, Reads, NoStall,
   PayloadExpected, RepliesInOrder, Unwritten

LEMMA NextIInv == IInv /\ [Next]_vars => IInv'
<1> SUFFICES ASSUME IInv, [Next]_vars PROVE IInv'
  OBVIOUS
<1>1. CASE UNCHANGED vars
  BY <1>1 DEF vars, channel, IInv, TypeOK, NothingBegun, OneReadOneWrite, Reads, NoStall,
     PayloadExpected, RepliesInOrder, Unwritten
<1>2. CASE Run
  BY <1>2, RunStep
<1>3. CASE Handler
  BY <1>3, MatchReadStep, HeartbeatReadStep, RequestReadStep, PayloadReadStep,
     FunctionThrowsStep, OperationFailedStep, ResponseWrittenStep, CheckStep DEF Handler
<1>4. CASE Environment
  BY <1>4, FinishedStep, ResponseLeavesStep, PeerGoesStep DEF Environment
<1> QED BY <1>1, <1>2, <1>3, <1>4 DEF Next

LEMMA Invariance == Spec => []IInv
BY InitIInv, NextIInv, PTL DEF Spec

\* The variables have their types.
THEOREM TypeCorrect == Spec => []TypeOK
<1>1. IInv => TypeOK
  BY DEF IInv
<1> QED BY <1>1, Invariance, PTL

\* However many frames the peer sends, at most one read and one write of a
\* session are in flight: the buffers have one user.
THEOREM BuffersHaveOneUser == Spec => []OneReadOneWrite
<1>1. IInv => OneReadOneWrite
  BY DEF IInv
<1> QED BY <1>1, Invariance, PTL

\* On an open socket a write is in flight as long as responses are queued.
THEOREM ResponsesNeverStall == Spec => []NoStall
<1>1. IInv => NoStall
  BY DEF IInv
<1> QED BY <1>1, Invariance, PTL

\* What is written and queued is what is owed, in its order, once.
THEOREM RepliesKeepOrder == Spec => []RepliesInOrder
<1>1. IInv => RepliesInOrder
  BY DEF IInv
<1> QED BY <1>1, Invariance, PTL

-----------------------------------------------------------------------------
(***************************************************************************)
(* The dispatcher that a session calls (Dispatcher), for any number of     *)
(* threads, names, requests and registrations.  What it replies with is    *)
(* among the codes that PayloadRead chooses from.                          *)
(*                                                                         *)
(* The inductive invariant: the properties hold from step to step because  *)
(* what a thread found in the table stays there (emplace), which relates   *)
(* the table of now to the table of the moment each request arrived.       *)
(***************************************************************************)

Places == {"idle", "unpack", "find", "arguments", "call", "thrown", "recursing",
           "overflowed"}

DispatcherTypeOK ==
    /\ invokes \in [DOMAIN invokes -> Nat]
    /\ inserting \in Names \cup {Nothing}
    /\ serves \in 0..MaxServes
    /\ constants \subseteq 1..MaxServes
    /\ at \in [Threads -> Places]
    /\ request \in [Threads -> Requests \cup {NoRequest}]
    /\ function \in [Threads -> Nat]
    /\ replies \in [Threads -> Seq(Codes)]
    /\ DOMAIN known = Threads
    /\ handled \in [Threads -> 0..MaxRequests]
    /\ raced \in BOOLEAN /\ terminated \in BOOLEAN

\* A registration is never changed.
Registered ==
    \A t \in Threads, n \in Names : n \in DOMAIN known[t] =>
        n \in DOMAIN invokes /\ invokes[n] = known[t][n]

\* Only names are registered, and those that were are known.
NamesOnly ==
    /\ DOMAIN invokes \subseteq Names
    /\ \A t \in Threads : DOMAIN known[t] \subseteq Names

DispatcherIInv == DispatcherTypeOK /\ NamesOnly /\ Registered /\ AnsweredOnce
     /\ RegisteredIsCalled

USE DispatcherAssumption

LEMMA DispatcherInitIInv == DispatcherInit => DispatcherIInv
<1> SUFFICES ASSUME DispatcherInit PROVE DispatcherIInv
  OBVIOUS
<1>1. DispatcherTypeOK
  <2>1. DOMAIN invokes = {} /\ invokes \in [{} -> Nat]
    BY DEF DispatcherInit
  <2>2. /\ request \in [Threads -> Requests \cup {NoRequest}]
       /\ replies \in [Threads -> Seq(Codes)]
        /\ function \in [Threads -> Nat] /\ handled \in [Threads -> 0..MaxRequests]
        /\ at \in [Threads -> Places]
    BY DEF DispatcherInit, NoEntry, Places
  <2>3. serves \in 0..MaxServes /\ constants \subseteq 1..MaxServes
    BY DEF DispatcherInit
  <2> QED BY <2>1, <2>2, <2>3 DEF DispatcherInit, DispatcherTypeOK
<1>2. \A t \in Threads : known[t] = invokes /\ request[t] = NoRequest
                         /\ at[t] = "idle" /\ replies[t] = <<>>
  BY DEF DispatcherInit
<1>3. DOMAIN invokes = {}
  BY DEF DispatcherInit
<1> QED BY <1>1, <1>2, <1>3 DEF DispatcherIInv, NamesOnly, Registered,
     AnsweredOnce, RegisteredIsCalled

-----------------------------------------------------------------------------
\* serve leaves what is registered, and what is dispatched.
LEMMA ServeStep ==
    ASSUME DispatcherIInv, UNCHANGED <<dispatch, raced, terminated>>,
           inserting' \in Names \cup {Nothing}, serves' \in 0..MaxServes,
           constants' \subseteq 1..MaxServes,
           invokes' \in [DOMAIN invokes' -> Nat], DOMAIN invokes' \subseteq Names,
           \A n \in DOMAIN invokes : n \in DOMAIN invokes' /\ invokes'[n] = invokes[n]
    PROVE  DispatcherIInv'
<1>1. UNCHANGED <<at, request, function, replies, known, handled>>
  BY DEF dispatch
<1>2. DispatcherTypeOK'
  BY <1>1 DEF DispatcherIInv, DispatcherTypeOK
<1>3. NamesOnly' /\ Registered'
  BY <1>1 DEF DispatcherIInv, NamesOnly, Registered
<1>4. AnsweredOnce' /\ RegisteredIsCalled'
  BY <1>1 DEF DispatcherIInv, AnsweredOnce, RegisteredIsCalled
<1> QED BY <1>2, <1>3, <1>4 DEF DispatcherIInv

LEMMA ServeBeginsStep ==
    ASSUME DispatcherIInv, NEW name \in Names, NEW const \in BOOLEAN,
           ServeBegins(name, const)
    PROVE  DispatcherIInv'
<1>1. /\ serves < MaxServes /\ serves' = serves + 1 /\ inserting' = name /\ invokes' = invokes
      /\ constants' = IF const THEN constants \cup {serves'} ELSE constants
      /\ UNCHANGED <<dispatch, raced, terminated>>
  BY DEF ServeBegins
<1>2. serves' \in 0..MaxServes /\ constants' \subseteq 1..MaxServes
     /\ invokes \in [DOMAIN invokes -> Nat]
     /\ DOMAIN invokes \subseteq Names
  BY <1>1 DEF DispatcherIInv, DispatcherTypeOK, NamesOnly
<1> QED BY <1>1, <1>2, ServeStep

LEMMA ServeEndsStep ==
    ASSUME DispatcherIInv,
         ServeEnds PROVE DispatcherIInv'
<1>1. /\ inserting \in Names /\ inserting' = Nothing /\ serves' = serves
      /\ constants' = constants
      /\ invokes' = [n \in DOMAIN invokes \cup {inserting} |->
                         IF n \in DOMAIN invokes THEN invokes[n] ELSE serves]
      /\ UNCHANGED <<dispatch, raced, terminated>>
  BY DEF ServeEnds, Emplaced, DispatcherIInv, DispatcherTypeOK
<1>2. /\ invokes \in [DOMAIN invokes -> Nat] /\ DOMAIN invokes \subseteq Names
     /\ serves \in 0..MaxServes /\ constants \subseteq 1..MaxServes
  BY DEF DispatcherIInv, DispatcherTypeOK, NamesOnly
<1>3. /\ DOMAIN invokes' = DOMAIN invokes \cup {inserting}
      /\ \A n \in DOMAIN invokes : invokes'[n] = invokes[n]
      /\ invokes' \in [DOMAIN invokes' -> Nat]
  BY <1>1, <1>2
<1> QED BY <1>1, <1>2, <1>3, ServeStep

-----------------------------------------------------------------------------
LEMMA ReceiveStep ==
    ASSUME DispatcherIInv, NEW t \in Threads,
           NEW r \in Requests, Receive(t, r)
    PROVE  DispatcherIInv'
<1>1. /\ at' = [at EXCEPT ![t] = "unpack"] /\ request' = [request EXCEPT ![t] = r]
      /\ known' = [known EXCEPT ![t] = invokes] /\ replies' = [replies EXCEPT ![t] = <<>>]
      /\ handled' = [handled EXCEPT ![t] = @ + 1] /\ handled[t] < MaxRequests
      /\ UNCHANGED <<invokes, inserting, serves, constants, function, raced, terminated>>
  BY DEF Receive, Goes, table
<1>2. DispatcherTypeOK'
  <2>1. at' \in [Threads -> Places]
       /\ request' \in [Threads -> Requests \cup {NoRequest}]
    BY <1>1 DEF DispatcherIInv, DispatcherTypeOK, Places
  <2>2. replies' \in [Threads -> Seq(Codes)] /\ DOMAIN known' = Threads
    BY <1>1 DEF DispatcherIInv, DispatcherTypeOK
  <2>3. handled' \in [Threads -> 0..MaxRequests]
    BY <1>1 DEF DispatcherIInv, DispatcherTypeOK
  <2> QED BY <1>1, <2>1, <2>2, <2>3 DEF DispatcherIInv, DispatcherTypeOK
<1>3. /\ known'[t] = invokes /\ at'[t] = "unpack" /\ replies'[t] = <<>>
      /\ \A u \in Threads \ {t} : /\ known'[u] = known[u] /\ at'[u] = at[u]
                                  /\ replies'[u] = replies[u] /\ request'[u] = request[u]
  BY <1>1 DEF DispatcherIInv, DispatcherTypeOK
<1>4. NamesOnly' /\ Registered'
  BY <1>1, <1>3 DEF DispatcherIInv, NamesOnly, Registered
<1>5. AnsweredOnce'
  BY <1>3 DEF DispatcherIInv, AnsweredOnce
<1>6. RegisteredIsCalled'
  <2>1. <<>> # <<"nonsupport">>
    OBVIOUS
  <2> SUFFICES ASSUME NEW u \in Threads, ~raced, request'[u].name \in DOMAIN known'[u]
               PROVE  /\ replies'[u] # <<"nonsupport">>
                      /\ at'[u] \in Invoking =>
                             function[u] = known'[u][request'[u].name]
    BY <1>1 DEF RegisteredIsCalled
  <2>2. CASE u = t
    BY <1>3, <2>1, <2>2 DEF Invoking
  <2>3. CASE u # t
    BY <1>3, <2>3 DEF DispatcherIInv, RegisteredIsCalled
  <2> QED BY <2>2, <2>3
<1> QED BY <1>2, <1>4, <1>5, <1>6 DEF DispatcherIInv

\* A step of dispatch that ends nothing: t goes on, or never comes back.
LEMMA GoesOn ==
    ASSUME DispatcherIInv, NEW t \in Threads, NEW to \in Places \ {"idle", "unpack"},
           at[t] # "idle", at' = [at EXCEPT ![t] = to],
           to \in Invoking /\ ~raced' /\ request[t].name \in DOMAIN known[t] =>
               function'[t] = known[t][request[t].name],
           \A u \in Threads \ {t} : function'[u] = function[u],
           function' \in [Threads -> Nat], raced' \in BOOLEAN, terminated' \in BOOLEAN,
           ~raced' => ~raced,
           UNCHANGED <<table, request, replies, known, handled>>
    PROVE  DispatcherIInv'
<1>1. UNCHANGED <<invokes, inserting, serves, constants>>
  BY DEF table
<1>2. at' \in [Threads -> Places] /\ at'[t] = to /\ \A u \in Threads \ {t} : at'[u] = at[u]
  BY DEF DispatcherIInv, DispatcherTypeOK, Places
<1>3. DispatcherTypeOK'
  BY <1>1, <1>2 DEF DispatcherIInv, DispatcherTypeOK
<1>4. NamesOnly' /\ Registered'
  BY <1>1 DEF DispatcherIInv, NamesOnly, Registered
<1>5. AnsweredOnce'
  BY <1>2 DEF DispatcherIInv, AnsweredOnce
<1>6. RegisteredIsCalled'
  <2> SUFFICES ASSUME NEW u \in Threads, ~raced', request[u].name \in DOMAIN known[u]
               PROVE  /\ replies[u] # <<"nonsupport">>
                      /\ at'[u] \in Invoking =>
                             function'[u] = known[u][request[u].name]
    BY DEF RegisteredIsCalled
  <2>1. replies[u] # <<"nonsupport">>
    BY DEF DispatcherIInv, RegisteredIsCalled
  <2>2. CASE u = t
    BY <1>2, <2>1, <2>2
  <2>3. CASE u # t
    BY <1>2, <2>1, <2>3 DEF DispatcherIInv, RegisteredIsCalled
  <2> QED BY <2>2, <2>3
<1> QED BY <1>3, <1>4, <1>5, <1>6 DEF DispatcherIInv

\* A step of dispatch that is the last: the reply is the only one.
LEMMA Ends ==
    ASSUME DispatcherIInv, NEW t \in Threads, NEW code \in Codes, at[t] # "idle",
           at' = [at EXCEPT ![t] = "idle"], Replied(t, code),
           code = "nonsupport" /\ ~raced' => request[t].name \notin DOMAIN known[t],
           raced' \in BOOLEAN, ~raced' => ~raced,
           UNCHANGED <<table, request, function, known, handled, terminated>>
    PROVE  DispatcherIInv'
<1>1. UNCHANGED <<invokes, inserting, serves, constants>>
  BY DEF table
<1>2. at' \in [Threads -> Places] /\ at'[t] = "idle" /\ \A u \in Threads \ {t} : at'[u] = at[u]
  BY DEF DispatcherIInv, DispatcherTypeOK, Places
<1>3. replies[t] = <<>>
  BY DEF DispatcherIInv, AnsweredOnce
<1>4. replies \in [Threads -> Seq(Codes)]
  BY DEF DispatcherIInv, DispatcherTypeOK
<1>5. /\ replies' \in [Threads -> Seq(Codes)]
      /\ \A u \in Threads \ {t} : replies'[u] = replies[u]
      /\ replies'[t] = IF request[t].type = "oneway" THEN <<>> ELSE Append(<<>>, code)
  <2>1. CASE request[t].type = "oneway"
    BY <1>3, <1>4, <2>1 DEF Replied
  <2>2. CASE request[t].type # "oneway"
    <3>1. replies' = [replies EXCEPT ![t] = Append(replies[t], code)]
      BY <2>2 DEF Replied
    <3>2. Append(replies[t], code) \in Seq(Codes)
      BY <1>4
    <3> QED BY <1>3, <1>4, <2>2, <3>1, <3>2
  <2> QED BY <2>1, <2>2
<1>6. /\ Len(<<>>) = 0 /\ Len(Append(<<>>, code)) = 1 /\ Append(<<>>, code)[1] = code
      /\ <<"nonsupport">>[1] = "nonsupport" /\ <<>> # <<"nonsupport">>
  OBVIOUS
<1>7. DispatcherTypeOK'
  BY <1>1, <1>2, <1>5 DEF DispatcherIInv, DispatcherTypeOK
<1>8. NamesOnly' /\ Registered'
  BY <1>1 DEF DispatcherIInv, NamesOnly, Registered
<1>9. AnsweredOnce'
  <2>1. /\ at'[t] = "idle" /\ request' = request
        /\ Len(replies'[t]) = IF request[t].type = "oneway" THEN 0 ELSE 1
    BY <1>2, <1>5, <1>6
  <2>2. \A u \in Threads : u = t \/ (at'[u] = at[u] /\ replies'[u] = replies[u])
    BY <1>2, <1>5
  <2>3. AnsweredOnce
    BY DEF DispatcherIInv
  <2> QED BY <2>1, <2>2, <2>3 DEF AnsweredOnce, NoRequest
<1>10. RegisteredIsCalled'
  <2> SUFFICES ASSUME NEW u \in Threads, ~raced', request[u].name \in DOMAIN known[u]
               PROVE  /\ replies'[u] # <<"nonsupport">>
                      /\ at'[u] \in Invoking =>
                             function[u] = known[u][request[u].name]
    BY DEF RegisteredIsCalled
  <2>1. CASE u = t
    BY <1>2, <1>5, <1>6, <2>1 DEF Invoking
  <2>2. CASE u # t
    BY <1>2, <1>5, <2>2 DEF DispatcherIInv, RegisteredIsCalled
  <2> QED BY <2>1, <2>2
<1> QED BY <1>7, <1>8, <1>9, <1>10 DEF DispatcherIInv

\* The name of a request that is being dispatched, if it was known, is found.
LEMMA KnownIsFound ==
    ASSUME DispatcherIInv, NEW t \in Threads, request[t].name \in DOMAIN known[t]
    PROVE  /\ request[t].name \in DOMAIN invokes
           /\ invokes[request[t].name] = known[t][request[t].name]
BY DEF DispatcherIInv, NamesOnly, Registered

LEMMA DispatchStep ==
    ASSUME DispatcherIInv, NEW t \in Threads, Dispatch(t)
    PROVE DispatcherIInv'
<1> USE DEF Goes, Places, Invoking
<1>1. raced \in BOOLEAN /\ terminated \in BOOLEAN /\ function \in [Threads -> Nat]
  BY DEF DispatcherIInv, DispatcherTypeOK
<1>2. \A u \in Threads : ~raced /\ request[u].name \in DOMAIN known[u] =>
          (at[u] \in Invoking => function[u] = known[u][request[u].name])
  BY DEF DispatcherIInv, RegisteredIsCalled
<1>3. CASE UnpackName(t)
  BY <1>1, <1>3, GoesOn DEF UnpackName
<1>4. CASE UnpackNameThrows(t)
  BY <1>1, <1>4, Ends DEF UnpackNameThrows, Codes
<1>5. CASE Found(t)
  <2>1. /\ at[t] = "find" /\ at' = [at EXCEPT ![t] = "arguments"]
        /\ request[t].name \in DOMAIN invokes
        /\ function' = [function EXCEPT ![t] = invokes[request[t].name]]
        /\ raced' = (raced \/ inserting # Nothing)
        /\ UNCHANGED <<table, request, replies, known, handled, terminated>>
    BY <1>5 DEF Found, Races
  <2>2. /\ function' \in [Threads -> Nat] /\ function'[t] = invokes[request[t].name]
        /\ \A u \in Threads \ {t} : function'[u] = function[u]
    BY <1>1, <2>1 DEF DispatcherIInv, DispatcherTypeOK
  <2> QED BY <1>1, <2>1, <2>2, KnownIsFound, GoesOn
<1>6. CASE NotFound(t)
  <2>1. /\ at[t] = "find" /\ at' = [at EXCEPT ![t] = "idle"]
        /\ Replied(t, "nonsupport")
        /\ request[t].name \notin DOMAIN invokes \/ inserting # Nothing
        /\ raced' = (raced \/ inserting # Nothing)
        /\ UNCHANGED <<table, request, function, known, handled, terminated>>
    BY <1>6 DEF NotFound, Races, MayMiss
  <2>2. ~raced' => request[t].name \notin DOMAIN known[t]
    BY <2>1, KnownIsFound
  <2>3. raced' \in BOOLEAN /\ (~raced' => ~raced) /\ "nonsupport" \in Codes
    BY <1>1, <2>1 DEF Codes
  <2> QED BY <2>1, <2>2, <2>3, Ends
<1>7. CASE Call(t)
  BY <1>1, <1>2, <1>7, GoesOn DEF Call
<1>8. CASE ArgumentsThrow(t)
  BY <1>1, <1>8, Ends DEF ArgumentsThrow, Codes
<1>9. CASE Return(t)
  BY <1>1, <1>9, Ends DEF Return, Codes
<1>10. CASE Throw(t)
  BY <1>1, <1>10, GoesOn DEF Throw
<1>11. CASE Recurse(t)
  BY <1>1, <1>2, <1>11, GoesOn DEF Recurse
<1>12. CASE StackOverflows(t)
  BY <1>1, <1>12, GoesOn DEF StackOverflows
<1> QED BY <1>3, <1>4, <1>5, <1>6, <1>7, <1>8, <1>9, <1>10, <1>11, <1>12 DEF Dispatch

-----------------------------------------------------------------------------
LEMMA DispatcherNextIInv ==
    DispatcherIInv /\ [DispatcherNext]_dispatcherVars => DispatcherIInv'
<1> SUFFICES ASSUME DispatcherIInv, [DispatcherNext]_dispatcherVars PROVE DispatcherIInv'
  OBVIOUS
<1>1. CASE DispatcherNext
  BY <1>1, ServeBeginsStep, ServeEndsStep, DispatchStep, ReceiveStep DEF DispatcherNext
<1>2. CASE UNCHANGED dispatcherVars
  BY <1>2 DEF dispatcherVars, table, dispatch, DispatcherIInv,
       DispatcherTypeOK, NamesOnly, Registered, AnsweredOnce,
              RegisteredIsCalled
<1> QED BY <1>1, <1>2

LEMMA DispatcherInvariance == DispatcherSpec => []DispatcherIInv
BY DispatcherInitIInv, DispatcherNextIInv, PTL DEF DispatcherSpec

\* Every variable of the dispatcher keeps to its type; in particular the
\* table maps names to registrations.
THEOREM DispatcherTypeCorrect == DispatcherSpec => []DispatcherTypeOK
<1>1. DispatcherIInv => DispatcherTypeOK
  BY DEF DispatcherIInv
<1> QED BY <1>1, DispatcherInvariance, PTL

\* On every path through dispatch, of errors too, a request is answered
\* once and a oneway request never.
THEOREM OneAnswer == DispatcherSpec => []AnsweredOnce
<1>1. DispatcherIInv => AnsweredOnce
  BY DEF DispatcherIInv
<1> QED BY <1>1, DispatcherInvariance, PTL

\* A registration is for good: while no look-up met an insertion, a request
\* for a function registered when it arrived calls that function.
THEOREM RegistrationHolds == DispatcherSpec => []RegisteredIsCalled
<1>1. DispatcherIInv => RegisteredIsCalled
  BY DEF DispatcherIInv
<1> QED BY <1>1, DispatcherInvariance, PTL
=============================================================================
