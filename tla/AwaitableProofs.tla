---------------------------- MODULE AwaitableProofs ----------------------------
(***************************************************************************)
(* Theorems about Awaitable, for any coroutines, with and without          *)
(* timeouts, and any number of calls.                                      *)
(***************************************************************************)
EXTENDS Awaitable, TLAPS

(***************************************************************************)
(* The inductive invariant.  It says where a coroutine can be while the    *)
(* run thread is at each stage of answering it.  The user thread is ahead  *)
(* of the run thread only at the first call: to be further it must have    *)
(* found ready_, and then the run thread is about to resume it.            *)
(***************************************************************************)

Stages   == {"ready", "resume", "resumed", "erase"}
Places   == {"call", "ask", "suspend", "suspended", "get", "done"}
Promises == [n : Nat, ready : BOOLEAN, handle : BOOLEAN, result : {"none", "value", "error"},
             alive : BOOLEAN]

TypeOK ==
    /\ at \in [Coroutines -> Places]
    /\ where \in [Coroutines -> {"user", "run"}]
    /\ promise \in [Coroutines -> Promises]
    /\ got \in [Coroutines -> Nat]
    /\ run \in [stage : Stages \cup {"idle"}, for : SUBSET Coroutines, n : Nat]
    /\ crashed \in {"no", "terminate", "freed", "null"}

\* The promise of c follows its calls.
PromiseKept(c) ==
    /\ promise[c].alive => promise[c].n > 0
    /\ promise[c].n = 0 => at[c] \in {"call", "done"} /\ ~promise[c].ready
    /\ at[c] \in {"call", "done"} => ~Waits(c)
    /\ at[c] = "suspended" => promise[c].handle
    /\ promise[c].handle /\ where[c] = "user" => at[c] = "suspended"
    /\ c \notin Timed /\ at[c] \in {"ask", "suspend", "suspended", "get"} => promise[c].alive
    /\ at[c] \in {"ask", "suspend", "suspended"} /\ promise[c].alive =>
           promise[c].result = "none" \/ Serves(c, "ready") \/ Serves(c, "resume")

\* The user thread of c is ahead of the answer to its first call.
Ahead(c) == \/ promise[c].ready \/ promise[c].n > 1 \/ at[c] = "get"
            \/ at[c] \in {"call", "done"} /\ promise[c].n > 0

AtFirstOnly(c) == where[c] = "user" /\ Ahead(c) => Serves(c, "resume") /\ run.n = 1

\* On the run thread c is suspended, done, or what the run thread does.
OnRunThread(c) ==
    where[c] = "run" =>
        /\ at[c] \in {"suspended", "done"} \/ Serves(c, "resumed")
        /\ at[c] \in {"ask", "suspend"} => promise[c].alive /\ promise[c].result = "none"

\* What the run thread is about to do, and for which call of c.
Serving(c) ==
    /\ Serves(c, "ready") => promise[c].n = run.n
    /\ Serves(c, "ready") \/ Serves(c, "resume") =>
           \/ where[c] = "user" /\ run.n = 1 /\ promise[c].n > 0
           \/ at[c] = "suspended" /\ promise[c].n = run.n
    /\ Serves(c, "resumed") =>
           /\ where[c] = "run"
           /\ \/ at[c] \in {"get", "call"} /\ promise[c].n = run.n
              \/ at[c] \in {"ask", "suspend"} /\ promise[c].n > run.n /\ ~promise[c].ready
    /\ Serves(c, "erase") =>
           /\ where[c] = "run"
           /\ at[c] = "done" \/ (at[c] = "suspended" /\ promise[c].n > run.n)

\* The promise of a later call is still to be answered when it is awaited.
LaterIsFresh(c) ==
    promise[c].n > 1 /\ at[c] \in {"ask", "suspend"} =>
        promise[c].alive /\ promise[c].result = "none" /\ ~promise[c].ready

Healthy(c) == PromiseKept(c) /\ AtFirstOnly(c) /\ OnRunThread(c) /\ Serving(c) /\ LaterIsFresh(c)

IInv == /\ TypeOK
        /\ crashed = "no" => \A c \in Coroutines : Healthy(c)
        /\ crashed = "null" => run.n = 1

USE AwaitableAssumption

LEMMA NewPromiseIs ==
    ASSUME NEW n \in Nat
    PROVE  /\ NewPromise(n) \in Promises /\ NewPromise(n).n = n
           /\ ~NewPromise(n).ready /\ ~NewPromise(n).handle /\ NewPromise(n).result = "none"
           /\ NewPromise(n).alive <=> n > 0
<1>1. PICK b \in BOOLEAN : b = (n > 0)
  <2>1. (n > 0) \in BOOLEAN
    OBVIOUS
  <2> QED BY <2>1, Zenon
<1>2. NewPromise(n) = [n |-> n, ready |-> FALSE, handle |-> FALSE, result |-> "none", alive |-> b]
  BY <1>1 DEF NewPromise
<1>3. NewPromise(n) \in Promises
  BY <1>2 DEF Promises
<1>4. /\ NewPromise(n).n = n /\ NewPromise(n).ready = FALSE /\ NewPromise(n).handle = FALSE
      /\ NewPromise(n).result = "none" /\ NewPromise(n).alive = b
  BY <1>2
<1> QED BY <1>1, <1>3, <1>4

\* The run thread is at one stage.
LEMMA OneStage == \A c, s1, s2 : Serves(c, s1) /\ Serves(c, s2) => s1 = s2
BY DEF Serves

LEMMA InitIInv == Init => IInv
<1> SUFFICES ASSUME Init PROVE IInv
  OBVIOUS
<1>1. TypeOK
  <2>1. /\ NewPromise(0) \in Promises
        /\ RunIdle \in [stage : Stages \cup {"idle"}, for : SUBSET Coroutines, n : Nat]
    BY NewPromiseIs DEF RunIdle
  <2>2. /\ at \in [Coroutines -> Places] /\ where \in [Coroutines -> {"user", "run"}]
        /\ promise \in [Coroutines -> Promises] /\ got \in [Coroutines -> Nat]
    BY <2>1 DEF Init, Places
  <2> QED BY <2>1, <2>2 DEF Init, TypeOK
<1>2. \A c \in Coroutines : /\ ~Serves(c, "ready") /\ ~Serves(c, "resume")
                            /\ ~Serves(c, "resumed") /\ ~Serves(c, "erase")
  BY DEF Init, RunIdle, Serves
<1>3. \A c \in Coroutines : /\ at[c] = "call" /\ where[c] = "user"
                            /\ promise[c].n = 0 /\ ~promise[c].alive /\ ~promise[c].ready
                            /\ ~promise[c].handle
  <2>1. \A c \in Coroutines : promise[c] = NewPromise(0) /\ at[c] = "call" /\ where[c] = "user"
    BY DEF Init
  <2>2. /\ NewPromise(0).n = 0 /\ ~NewPromise(0).ready /\ ~NewPromise(0).handle
        /\ ~NewPromise(0).alive
    BY NewPromiseIs
  <2> QED BY <2>1, <2>2
<1>4. \A c \in Coroutines : Healthy(c)
  <2> SUFFICES ASSUME NEW c \in Coroutines PROVE Healthy(c)
    OBVIOUS
  <2>1. PromiseKept(c)
    BY <1>3 DEF PromiseKept, Waits
  <2>2. AtFirstOnly(c) /\ OnRunThread(c) /\ LaterIsFresh(c)
    BY <1>3 DEF AtFirstOnly, Ahead, OnRunThread, LaterIsFresh
  <2>3. Serving(c)
    BY <1>2 DEF Serving
  <2> QED BY <2>1, <2>2, <2>3 DEF Healthy
<1>5. crashed = "no"
  BY DEF Init
<1> QED BY <1>1, <1>4, <1>5 DEF IInv

-----------------------------------------------------------------------------
(* Lemmas about the steps.                                                 *)

\* A step for one coroutine leaves the others healthy.
LEMMA Others ==
    ASSUME NEW d \in Coroutines, Healthy(d),
           at'[d] = at[d], where'[d] = where[d], promise'[d] = promise[d],
           run' = run \/ \A stage \in Stages : ~Serves(d, stage) /\ ~Serves(d, stage)'
    PROVE  Healthy(d)'
<1>1. CASE run' = run
  BY <1>1 DEF Healthy, PromiseKept, Ahead, AtFirstOnly, OnRunThread, Serving, LaterIsFresh, Waits,
              Serves
<1>2. CASE \A stage \in Stages : ~Serves(d, stage) /\ ~Serves(d, stage)'
  <2>1. /\ ~Serves(d, "ready") /\ ~Serves(d, "resume") /\ ~Serves(d, "resumed") /\ ~Serves(d, "erase")
        /\ ~Serves(d, "ready")' /\ ~Serves(d, "resume")' /\ ~Serves(d, "resumed")'
        /\ ~Serves(d, "erase")'
    BY <1>2 DEF Stages
  <2> QED BY <2>1 DEF Healthy, PromiseKept, Ahead, AtFirstOnly, OnRunThread, Serving, LaterIsFresh,
                      Waits
<1> QED BY <1>1, <1>2

\* ... so that it is enough to look at that one, and at run.
LEMMA OneCoroutine ==
    ASSUME IInv, crashed = "no", NEW c \in Coroutines, TypeOK',
           \A d \in Coroutines \ {c} : /\ at'[d] = at[d] /\ where'[d] = where[d]
                                       /\ promise'[d] = promise[d],
           run' = run \/ (run.for = {c} /\ run'.for \in {{c}, {}})
                      \/ (run.stage = "idle" /\ run'.for = {c}),
           crashed' = "no" => Healthy(c)', crashed' = "null" => run'.n = 1
    PROVE  IInv'
<1>1. ASSUME NEW d \in Coroutines \ {c}
      PROVE  run' = run \/ \A stage \in Stages : ~Serves(d, stage) /\ ~Serves(d, stage)'
  BY DEF Serves, Stages
<1>2. \A d \in Coroutines \ {c} : Healthy(d)'
  <2> SUFFICES ASSUME NEW d \in Coroutines \ {c} PROVE Healthy(d)'
    OBVIOUS
  <2>1. Healthy(d)
    BY DEF IInv
  <2>2. at'[d] = at[d] /\ where'[d] = where[d] /\ promise'[d] = promise[d]
    OBVIOUS
  <2> QED BY <1>1, <2>1, <2>2, Others
<1> QED BY <1>2 DEF IInv

\* The step of a coroutine that only moves it, on the user thread or in the
\* callback that resumed it, which is over when it is suspended or done.
LEMMA MovesTypes ==
    ASSUME IInv, NEW c \in Coroutines, NEW to \in Places, at' = [at EXCEPT ![c] = to],
           NEW new \in Promises, promise' = [promise EXCEPT ![c] = new],
           got' \in [Coroutines -> Nat], run' = run \/ ResumeReturns(c), where' = where,
           crashed' = crashed
    PROVE  /\ TypeOK' /\ at'[c] = to /\ promise'[c] = new
           /\ \A d \in Coroutines \ {c} : /\ at'[d] = at[d] /\ where'[d] = where[d]
                                           /\ promise'[d] = promise[d]
<1>1. run' \in [stage : Stages \cup {"idle"}, for : SUBSET Coroutines, n : Nat]
  BY DEF IInv, TypeOK, ResumeReturns, Stages
<1>2. /\ at' \in [Coroutines -> Places] /\ promise' \in [Coroutines -> Promises]
  BY DEF IInv, TypeOK
<1>3. /\ at'[c] = to /\ promise'[c] = new
      /\ \A d \in Coroutines \ {c} : at'[d] = at[d] /\ promise'[d] = promise[d]
  BY DEF IInv, TypeOK
<1> QED BY <1>1, <1>2, <1>3 DEF IInv, TypeOK

-----------------------------------------------------------------------------
(* The coroutine.                                                          *)

LEMMA CallStep == ASSUME IInv, NEW c \in Coroutines, Call(c) PROVE IInv'
<1> DEFINE new == NewPromise(promise[c].n + 1)
<1>1. /\ crashed = "no" /\ at[c] = "call" /\ (where[c] = "run" => Serves(c, "resumed"))
      /\ promise' = [promise EXCEPT ![c] = new]
      /\ at' = [at EXCEPT ![c] = "ask"]
      /\ UNCHANGED <<where, got, run, crashed>>
  BY DEF Call, Runs, IInv, TypeOK
<1>2. promise[c].n \in Nat /\ where[c] \in {"user", "run"} /\ got \in [Coroutines -> Nat]
  BY DEF IInv, TypeOK, Promises
<1>3. /\ new \in Promises /\ new.n = promise[c].n + 1 /\ ~new.ready /\ ~new.handle
      /\ new.result = "none" /\ new.alive
  <2>1. promise[c].n + 1 \in Nat /\ promise[c].n + 1 > 0
    BY <1>2
  <2> QED BY <2>1, NewPromiseIs
<1> HIDE DEF new
<1>4. /\ TypeOK' /\ at'[c] = "ask" /\ promise'[c] = new
      /\ \A d \in Coroutines \ {c} : /\ at'[d] = at[d] /\ where'[d] = where[d]
                                      /\ promise'[d] = promise[d]
  BY <1>1, <1>2, <1>3, MovesTypes DEF Places
<1>5. Healthy(c)
  BY <1>1 DEF IInv
<1>6. \A stage : Serves(c, stage)' <=> Serves(c, stage)
  BY <1>1 DEF Serves
<1>7. Healthy(c)'
  <2>1. PromiseKept(c)'
    BY <1>2, <1>3, <1>4 DEF PromiseKept, Waits
  <2>2. AtFirstOnly(c)'
    BY <1>1, <1>2, <1>3, <1>4, <1>5, <1>6 DEF Healthy, AtFirstOnly, Ahead
  <2>3. OnRunThread(c)'
    BY <1>1, <1>3, <1>4, <1>6 DEF OnRunThread
  <2>4. Serving(c)'
    <3>1. run' = run /\ run.n \in Nat
      BY <1>1 DEF IInv, TypeOK
    <3>2. ~Serves(c, "ready") /\ ~Serves(c, "erase")
      BY <1>1, <1>2, <1>5, OneStage DEF Healthy, Serving, AtFirstOnly, Ahead
    <3>3. Serves(c, "resume") => where[c] = "user" /\ run.n = 1
      BY <1>1, <1>5 DEF Healthy, Serving
    <3>4. Serves(c, "resumed") => where[c] = "run" /\ promise[c].n = run.n
      BY <1>1, <1>5 DEF Healthy, Serving
    <3> QED BY <1>1, <1>2, <1>3, <1>4, <1>6, <3>1, <3>2, <3>3, <3>4 DEF Serving
  <2>5. LaterIsFresh(c)'
    BY <1>3, <1>4 DEF LaterIsFresh
  <2> QED BY <2>1, <2>2, <2>3, <2>4, <2>5 DEF Healthy
<1> QED BY <1>1, <1>4, <1>7, OneCoroutine

\* resume() returns into the callback, if c was in it.
LEMMA Returning ==
    ASSUME IInv, NEW c \in Coroutines, where[c] = "run" => Serves(c, "resumed"), ResumeReturns(c)
    PROVE  /\ run'.n = run.n /\ run.n \in Nat
           /\ where[c] = "user" => run' = run
           /\ where[c] = "run" => Serves(c, "erase")' /\ run.for = {c} /\ run'.for = {c}
           /\ where[c] \in {"user", "run"}
<1>1. /\ run \in [stage : Stages \cup {"idle"}, for : SUBSET Coroutines, n : Nat]
      /\ where[c] \in {"user", "run"}
  BY DEF IInv, TypeOK
<1>2. CASE where[c] = "user"
  BY <1>1, <1>2 DEF ResumeReturns
<1>3. CASE where[c] = "run"
  BY <1>1, <1>3 DEF ResumeReturns, Serves
<1> QED BY <1>1, <1>2, <1>3

LEMMA DoneStep == ASSUME IInv, NEW c \in Coroutines, Done(c) PROVE IInv'
<1>1. /\ crashed = "no" /\ at[c] = "call" /\ (where[c] = "run" => Serves(c, "resumed"))
      /\ at' = [at EXCEPT ![c] = "done"] /\ ResumeReturns(c)
      /\ UNCHANGED <<where, promise, got, crashed>>
  BY DEF Done, Runs
<1>2. /\ TypeOK' /\ at'[c] = "done" /\ promise'[c] = promise[c] /\ where'[c] = where[c]
      /\ \A d \in Coroutines \ {c} : /\ at'[d] = at[d] /\ where'[d] = where[d]
                                      /\ promise'[d] = promise[d]
  <2>1. /\ promise[c] \in Promises /\ promise' = [promise EXCEPT ![c] = promise[c]]
        /\ got' \in [Coroutines -> Nat]
    BY <1>1 DEF IInv, TypeOK
  <2> QED BY <1>1, <2>1, MovesTypes DEF Places
<1>3. /\ run'.n = run.n /\ run.n \in Nat
      /\ where[c] = "user" => run' = run
      /\ where[c] = "run" => Serves(c, "erase")' /\ run.for = {c} /\ run'.for = {c}
      /\ where[c] \in {"user", "run"}
  BY <1>1, Returning
<1>4. Healthy(c)
  BY <1>1 DEF IInv
<1>5. Healthy(c)'
  <2>1. PromiseKept(c)'
    BY <1>1, <1>2, <1>4 DEF Healthy, PromiseKept, Waits
  <2>2. LaterIsFresh(c)' /\ OnRunThread(c)'
    BY <1>2 DEF LaterIsFresh, OnRunThread
  <2>3. CASE where[c] = "user"
    <3>1. run' = run
      BY <1>3, <2>3
    <3>2. AtFirstOnly(c)'
      BY <1>1, <1>2, <1>4, <3>1 DEF Healthy, AtFirstOnly, Ahead, Serves
    <3>3. Serving(c)'
      BY <1>1, <1>2, <1>4, <2>3, <3>1 DEF Healthy, Serving, Serves
    <3> QED BY <2>1, <2>2, <3>2, <3>3 DEF Healthy
  <2>4. CASE where[c] = "run"
    <3>1. Serves(c, "erase")'
      BY <1>3, <2>4
    <3>2. AtFirstOnly(c)' /\ Serving(c)'
      BY <1>2, <2>4, <3>1 DEF AtFirstOnly, Serving, Serves
    <3> QED BY <2>1, <2>2, <3>2 DEF Healthy
  <2> QED BY <1>3, <2>3, <2>4
<1>6. run' = run \/ (run.for = {c} /\ run'.for = {c})
  BY <1>3
<1> QED BY <1>1, <1>2, <1>5, <1>6, OneCoroutine

LEMMA AwaitReadyStep == ASSUME IInv, NEW c \in Coroutines, AwaitReady(c) PROVE IInv'
<1> DEFINE to == IF promise[c].ready THEN "get" ELSE "suspend"
<1>1. /\ crashed = "no" /\ at[c] = "ask" /\ (where[c] = "run" => Serves(c, "resumed"))
      /\ promise[c].alive /\ at' = [at EXCEPT ![c] = to]
      /\ UNCHANGED <<where, promise, got, run, crashed>>
  BY DEF AwaitReady, Runs
<1>2. /\ TypeOK' /\ at'[c] = to /\ promise'[c] = promise[c] /\ where'[c] = where[c]
      /\ \A d \in Coroutines \ {c} : /\ at'[d] = at[d] /\ where'[d] = where[d]
                                      /\ promise'[d] = promise[d]
  <2>1. /\ promise[c] \in Promises /\ promise' = [promise EXCEPT ![c] = promise[c]]
        /\ got' \in [Coroutines -> Nat] /\ to \in Places
    BY <1>1 DEF IInv, TypeOK, Places
  <2> HIDE DEF to
  <2> QED BY <1>1, <2>1, MovesTypes
<1>3. Healthy(c)
  BY <1>1 DEF IInv
<1>4. \A stage : Serves(c, stage)' <=> Serves(c, stage)
  BY <1>1 DEF Serves
<1>5. Healthy(c)'
  <2>1. PromiseKept(c)'
    BY <1>1, <1>2, <1>3, <1>4 DEF Healthy, PromiseKept, Waits
  <2>2. AtFirstOnly(c)'
    BY <1>1, <1>2, <1>3, <1>4 DEF Healthy, AtFirstOnly, Ahead
  <2>3. OnRunThread(c)'
    BY <1>1, <1>2, <1>3, <1>4 DEF Healthy, OnRunThread
  <2>4. Serving(c)'
    BY <1>1, <1>2, <1>3, <1>4 DEF Healthy, Serving
  <2>5. LaterIsFresh(c)'
    BY <1>1, <1>2, <1>3 DEF Healthy, LaterIsFresh
  <2> QED BY <2>1, <2>2, <2>3, <2>4, <2>5 DEF Healthy
<1> QED BY <1>1, <1>2, <1>5, OneCoroutine

LEMMA AwaitSuspendStep == ASSUME IInv, NEW c \in Coroutines, AwaitSuspend(c) PROVE IInv'
<1> DEFINE new == [promise[c] EXCEPT !.handle = TRUE]
<1>1. /\ crashed = "no" /\ at[c] = "suspend" /\ (where[c] = "run" => Serves(c, "resumed"))
      /\ promise[c].alive /\ at' = [at EXCEPT ![c] = "suspended"] /\ ResumeReturns(c)
      /\ promise' = [promise EXCEPT ![c] = new]
      /\ UNCHANGED <<where, got, crashed>>
  BY DEF AwaitSuspend, Runs
<1>2. promise[c] \in Promises /\ got' \in [Coroutines -> Nat]
  BY <1>1 DEF IInv, TypeOK
<1>3. /\ new \in Promises /\ new.handle /\ new.n = promise[c].n /\ new.ready = promise[c].ready
      /\ new.result = promise[c].result /\ new.alive = promise[c].alive
  BY <1>2 DEF Promises
<1> HIDE DEF new
<1>4. /\ TypeOK' /\ at'[c] = "suspended" /\ promise'[c] = new /\ where'[c] = where[c]
      /\ \A d \in Coroutines \ {c} : /\ at'[d] = at[d] /\ where'[d] = where[d]
                                      /\ promise'[d] = promise[d]
  BY <1>1, <1>2, <1>3, MovesTypes DEF Places
<1>5. /\ run'.n = run.n /\ run.n \in Nat
      /\ where[c] = "user" => run' = run
      /\ where[c] = "run" => Serves(c, "erase")' /\ run.for = {c} /\ run'.for = {c}
      /\ where[c] \in {"user", "run"}
  BY <1>1, Returning
<1>6. Healthy(c)
  BY <1>1 DEF IInv
<1>7. Healthy(c)'
  <2>1. LaterIsFresh(c)' /\ OnRunThread(c)'
    BY <1>4 DEF LaterIsFresh, OnRunThread
  <2>2. CASE where[c] = "user"
    <3>1. run' = run
      BY <1>5, <2>2
    <3>2. PromiseKept(c)'
      BY <1>1, <1>3, <1>4, <1>6, <3>1 DEF Healthy, PromiseKept, Waits, Serves
    <3>3. AtFirstOnly(c)'
      BY <1>1, <1>3, <1>4, <1>6, <3>1 DEF Healthy, AtFirstOnly, Ahead, Serves
    <3>4. Serving(c)'
      BY <1>1, <1>3, <1>4, <1>6, <2>2, <3>1 DEF Healthy, Serving, Serves
    <3> QED BY <2>1, <3>2, <3>3, <3>4 DEF Healthy
  <2>3. CASE where[c] = "run"
    <3>1. Serves(c, "erase")'
      BY <1>5, <2>3
    <3>2. promise[c].result = "none" /\ promise[c].n > run.n
      BY <1>1, <1>6, <2>3 DEF Healthy, OnRunThread, Serving
    <3>3. PromiseKept(c)'
      BY <1>1, <1>3, <1>4, <1>6, <2>3, <3>2 DEF Healthy, PromiseKept, Waits
    <3>4. AtFirstOnly(c)' /\ Serving(c)'
      BY <1>3, <1>4, <1>5, <2>3, <3>1, <3>2 DEF AtFirstOnly, Serving, Serves
    <3> QED BY <2>1, <3>3, <3>4 DEF Healthy
  <2> QED BY <1>5, <2>2, <2>3
<1>8. run' = run \/ (run.for = {c} /\ run'.for = {c})
  BY <1>5
<1> QED BY <1>1, <1>4, <1>7, <1>8, OneCoroutine

LEMMA AwaitResumeStep == ASSUME IInv, NEW c \in Coroutines, AwaitResume(c) PROVE IInv'
<1>1. /\ crashed = "no" /\ at[c] = "get" /\ (where[c] = "run" => Serves(c, "resumed"))
      /\ promise[c].alive /\ promise[c].result = "value"
      /\ at' = [at EXCEPT ![c] = "call"] /\ got' = [got EXCEPT ![c] = @ + 1]
      /\ UNCHANGED <<where, promise, run, crashed>>
  BY DEF AwaitResume, Runs
<1>2. /\ TypeOK' /\ at'[c] = "call" /\ promise'[c] = promise[c] /\ where'[c] = where[c]
      /\ \A d \in Coroutines \ {c} : /\ at'[d] = at[d] /\ where'[d] = where[d]
                                      /\ promise'[d] = promise[d]
  <2>1. /\ promise[c] \in Promises /\ promise' = [promise EXCEPT ![c] = promise[c]]
        /\ got' \in [Coroutines -> Nat]
    BY <1>1 DEF IInv, TypeOK
  <2> QED BY <1>1, <2>1, MovesTypes DEF Places
<1>3. Healthy(c)
  BY <1>1 DEF IInv
<1>4. \A stage : Serves(c, stage)' <=> Serves(c, stage)
  BY <1>1 DEF Serves
<1>5. Healthy(c)'
  <2>1. PromiseKept(c)'
    BY <1>1, <1>2, <1>3, <1>4 DEF Healthy, PromiseKept, Waits
  <2>2. AtFirstOnly(c)'
    BY <1>1, <1>2, <1>3, <1>4 DEF Healthy, AtFirstOnly, Ahead
  <2>3. OnRunThread(c)'
    BY <1>1, <1>2, <1>3, <1>4 DEF Healthy, OnRunThread
  <2>4. Serving(c)'
    BY <1>1, <1>2, <1>3, <1>4 DEF Healthy, Serving
  <2>5. LaterIsFresh(c)'
    BY <1>2 DEF LaterIsFresh
  <2> QED BY <2>1, <2>2, <2>3, <2>4, <2>5 DEF Healthy
<1> QED BY <1>1, <1>2, <1>5, OneCoroutine

\* The ends of the program that have to do with one coroutine.
LEMMA CrashStep ==
    ASSUME IInv, crashed = "no", crashed' \in {"terminate", "freed", "null"},
           crashed' = "null" => run.n = 1,
           UNCHANGED <<at, where, promise, got, run>>
    PROVE  IInv'
<1>1. TypeOK'
  BY DEF IInv, TypeOK
<1> QED BY <1>1 DEF IInv

-----------------------------------------------------------------------------
(* The run thread.                                                         *)

LEMMA RespondStep ==
    ASSUME IInv, NEW c \in Coroutines, NEW result \in {"value", "error"}, Respond(c, result)
    PROVE  IInv'
<1> DEFINE new == [promise[c] EXCEPT !.result = result]
<1>1. /\ crashed = "no" /\ run.stage = "idle" /\ Waits(c)
      /\ promise' = [promise EXCEPT ![c] = new]
      /\ run' = [stage |-> "ready", for |-> {c}, n |-> promise[c].n]
      /\ UNCHANGED <<at, where, got, crashed>>
  BY DEF Respond
<1>2. /\ promise[c] \in Promises /\ promise[c].n \in Nat
      /\ where[c] \in {"user", "run"} /\ at[c] \in Places
  BY DEF IInv, TypeOK, Promises
<1>3. /\ new \in Promises /\ new.handle = promise[c].handle /\ new.n = promise[c].n
      /\ new.ready = promise[c].ready /\ new.result = result /\ new.alive = promise[c].alive
  BY <1>2 DEF Promises
<1> HIDE DEF new
<1>4. /\ promise'[c] = new /\ at'[c] = at[c] /\ where'[c] = where[c]
      /\ \A d \in Coroutines \ {c} : /\ at'[d] = at[d] /\ where'[d] = where[d]
                                      /\ promise'[d] = promise[d]
      /\ run'.n = promise[c].n /\ run'.for = {c} /\ run'.stage = "ready"
  BY <1>1 DEF IInv, TypeOK
<1>5. TypeOK'
  BY <1>1, <1>2, <1>3 DEF IInv, TypeOK, Stages
<1>6. Healthy(c)
  BY <1>1 DEF IInv
<1>7. \A stage \in Stages : ~Serves(c, stage)
  BY <1>1 DEF Serves, Stages
<1>8. /\ promise[c].n > 0 /\ promise[c].alive
      /\ where[c] = "user" => promise[c].n = 1 /\ ~Ahead(c)
      /\ where[c] = "run" => at[c] = "suspended"
  <2>1. promise[c].n > 0 /\ promise[c].alive /\ at[c] \notin {"call", "done"}
    BY <1>1, <1>6 DEF Healthy, PromiseKept, Waits
  <2>2. where[c] = "user" => promise[c].n = 1 /\ ~Ahead(c)
    BY <1>2, <1>6, <1>7, <2>1 DEF Healthy, AtFirstOnly, Ahead, Stages
  <2>3. where[c] = "run" => at[c] = "suspended"
    BY <1>6, <1>7, <2>1 DEF Healthy, OnRunThread, Stages
  <2> QED BY <2>1, <2>2, <2>3
<1>9. Healthy(c)'
  <2>1. Serves(c, "ready")'
    BY <1>4 DEF Serves
  <2>2. PromiseKept(c)'
    BY <1>1, <1>3, <1>4, <1>6, <2>1 DEF Healthy, PromiseKept, Waits
  <2>3. AtFirstOnly(c)'
    BY <1>3, <1>4, <1>8 DEF AtFirstOnly, Ahead
  <2>4. OnRunThread(c)' /\ LaterIsFresh(c)'
    BY <1>2, <1>3, <1>4, <1>8 DEF OnRunThread, LaterIsFresh
  <2>5. Serving(c)'
    BY <1>2, <1>3, <1>4, <1>8, <2>1 DEF Serving, Serves
  <2> QED BY <2>2, <2>3, <2>4, <2>5 DEF Healthy
<1> QED BY <1>1, <1>4, <1>5, <1>9, OneCoroutine

LEMMA SetReadyStep == ASSUME IInv, NEW c \in Coroutines, SetReady(c) PROVE IInv'
<1> DEFINE new == [promise[c] EXCEPT !.ready = TRUE]
<1>1. /\ crashed = "no" /\ Serves(c, "ready")
      /\ promise' = [promise EXCEPT ![c] = new]
      /\ run' = [run EXCEPT !.stage = "resume"]
      /\ UNCHANGED <<at, where, got, crashed>>
  BY DEF SetReady
<1>2. /\ promise[c] \in Promises /\ promise[c].n \in Nat
      /\ where[c] \in {"user", "run"}
  BY DEF IInv, TypeOK, Promises
<1>3. /\ new \in Promises /\ new.handle = promise[c].handle /\ new.n = promise[c].n
      /\ new.ready /\ new.result = promise[c].result /\ new.alive = promise[c].alive
  BY <1>2 DEF Promises
<1> HIDE DEF new
<1>4. /\ promise'[c] = new /\ at'[c] = at[c] /\ where'[c] = where[c]
      /\ \A d \in Coroutines \ {c} : /\ at'[d] = at[d] /\ where'[d] = where[d]
                                      /\ promise'[d] = promise[d]
  BY <1>1 DEF IInv, TypeOK
<1>5. run'.n = run.n /\ run.for = {c} /\ run'.for = {c} /\ run'.stage = "resume"
  BY <1>1 DEF IInv, TypeOK, Serves
<1>6. TypeOK'
  <2>1. run' \in [stage : Stages \cup {"idle"}, for : SUBSET Coroutines, n : Nat]
    BY <1>1 DEF IInv, TypeOK, Stages
  <2> QED BY <1>1, <1>3, <2>1 DEF IInv, TypeOK
<1>7. Healthy(c)
  BY <1>1 DEF IInv
<1>8. /\ promise[c].n > 0 /\ promise[c].n = run.n
      /\ where[c] = "user" => run.n = 1
      /\ where[c] = "run" => at[c] = "suspended"
  <2>1. ~Serves(c, "resume") /\ ~Serves(c, "resumed")
    BY <1>1, OneStage
  <2>2. promise[c].n > 0 /\ promise[c].n = run.n
    BY <1>1, <1>2, <1>7 DEF Healthy, PromiseKept, Serving
  <2>3. where[c] = "user" => run.n = 1
    BY <1>2, <1>7, <2>1, <2>2 DEF Healthy, AtFirstOnly, Ahead
  <2>4. where[c] = "run" => at[c] = "suspended"
    BY <1>1, <1>7 DEF Healthy, Serving
  <2> QED BY <2>2, <2>3, <2>4
<1>9. Healthy(c)'
  <2>1. Serves(c, "resume")'
    BY <1>5 DEF Serves
  <2>2. PromiseKept(c)'
    BY <1>3, <1>4, <1>7, <1>8, <2>1 DEF Healthy, PromiseKept, Waits
  <2>3. AtFirstOnly(c)'
    BY <1>4, <1>5, <1>8, <2>1 DEF AtFirstOnly
  <2>4. OnRunThread(c)' /\ LaterIsFresh(c)'
    BY <1>2, <1>3, <1>4, <1>8 DEF OnRunThread, LaterIsFresh
  <2>5. Serving(c)'
    BY <1>2, <1>3, <1>4, <1>5, <1>8 DEF Serving, Serves
  <2> QED BY <2>2, <2>3, <2>4, <2>5 DEF Healthy
<1> QED BY <1>1, <1>4, <1>5, <1>6, <1>9, OneCoroutine

\* What the run thread knows of the coroutine it is about to resume.
LEMMA AboutToResume ==
    ASSUME IInv, crashed = "no", NEW c \in Coroutines, Serves(c, "resume")
    PROVE  IF HandleSet(c) THEN at[c] = "suspended" ELSE run.n = 1
<1>1. Healthy(c) /\ where[c] \in {"user", "run"}
  BY DEF IInv, TypeOK
<1>2. CASE HandleSet(c)
  BY <1>1, <1>2 DEF HandleSet, Healthy, PromiseKept, Serving
<1>3. CASE ~HandleSet(c)
  BY <1>1, <1>3 DEF HandleSet, Healthy, PromiseKept, Serving
<1> QED BY <1>2, <1>3

LEMMA ResumeStep == ASSUME IInv, NEW c \in Coroutines, Resume(c) PROVE IInv'
<1>1. /\ crashed = "no" /\ Serves(c, "resume") /\ HandleSet(c)
      /\ at' = [at EXCEPT ![c] = "get"] /\ where' = [where EXCEPT ![c] = "run"]
      /\ run' = [run EXCEPT !.stage = "resumed"]
      /\ UNCHANGED <<promise, got, crashed>>
  BY DEF Resume
<1>2. at[c] = "suspended" /\ promise[c].n = run.n
  BY <1>1, AboutToResume DEF HandleSet
<1>3. /\ promise'[c] = promise[c] /\ at'[c] = "get" /\ where'[c] = "run"
      /\ \A d \in Coroutines \ {c} : /\ at'[d] = at[d] /\ where'[d] = where[d]
                                      /\ promise'[d] = promise[d]
  BY <1>1 DEF IInv, TypeOK
<1>4. run'.n = run.n /\ run.for = {c} /\ run'.for = {c} /\ run'.stage = "resumed"
  BY <1>1 DEF IInv, TypeOK, Serves
<1>5. TypeOK'
  <2>1. run' \in [stage : Stages \cup {"idle"}, for : SUBSET Coroutines, n : Nat]
    BY <1>1 DEF IInv, TypeOK, Stages
  <2> QED BY <1>1, <2>1 DEF IInv, TypeOK, Places
<1>6. Healthy(c)
  BY <1>1 DEF IInv
<1>7. Healthy(c)'
  <2>1. Serves(c, "resumed")'
    BY <1>4 DEF Serves
  <2>2. PromiseKept(c)'
    BY <1>2, <1>3, <1>6 DEF Healthy, PromiseKept, Waits
  <2>3. AtFirstOnly(c)' /\ OnRunThread(c)' /\ LaterIsFresh(c)'
    BY <1>3, <2>1 DEF AtFirstOnly, OnRunThread, LaterIsFresh
  <2>4. Serving(c)'
    BY <1>2, <1>3, <1>4 DEF Serving, Serves
  <2> QED BY <2>2, <2>3, <2>4 DEF Healthy
<1> QED BY <1>1, <1>3, <1>4, <1>5, <1>7, OneCoroutine

LEMMA EraseStep == ASSUME IInv, NEW c \in Coroutines, Erase(c) PROVE IInv'
<1> DEFINE new == IF promise[c].n = run.n THEN [promise[c] EXCEPT !.alive = FALSE] ELSE promise[c]
<1>1. /\ crashed = "no" /\ Serves(c, "erase") /\ run' = RunIdle
      /\ UNCHANGED <<at, where, got, crashed>>
  BY DEF Erase
<1>2. promise \in [Coroutines -> Promises] /\ promise[c] \in Promises
  BY DEF IInv, TypeOK
<1>3. promise' = [promise EXCEPT ![c] = new]
  BY <1>2 DEF Erase
<1>4. /\ new \in Promises /\ new.handle = promise[c].handle /\ new.n = promise[c].n
      /\ new.ready = promise[c].ready /\ new.result = promise[c].result
      /\ new.alive => promise[c].alive
      /\ promise[c].n # run.n => new.alive = promise[c].alive
  BY <1>2 DEF Promises
<1> HIDE DEF new
<1>5. /\ promise'[c] = new /\ at'[c] = at[c] /\ where'[c] = where[c]
      /\ \A d \in Coroutines \ {c} : /\ at'[d] = at[d] /\ where'[d] = where[d]
                                      /\ promise'[d] = promise[d]
  BY <1>1, <1>2, <1>3 DEF IInv, TypeOK
<1>6. run.for = {c} /\ run'.for = {} /\ run'.n = 0 /\ run'.stage = "idle"
  BY <1>1 DEF RunIdle, Serves
<1>7. TypeOK'
  <2>1. run' \in [stage : Stages \cup {"idle"}, for : SUBSET Coroutines, n : Nat]
    BY <1>1 DEF RunIdle
  <2> QED BY <1>1, <1>2, <1>3, <1>4, <2>1 DEF IInv, TypeOK
<1>8. Healthy(c) /\ promise[c].n \in Nat /\ run.n \in Nat
  BY <1>1, <1>2 DEF IInv, TypeOK, Promises
<1>9. /\ where[c] = "run" /\ at[c] \in {"done", "suspended"}
      /\ at[c] = "suspended" => promise[c].n # run.n
      /\ ~Serves(c, "ready") /\ ~Serves(c, "resume")
  BY <1>1, <1>8, OneStage DEF Healthy, Serving
<1>10. Healthy(c)'
  <2>1. PromiseKept(c)'
    BY <1>4, <1>5, <1>8, <1>9 DEF Healthy, PromiseKept, Waits
  <2>2. AtFirstOnly(c)' /\ OnRunThread(c)' /\ LaterIsFresh(c)'
    BY <1>5, <1>9 DEF AtFirstOnly, OnRunThread, LaterIsFresh
  <2>3. Serving(c)'
    BY <1>6 DEF Serving, Serves
  <2> QED BY <2>1, <2>2, <2>3 DEF Healthy
<1> QED BY <1>1, <1>5, <1>6, <1>7, <1>10, OneCoroutine

LEMMA ReleaseStep == ASSUME IInv, NEW c \in Coroutines, Release(c) PROVE IInv'
<1> DEFINE new == [promise[c] EXCEPT !.alive = FALSE]
<1>1. /\ crashed = "no" /\ c \in Timed /\ run.stage = "idle"
      /\ promise' = [promise EXCEPT ![c] = new]
      /\ UNCHANGED <<at, where, got, run, crashed>>
  BY DEF Release
<1>2. promise[c] \in Promises /\ where[c] \in {"user", "run"}
  BY DEF IInv, TypeOK
<1>3. /\ new \in Promises /\ new.handle = promise[c].handle /\ new.n = promise[c].n
      /\ new.ready = promise[c].ready /\ new.result = promise[c].result /\ ~new.alive
  BY <1>2 DEF Promises
<1> HIDE DEF new
<1>4. /\ promise'[c] = new /\ at'[c] = at[c] /\ where'[c] = where[c]
      /\ \A d \in Coroutines \ {c} : /\ at'[d] = at[d] /\ where'[d] = where[d]
                                      /\ promise'[d] = promise[d]
  BY <1>1 DEF IInv, TypeOK
<1>5. TypeOK'
  BY <1>1, <1>3 DEF IInv, TypeOK
<1>6. Healthy(c)
  BY <1>1 DEF IInv
<1>7. /\ ~Serves(c, "ready") /\ ~Serves(c, "resume") /\ ~Serves(c, "resumed") /\ ~Serves(c, "erase")
      /\ ~Serves(c, "ready")' /\ ~Serves(c, "resume")' /\ ~Serves(c, "resumed")'
      /\ ~Serves(c, "erase")'
  BY <1>1 DEF Serves
<1>8. Healthy(c)'
  <2>1. PromiseKept(c)'
    BY <1>1, <1>3, <1>4, <1>6 DEF Healthy, PromiseKept, Waits
  <2>2. AtFirstOnly(c)'
    BY <1>3, <1>4, <1>6, <1>7 DEF Healthy, AtFirstOnly, Ahead
  <2>3. OnRunThread(c)'
    BY <1>4, <1>6, <1>7 DEF Healthy, OnRunThread
  <2>4. Serving(c)'
    BY <1>7 DEF Serving
  <2>5. LaterIsFresh(c)'
    BY <1>2, <1>3, <1>4, <1>6, <1>7 DEF Healthy, LaterIsFresh, AtFirstOnly, Ahead, OnRunThread
  <2> QED BY <2>1, <2>2, <2>3, <2>4, <2>5 DEF Healthy
<1> QED BY <1>1, <1>4, <1>5, <1>8, OneCoroutine

-----------------------------------------------------------------------------
LEMMA NextIInv == IInv /\ [Next]_vars => IInv'
<1> SUFFICES ASSUME IInv, [Next]_vars PROVE IInv'
  OBVIOUS
<1>1. ASSUME NEW c \in Coroutines, Coroutine(c) PROVE IInv'
  <2>1. CASE AwaitResumeThrows(c)
    <3>1. /\ crashed = "no" /\ crashed' = "terminate" /\ UNCHANGED <<at, where, promise, got, run>>
      BY <2>1 DEF AwaitResumeThrows, Runs
    <3> QED BY <3>1, CrashStep
  <2>2. CASE PromiseDangles(c)
    <3>1. /\ crashed = "no" /\ crashed' = "freed" /\ UNCHANGED <<at, where, promise, got, run>>
      BY <2>2 DEF PromiseDangles, Runs
    <3> QED BY <3>1, CrashStep
  <2> QED BY <1>1, <2>1, <2>2, CallStep, DoneStep, AwaitReadyStep, AwaitSuspendStep, AwaitResumeStep
          DEF Coroutine
<1>2. ASSUME NEW c \in Coroutines, Answers(c) PROVE IInv'
  <2>1. CASE ResumeNull(c)
    <3>1. /\ crashed = "no" /\ Serves(c, "resume") /\ ~HandleSet(c) /\ crashed' = "null"
          /\ UNCHANGED <<at, where, promise, got, run>>
      BY <2>1 DEF ResumeNull
    <3>2. run.n = 1
      BY <3>1, AboutToResume
    <3> QED BY <3>1, <3>2, CrashStep
  <2> QED BY <1>2, <2>1, SetReadyStep, ResumeStep, EraseStep DEF Answers
<1>3. CASE Next
  BY <1>1, <1>2, <1>3, RespondStep, ReleaseStep DEF Next
<1>4. CASE UNCHANGED vars
  <2>1. UNCHANGED <<at, where, promise, got, run, crashed>>
    BY <1>4 DEF vars
  <2>2. TypeOK'
    BY <2>1 DEF IInv, TypeOK
  <2>3. ASSUME NEW c \in Coroutines, Healthy(c) PROVE Healthy(c)'
    BY <2>1, <2>3, Others
  <2> QED BY <2>1, <2>2, <2>3 DEF IInv
<1> QED BY <1>3, <1>4

LEMMA Invariance == Spec => []IInv
BY InitIInv, NextIInv, PTL DEF Spec

\* Every variable of the coroutines keeps to its type.
THEOREM TypeCorrect == Spec => []TypeOK
<1>1. IInv => TypeOK
  BY DEF IInv
<1> QED BY <1>1, Invariance, PTL

\* Without timeouts no resumption is lost: the promise outlives the await,
\* and a suspended coroutine is found through it.
THEOREM NoResumptionLost == Spec => []SuspendedCanBeResumed
<1>1. IInv => SuspendedCanBeResumed
  <2> SUFFICES ASSUME IInv, NEW c \in Coroutines \ Timed, crashed = "no"
               PROVE  /\ at[c] \in {"ask", "suspend", "suspended", "get"} => promise[c].alive
                      /\ at[c] = "suspended" =>
                             /\ promise[c].handle
                             /\ Waits(c) \/ Serves(c, "ready") \/ Serves(c, "resume")
    BY DEF SuspendedCanBeResumed
  <2>1. PromiseKept(c)
    BY DEF IInv, Healthy
  <2> QED BY <2>1 DEF PromiseKept, Waits
<1> QED BY <1>1, Invariance, PTL

\* A response can overtake only the first co_await of a coroutine: a null
\* handle is resumed for the first call or never, and the promise of a later
\* call is not answered before it is awaited.
THEOREM OvertakenOnce == Spec => []OvertakenAtFirstOnly
<1>1. IInv => OvertakenAtFirstOnly
  <2> SUFFICES ASSUME IInv PROVE OvertakenAtFirstOnly
    OBVIOUS
  <2>1. \A c \in Coroutines : crashed = "no" => LaterIsFresh(c)
    BY DEF IInv, Healthy
  <2> QED BY <2>1 DEF IInv, OvertakenAtFirstOnly, LaterIsFresh
<1> QED BY <1>1, Invariance, PTL
=============================================================================
