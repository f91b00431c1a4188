----------------------------- MODULE ServerProofs -----------------------------
(***************************************************************************)
(* Theorems about Server, for any number of servers, engines, listens,     *)
(* connections and errors.                                                 *)
(***************************************************************************)
EXTENDS Server, TLAPS

(***************************************************************************)
(* The inductive invariant.  An accept loop is always one thing: a thread  *)
(* that calls get, an accept that is pending or one whose handler is       *)
(* queued; while there is one loop, get is called by one thread.  The      *)
(* engines before index_ were handed out once more than those from index_  *)
(* on.                                                                     *)
(***************************************************************************)

Tasks == [for : {"nothing", "resolver", "acceptor", "session"}, server : Servers \cup {None},
          at : {"wrap", "load", "store"}, sub : Int]

Accepts == [ticket : Nat, server : Servers, thread : Threads, session : Engines,
            result : {"pending", "ok", "error"}]

TypeOK ==
    /\ running \in BOOLEAN /\ raced \in BOOLEAN /\ crashed \in BOOLEAN
    /\ index \in Int
    /\ task \in [Threads -> Tasks]
    /\ acceptor \in [Servers -> Threads]
    /\ accepts \subseteq Accepts
    /\ backlog \in [Servers -> Nat] /\ sessions \in [Engines -> Nat] /\ given \in [Engines -> Nat]
    /\ listens \in Nat /\ arrived \in Nat /\ errors \in Nat /\ issued \in Nat

Busy(t) == task[t].for # "nothing"

\* A thread that is inside get called it, for a server.
GetHasReason ==
    \A t \in Threads : /\ Inside(t) => Busy(t)
                       /\ Busy(t) => task[t].server \in Servers

OneLoop ==
    listens <= 1 =>
        /\ \A t, u \in Threads : Busy(t) /\ Busy(u) => t = u
        /\ \A a, b \in accepts : a = b
        /\ accepts # {} => \A t \in Threads : ~Busy(t)
        /\ listens = 0 => accepts = {} /\ \A t \in Threads : ~Busy(t)

\* As long as calls of get do not overlap, one thread is inside, and it sees
\* an index_ in bounds that is still index_ when it stores.
InTurn ==
    ~raced => /\ index \in 0..EngineCount
              /\ \A t, u \in Threads : Inside(t) /\ Inside(u) => t = u
              /\ \A t \in Threads : Inside(t) => index \in Engines
              /\ \A t \in Threads : task[t].at = "store" => task[t].sub = index

Balanced ==
    ~raced => \A e, f \in Engines :
                  /\ (e < index <=> f < index) => given[e] = given[f]
                  /\ e < index /\ ~(f < index) => given[e] = given[f] + 1

IInv == TypeOK /\ GetHasReason /\ OneLoop /\ OneLoopNeverRaces /\ InTurn /\ Balanced

USE ServerAssumption

LEMMA InitIInv == Init => IInv
<1> SUFFICES ASSUME Init PROVE IInv
  OBVIOUS
<1>1. Idle \in Tasks /\ Idle.for = "nothing" /\ Idle.at = "wrap"
  BY DEF Idle, Tasks
<1>2. TypeOK
  <2>1. /\ task \in [Threads -> Tasks] /\ acceptor \in [Servers -> Threads]
    BY <1>1 DEF Init, Threads, None, Main
  <2>2. backlog \in [Servers -> Nat] /\ sessions \in [Engines -> Nat] /\ given \in [Engines -> Nat]
    BY DEF Init
  <2>3. running \in BOOLEAN /\ raced \in BOOLEAN /\ crashed \in BOOLEAN
    BY DEF Init
  <2>4. index \in Int /\ accepts \subseteq Accepts
    BY DEF Init
  <2>5. listens \in Nat /\ arrived \in Nat /\ errors \in Nat /\ issued \in Nat
    BY DEF Init
  <2> QED BY <2>1, <2>2, <2>3, <2>4, <2>5 DEF TypeOK
<1>3. \A t \in Threads : ~Busy(t) /\ ~Inside(t) /\ task[t].at = "wrap"
  BY <1>1 DEF Init, Busy, Inside
<1>4. GetHasReason /\ OneLoop /\ OneLoopNeverRaces
  BY <1>3 DEF Init, GetHasReason, OneLoop, OneLoopNeverRaces
<1>5. InTurn /\ Balanced
  <2>1. index = 0 /\ \A e \in Engines : given[e] = 0 /\ ~(e < index)
    BY DEF Init, Engines
  <2> QED BY <1>3, <2>1 DEF InTurn, Balanced
<1> QED BY <1>2, <1>4, <1>5 DEF IInv

-----------------------------------------------------------------------------
(* Lemmas about the steps.                                                 *)

\* The state of threads after one of them began a task or got on with it.
LEMMA TaskOf ==
    ASSUME IInv, NEW t \in Threads, NEW new \in Tasks, task' = [task EXCEPT ![t] = new]
    PROVE  /\ task' \in [Threads -> Tasks] /\ task'[t] = new
           /\ \A u \in Threads \ {t} : task'[u] = task[u]
BY DEF IInv, TypeOK

\* An access to index_ by a thread inside get, or entering it.
LEMMA AccessAlone ==
    ASSUME IInv, NEW t \in Threads, Busy(t), Access(t)
    PROVE  /\ raced' \in BOOLEAN
           /\ ~raced' => ~raced /\ \A u \in Threads \ {t} : ~Inside(u)
           /\ listens <= 1 => ~raced'
<1>1. raced \in BOOLEAN
  BY DEF IInv, TypeOK
<1>2. listens <= 1 => ~raced /\ \A u \in Threads \ {t} : ~Inside(u)
  BY DEF IInv, OneLoopNeverRaces, OneLoop, GetHasReason
<1> QED BY <1>1, <1>2 DEF Access

\* Steps that do not enter get, nor access index_.
LEMMA TurnKept ==
    ASSUME IInv, UNCHANGED <<index, given, raced>>,
           \A t \in Threads : task'[t] = task[t] \/ task'[t].at = "wrap"
    PROVE  InTurn' /\ Balanced'
<1>1. \A t \in Threads : Inside(t)' => Inside(t) /\ task'[t] = task[t]
  BY DEF Inside
<1>2. \A t \in Threads : task'[t].at = "store" => task'[t] = task[t]
  OBVIOUS
<1>3. InTurn'
  BY <1>1, <1>2 DEF IInv, InTurn
<1>4. Balanced'
  BY DEF IInv, Balanced
<1> QED BY <1>3, <1>4

\* Inside get: nothing but the thread and index_ change.
LEMMA InsideStep ==
    ASSUME IInv, NEW t \in Threads, Busy(t), Access(t), NEW to \in {"load", "store"},
           NEW sub \in Int, task' = [task EXCEPT ![t] = [@ EXCEPT !.at = to, !.sub = sub]],
           index' \in Int,
           ~raced' => InTurn' /\ Balanced',
           UNCHANGED <<running, acceptor, accepts, backlog, sessions, counters, issued, given,
                       crashed>>
    PROVE  IInv'
<1> DEFINE new == [task[t] EXCEPT !.at = to, !.sub = sub]
<1>1. new \in Tasks /\ new.for = task[t].for /\ new.server = task[t].server /\ task[t] \in Tasks
  BY DEF IInv, TypeOK, Tasks
<1>2. task' = [task EXCEPT ![t] = new]
  OBVIOUS
<1> HIDE DEF new
<1>3. /\ task' \in [Threads -> Tasks] /\ task'[t] = new
      /\ \A u \in Threads \ {t} : task'[u] = task[u]
  BY <1>1, <1>2, TaskOf
<1>4. \A u \in Threads : Busy(u)' = Busy(u) /\ task'[u].server = task[u].server
  BY <1>1, <1>3 DEF Busy
<1>5. /\ raced' \in BOOLEAN /\ (listens <= 1 => ~raced')
      /\ UNCHANGED <<listens, arrived, errors>>
  BY AccessAlone DEF counters
<1>6. TypeOK'
  BY <1>3, <1>5 DEF IInv, TypeOK
<1>7. GetHasReason'
  <2>1. \A u \in Threads : Inside(u)' => Busy(u)
    BY <1>3 DEF IInv, GetHasReason, Inside
  <2> QED BY <1>4, <2>1 DEF IInv, GetHasReason, Busy
<1>8. OneLoop' /\ OneLoopNeverRaces'
  BY <1>4, <1>5 DEF IInv, OneLoop, OneLoopNeverRaces
<1>9. InTurn' /\ Balanced'
  BY DEF InTurn, Balanced
<1> QED BY <1>6, <1>7, <1>8, <1>9 DEF IInv

LEMMA WrapStep == ASSUME IInv, NEW t \in Threads, Wrap(t) PROVE IInv'
<1>1. /\ Busy(t) /\ task[t].at = "wrap" /\ Access(t)
      /\ index' = IF index = EngineCount THEN 0 ELSE index
      /\ task' = [task EXCEPT ![t].at = "load"]
      /\ UNCHANGED <<running, acceptor, accepts, backlog, sessions, counters, issued, given, crashed>>
  BY DEF Wrap, Gets, Busy
<1>2. index' \in Int /\ task \in [Threads -> Tasks]
  BY <1>1 DEF IInv, TypeOK
<1>3. task[t].sub \in Int
      /\ task' = [task EXCEPT ![t] = [@ EXCEPT !.at = "load", !.sub = task[t].sub]]
  BY <1>1, <1>2 DEF Tasks
<1>4. /\ task'[t].at = "load" /\ \A u \in Threads \ {t} : task'[u] = task[u]
  BY <1>1, <1>2 DEF Tasks
<1>5. ASSUME ~raced' PROVE InTurn' /\ Balanced'
  <2>1. ~raced /\ \A u \in Threads \ {t} : ~Inside(u)
    BY <1>1, <1>5, AccessAlone
  <2>2. index \in 0..EngineCount
    BY <2>1 DEF IInv, InTurn
  <2>3. index' \in Engines
    BY <1>1, <2>2 DEF Engines
  <2>4. InTurn'
    <3>1. \A u \in Threads : Inside(u)' => u = t
      BY <1>4, <2>1 DEF Inside
    <3>2. \A u \in Threads : task'[u].at # "store"
      BY <1>4, <2>1 DEF Inside
    <3>3. index' \in 0..EngineCount
      BY <2>3 DEF Engines
    <3> QED BY <2>3, <3>1, <3>2, <3>3 DEF InTurn
  <2>5. Balanced'
    <3>1. given' = given /\ \A e \in Engines : e \in Int /\ e < EngineCount /\ ~(e < 0)
      BY <1>1 DEF Engines
    <3> QED BY <1>1, <2>1, <3>1 DEF IInv, Balanced
  <2> QED BY <2>4, <2>5
<1> QED BY <1>1, <1>2, <1>3, <1>5, InsideStep

LEMMA LoadStep == ASSUME IInv, NEW t \in Threads, Load(t) PROVE IInv'
<1>1. /\ Busy(t) /\ task[t].at = "load" /\ Access(t) /\ index' = index
      /\ task' = [task EXCEPT ![t].at = "store", ![t].sub = index]
      /\ UNCHANGED <<running, acceptor, accepts, backlog, sessions, counters, issued, given, crashed>>
  BY DEF Load, Gets, Busy
<1>2. index \in Int /\ task \in [Threads -> Tasks]
  BY <1>1 DEF IInv, TypeOK
<1>3. task' = [task EXCEPT ![t] = [@ EXCEPT !.at = "store", !.sub = index]]
  BY <1>1, <1>2 DEF Tasks
<1>4. /\ task'[t].at = "store" /\ task'[t].sub = index
      /\ \A u \in Threads \ {t} : task'[u] = task[u]
  BY <1>1, <1>2 DEF Tasks
<1>5. ASSUME ~raced' PROVE InTurn' /\ Balanced'
  <2>1. ~raced /\ \A u \in Threads \ {t} : ~Inside(u)
    BY <1>1, <1>5, AccessAlone
  <2>2. index \in Engines /\ index \in 0..EngineCount
    BY <1>1, <2>1 DEF IInv, InTurn, Inside
  <2>3. InTurn'
    <3>1. \A u \in Threads : Inside(u)' => u = t
      BY <1>4, <2>1 DEF Inside
    <3>2. \A u \in Threads : task'[u].at = "store" => task'[u].sub = index
      BY <1>4, <2>1 DEF Inside
    <3> QED BY <1>1, <2>2, <3>1, <3>2 DEF InTurn
  <2>4. Balanced'
    BY <1>1, <2>1 DEF IInv, Balanced
  <2> QED BY <2>3, <2>4
<1> QED BY <1>1, <1>2, <1>3, <1>5, InsideStep

\* io_contexts_[index_++] with a subscript in bounds, when get returns.
LEMMA ReturnsTurn ==
    ASSUME IInv, NEW t \in Threads, Returns(t), task'[t].at = "wrap",
           \A u \in Threads \ {t} : task'[u] = task[u]
    PROVE  /\ InTurn' /\ Balanced' /\ index' \in Int /\ given' \in [Engines -> Nat]
           /\ raced' \in BOOLEAN /\ (listens <= 1 => ~raced')
           /\ Busy(t) /\ task[t].sub \in Engines
<1> DEFINE sub == task[t].sub
<1>1. /\ Busy(t) /\ task[t].at = "store" /\ Access(t) /\ sub \in Engines
      /\ index' = sub + 1 /\ given' = [given EXCEPT ![sub] = @ + 1]
  BY DEF Returns, Gets, Busy
<1>2. sub \in Int /\ given \in [Engines -> Nat] /\ \A e \in Engines : e \in Int /\ e < EngineCount
  BY <1>1 DEF IInv, TypeOK, Engines
<1>3. /\ given' \in [Engines -> Nat] /\ given'[sub] = given[sub] + 1
      /\ \A e \in Engines \ {sub} : given'[e] = given[e]
  BY <1>1, <1>2
<1>4. /\ raced' \in BOOLEAN /\ (listens <= 1 => ~raced')
      /\ ~raced' => ~raced /\ \A u \in Threads \ {t} : ~Inside(u)
  BY <1>1, AccessAlone
<1>5. ASSUME ~raced' PROVE InTurn' /\ Balanced'
  <2>1. ~raced /\ sub = index
    BY <1>1, <1>4, <1>5 DEF IInv, InTurn
  <2>2. \A u \in Threads : ~Inside(u)'
    BY <1>4, <1>5 DEF Inside
  <2>3. \A u \in Threads : task'[u].at # "store"
    BY <2>2 DEF Inside
  <2>4. index' \in 0..EngineCount
    BY <1>1, <1>2 DEF Engines
  <2>5. InTurn'
    BY <2>2, <2>3, <2>4 DEF InTurn
  <2>6. Balanced'
    <3> HIDE DEF sub
    <3>1. \A e, f \in Engines : /\ (e < sub <=> f < sub) => given[e] = given[f]
                                /\ e < sub /\ ~(f < sub) => given[e] = given[f] + 1
      BY <2>1 DEF IInv, Balanced
    <3>2. \A e \in Engines : e < sub + 1 <=> e < sub \/ e = sub
      BY <1>2
    <3>3. \A e \in Engines : given'[e] = IF e = sub THEN given[sub] + 1 ELSE given[e]
      BY <1>3
    <3>4. ~(sub < sub) /\ \A e \in Engines : given[e] \in Nat
      BY <1>2
    <3>5. SUFFICES ASSUME NEW e \in Engines, NEW f \in Engines
                   PROVE  /\ (e < sub + 1 <=> f < sub + 1) => given'[e] = given'[f]
                          /\ e < sub + 1 /\ ~(f < sub + 1) => given'[e] = given'[f] + 1
      BY <1>1 DEF Balanced
    <3>6. CASE e = sub
      BY <1>1, <3>1, <3>2, <3>3, <3>4, <3>6
    <3>7. CASE e # sub
      BY <1>1, <3>1, <3>2, <3>3, <3>4, <3>7
    <3> QED BY <3>6, <3>7
  <2> QED BY <2>5, <2>6
<1>6. InTurn' /\ Balanced'
  BY <1>5 DEF InTurn, Balanced
<1>7. index' \in Int
  BY <1>1, <1>2
<1> QED BY <1>1, <1>3, <1>4, <1>6, <1>7
-----------------------------------------------------------------------------
\* A new call of get, or none.
LEMMA GettingIs ==
    \A what \in {"resolver", "acceptor", "session"}, s \in Servers :
        /\ Getting(what, s) \in Tasks /\ Getting(what, s).at = "wrap"
        /\ Getting(what, s).for = what /\ Getting(what, s).server = s
BY DEF Getting, Tasks

LEMMA IdleIs == Idle \in Tasks /\ Idle.at = "wrap" /\ Idle.for = "nothing"
BY DEF Idle, Tasks

LEMMA ListenStep == ASSUME IInv, NEW s \in Servers, Listen(s) PROVE IInv'
<1> DEFINE new == Getting("resolver", s)
<1>1. /\ task[Main] = Idle /\ listens' = listens + 1
      /\ task' = [task EXCEPT ![Main] = new]
      /\ UNCHANGED <<running, index, acceptor, accepts, backlog, sessions, arrived, errors, issued,
                     given, raced, crashed>>
  BY DEF Listen
<1>2. new \in Tasks /\ new.at = "wrap" /\ new.for = "resolver" /\ new.server = s
  BY GettingIs
<1> HIDE DEF new
<1>3. Main \in Threads /\ listens \in Nat
  BY DEF Threads, IInv, TypeOK
<1>4. /\ task' \in [Threads -> Tasks] /\ task'[Main] = new
      /\ \A u \in Threads \ {Main} : task'[u] = task[u]
  BY <1>1, <1>2, <1>3, TaskOf
<1>5. TypeOK'
  <2>1. listens' \in Nat
    BY <1>1, <1>3
  <2> QED BY <1>1, <1>4, <2>1 DEF IInv, TypeOK
<1>6. GetHasReason'
  BY <1>2, <1>4 DEF IInv, GetHasReason, Inside, Busy
<1>7. OneLoop'
  <2> SUFFICES ASSUME listens' <= 1
               PROVE  /\ \A t, u \in Threads : Busy(t)' /\ Busy(u)' => t = u
                      /\ accepts = {} /\ listens' # 0
    BY <1>1 DEF OneLoop
  <2>1. listens = 0
    BY <1>1, <1>3
  <2>2. accepts = {} /\ \A t \in Threads : ~Busy(t)
    BY <2>1 DEF IInv, OneLoop
  <2>3. \A t \in Threads : Busy(t)' => t = Main
    BY <1>4, <2>2 DEF Busy
  <2> QED BY <1>1, <2>1, <2>2, <2>3
<1>8. OneLoopNeverRaces'
  BY <1>1, <1>3 DEF IInv, OneLoopNeverRaces
<1>9. InTurn' /\ Balanced'
  BY <1>1, <1>2, <1>4, TurnKept
<1> QED BY <1>5, <1>6, <1>7, <1>8, <1>9 DEF IInv

\* What a loop becomes: t goes on with the task new, and accepts with it.
LEMMA LoopStep ==
    ASSUME IInv, NEW t \in Threads, Returns(t), NEW new \in Tasks, task' = [task EXCEPT ![t] = new],
           new.at = "wrap", new.for # "nothing" => new.server \in Servers,
           accepts' \subseteq Accepts, acceptor' \in [Servers -> Threads],
           backlog' \in [Servers -> Nat], issued' \in Nat,
           accepts = {} => /\ \A a, b \in accepts' : a = b
                           /\ accepts' # {} => new.for = "nothing",
           UNCHANGED <<running, sessions, counters, crashed>>
    PROVE  IInv'
<1>1. /\ task' \in [Threads -> Tasks] /\ task'[t] = new
      /\ \A u \in Threads \ {t} : task'[u] = task[u]
  BY TaskOf
<1>2. /\ InTurn' /\ Balanced' /\ index' \in Int /\ given' \in [Engines -> Nat]
      /\ raced' \in BOOLEAN /\ (listens <= 1 => ~raced')
      /\ Busy(t)
  BY <1>1, ReturnsTurn
<1>3. UNCHANGED <<listens, arrived, errors>>
  BY DEF counters
<1>4. TypeOK'
  BY <1>1, <1>2, <1>3 DEF IInv, TypeOK
<1>5. GetHasReason'
  BY <1>1 DEF IInv, GetHasReason, Inside, Busy
<1>6. OneLoop'
  <2> SUFFICES ASSUME listens <= 1
               PROVE  /\ \A u, v \in Threads : Busy(u)' /\ Busy(v)' => u = v
                      /\ \A a, b \in accepts' : a = b
                      /\ accepts' # {} => \A u \in Threads : ~Busy(u)'
                      /\ listens # 0
    BY <1>3 DEF OneLoop
  <2>1. /\ accepts = {} /\ listens # 0 /\ \A u \in Threads \ {t} : ~Busy(u)
    BY <1>2 DEF IInv, OneLoop
  <2>2. \A u \in Threads : Busy(u)' => u = t /\ new.for # "nothing"
    BY <1>1, <2>1 DEF Busy
  <2> QED BY <2>1, <2>2
<1>7. OneLoopNeverRaces'
  BY <1>2, <1>3 DEF OneLoopNeverRaces
<1> QED BY <1>2, <1>4, <1>5, <1>6, <1>7 DEF IInv

LEMMA ResolveStep == ASSUME IInv, NEW t \in Threads, Resolve(t) PROVE IInv'
<1>1. /\ Returns(t) /\ task' = [task EXCEPT ![t] = Getting("acceptor", task[t].server)]
      /\ UNCHANGED <<running, acceptor, accepts, backlog, sessions, counters, issued, crashed>>
  BY DEF Resolve
<1>2. task[t].server \in Servers
  BY <1>1 DEF Returns, Gets, IInv, GetHasReason, Busy
<1>3. PICK s \in Servers : task' = [task EXCEPT ![t] = Getting("acceptor", s)]
  BY <1>1, <1>2
<1>4. PICK new \in Tasks : /\ task' = [task EXCEPT ![t] = new]
                           /\ new.at = "wrap" /\ new.for = "acceptor" /\ new.server \in Servers
  <2>1. /\ Getting("acceptor", s) \in Tasks /\ Getting("acceptor", s).at = "wrap"
        /\ Getting("acceptor", s).for = "acceptor" /\ Getting("acceptor", s).server \in Servers
    BY GettingIs
  <2> QED BY <1>3, <2>1
<1>5. /\ accepts' \subseteq Accepts /\ acceptor' \in [Servers -> Threads]
      /\ backlog' \in [Servers -> Nat] /\ issued' \in Nat /\ accepts' = accepts
  BY <1>1 DEF IInv, TypeOK
<1> QED BY <1>1, <1>4, <1>5, LoopStep

LEMMA MakeAcceptorStep == ASSUME IInv, NEW t \in Threads, MakeAcceptor(t) PROVE IInv'
<1>1. task[t].server \in Servers /\ Returns(t)
  BY DEF MakeAcceptor, Returns, Gets, IInv, GetHasReason, Busy
<1>2. PICK s \in Servers :
          /\ acceptor' = [acceptor EXCEPT ![s] = task[t].sub]
          /\ accepts' = {IF a.server = s THEN [a EXCEPT !.result = "error"] ELSE a : a \in accepts}
          /\ backlog' = [backlog EXCEPT ![s] = 0]
          /\ task' = [task EXCEPT ![t] = Getting("session", s)]
          /\ UNCHANGED <<running, sessions, counters, issued, crashed>>
  BY <1>1 DEF MakeAcceptor
<1>3. PICK new \in Tasks : /\ task' = [task EXCEPT ![t] = new]
                           /\ new.at = "wrap" /\ new.for = "session" /\ new.server \in Servers
  <2>1. /\ Getting("session", s) \in Tasks /\ Getting("session", s).at = "wrap"
        /\ Getting("session", s).for = "session" /\ Getting("session", s).server \in Servers
    BY GettingIs
  <2> QED BY <1>2, <2>1
<1>4. task[t].sub \in Threads
  BY <1>1 DEF Returns, Threads
<1>5. /\ acceptor' \in [Servers -> Threads] /\ backlog' \in [Servers -> Nat] /\ issued' \in Nat
  BY <1>2, <1>4 DEF IInv, TypeOK
<1>6. accepts' \subseteq Accepts
  <2>1. \A a \in Accepts : [a EXCEPT !.result = "error"] \in Accepts
    BY DEF Accepts
  <2> QED BY <1>2, <2>1 DEF IInv, TypeOK
<1>7. accepts = {} => accepts' = {}
  BY <1>2
<1> QED BY <1>1, <1>2, <1>3, <1>5, <1>6, <1>7, LoopStep

LEMMA DoAcceptStep == ASSUME IInv, NEW t \in Threads, DoAccept(t) PROVE IInv'
<1>1. /\ Returns(t) /\ task[t].server \in Servers /\ task[t].sub \in Engines
  BY DEF DoAccept, Returns, Gets, IInv, GetHasReason, Busy
<1>2. PICK s \in Servers, e \in Engines :
          /\ accepts' = accepts \cup {[ticket |-> issued, server |-> s, thread |-> acceptor[s],
                                        session |-> e, result |-> "pending"]}
          /\ issued' = issued + 1
          /\ task' = [task EXCEPT ![t] = Idle]
          /\ UNCHANGED <<running, acceptor, backlog, sessions, counters, crashed>>
  BY <1>1 DEF DoAccept
<1>3. issued \in Nat /\ acceptor[s] \in Threads
  BY DEF IInv, TypeOK
<1>4. [ticket |-> issued, server |-> s, thread |-> acceptor[s], session |-> e,
       result |-> "pending"] \in Accepts
  BY <1>3 DEF Accepts
<1>5. PICK a \in Accepts : accepts' = accepts \cup {a}
  BY <1>2, <1>4
<1>6. /\ accepts' \subseteq Accepts /\ acceptor' \in [Servers -> Threads]
      /\ backlog' \in [Servers -> Nat] /\ issued' \in Nat
  BY <1>2, <1>3, <1>5 DEF IInv, TypeOK
<1>7. accepts = {} => \A x, y \in accepts' : x = y
  BY <1>5
<1>8. PICK new \in Tasks : task' = [task EXCEPT ![t] = new] /\ new.at = "wrap"
                           /\ new.for = "nothing"
  BY <1>2, IdleIs
<1> QED BY <1>1, <1>2, <1>6, <1>7, <1>8, LoopStep

LEMMA AcceptedStep == ASSUME IInv, NEW a \in accepts, Accepted(a) PROVE IInv'
<1>1. /\ accepts' = accepts \ {a} /\ task[a.thread] = Idle
      /\ sessions' = IF a.result = "ok" THEN [sessions EXCEPT ![a.session] = @ + 1] ELSE sessions
      /\ task' = [task EXCEPT ![a.thread] = Getting("session", a.server)]
      /\ UNCHANGED <<running, index, acceptor, backlog, counters, issued, given, raced, crashed>>
  BY DEF Accepted, CanHandle
<1>2. a.thread \in Threads /\ a.server \in Servers /\ a.session \in Engines
  BY DEF IInv, TypeOK, Accepts
<1>3. PICK new \in Tasks : /\ task' = [task EXCEPT ![a.thread] = new]
                           /\ new.at = "wrap" /\ new.for = "session" /\ new.server \in Servers
  <2>1. /\ Getting("session", a.server) \in Tasks /\ Getting("session", a.server).at = "wrap"
        /\ Getting("session", a.server).for = "session" /\ Getting("session", a.server).server \in Servers
    BY <1>2, GettingIs
  <2> QED BY <1>1, <2>1
<1>4. /\ task' \in [Threads -> Tasks] /\ task'[a.thread] = new
      /\ \A u \in Threads \ {a.thread} : task'[u] = task[u]
  BY <1>2, <1>3, TaskOf
<1>5. UNCHANGED <<listens, arrived, errors>>
  BY <1>1 DEF counters
<1>6. TypeOK'
  <2>1. sessions' \in [Engines -> Nat]
    BY <1>1, <1>2 DEF IInv, TypeOK
  <2> QED BY <1>1, <1>4, <1>5, <2>1 DEF IInv, TypeOK
<1>7. GetHasReason'
  BY <1>3, <1>4 DEF IInv, GetHasReason, Inside, Busy
<1>8. OneLoop'
  <2> SUFFICES ASSUME listens <= 1
               PROVE  /\ \A u, v \in Threads : Busy(u)' /\ Busy(v)' => u = v
                      /\ accepts' = {} /\ listens # 0
    BY <1>5 DEF OneLoop
  <2>1. /\ accepts = {a} /\ listens # 0 /\ \A u \in Threads : ~Busy(u)
    BY DEF IInv, OneLoop
  <2>2. \A u \in Threads : Busy(u)' => u = a.thread
    BY <1>4, <2>1 DEF Busy
  <2> QED BY <1>1, <2>1, <2>2
<1>9. OneLoopNeverRaces'
  BY <1>1, <1>5 DEF IInv, OneLoopNeverRaces
<1>10. InTurn' /\ Balanced'
  BY <1>1, <1>3, <1>4, TurnKept
<1> QED BY <1>6, <1>7, <1>8, <1>9, <1>10 DEF IInv

\* Steps that concern no thread: run, and the world.
LEMMA OtherStep ==
    ASSUME IInv, UNCHANGED <<index, task, acceptor, sessions, listens, issued, given, raced, crashed>>,
           running' \in BOOLEAN, arrived' \in Nat, errors' \in Nat, backlog' \in [Servers -> Nat],
           accepts' = accepts \/ \E a \in accepts, b \in Accepts : accepts' = (accepts \ {a}) \cup {b}
    PROVE  IInv'
<1>1. TypeOK'
  BY DEF IInv, TypeOK
<1>2. GetHasReason' /\ OneLoopNeverRaces'
  BY DEF IInv, GetHasReason, OneLoopNeverRaces, Inside, Busy
<1>3. OneLoop'
  BY DEF IInv, OneLoop, Busy
<1>4. InTurn' /\ Balanced'
  BY TurnKept
<1> QED BY <1>1, <1>2, <1>3, <1>4 DEF IInv

LEMMA WorldStep ==
    ASSUME IInv, Run \/ (\E s \in Servers : ConnectionArrives(s))
                     \/ (\E a \in accepts : AcceptEnds(a) \/ AcceptFails(a))
    PROVE  IInv'
<1>1. /\ running \in BOOLEAN /\ arrived \in Nat /\ errors \in Nat /\ backlog \in [Servers -> Nat]
      /\ accepts \subseteq Accepts
  BY DEF IInv, TypeOK
<1>2. CASE Run
  <2>1. /\ UNCHANGED <<index, task, acceptor, sessions, listens, issued, given, raced, crashed>>
        /\ running' = TRUE /\ UNCHANGED <<arrived, errors, backlog, accepts>>
    BY <1>2 DEF Run, counters
  <2> QED BY <1>1, <2>1, OtherStep
<1>3. ASSUME NEW s \in Servers, ConnectionArrives(s) PROVE IInv'
  <2>1. /\ UNCHANGED <<index, task, acceptor, sessions, listens, issued, given, raced, crashed>>
        /\ arrived' = arrived + 1 /\ backlog' = [backlog EXCEPT ![s] = @ + 1]
        /\ UNCHANGED <<running, errors, accepts>>
    BY <1>3 DEF ConnectionArrives
  <2>2. arrived' \in Nat /\ backlog' \in [Servers -> Nat]
    BY <1>1, <2>1
  <2> QED BY <1>1, <2>1, <2>2, OtherStep
<1>4. ASSUME NEW a \in accepts, AcceptEnds(a) PROVE IInv'
  <2>1. /\ UNCHANGED <<index, task, acceptor, sessions, listens, issued, given, raced, crashed>>
        /\ accepts' = (accepts \ {a}) \cup {[a EXCEPT !.result = "ok"]}
        /\ backlog[a.server] > 0 /\ backlog' = [backlog EXCEPT ![a.server] = @ - 1]
        /\ UNCHANGED <<running, arrived, errors>>
    BY <1>4 DEF AcceptEnds, Ends, counters
  <2>2. [a EXCEPT !.result = "ok"] \in Accepts /\ a.server \in Servers
    BY <1>1 DEF Accepts
  <2>3. backlog' \in [Servers -> Nat]
    BY <1>1, <2>1, <2>2
  <2> QED BY <1>1, <2>1, <2>2, <2>3, OtherStep
<1>5. ASSUME NEW a \in accepts, AcceptFails(a) PROVE IInv'
  <2>1. /\ UNCHANGED <<index, task, acceptor, sessions, listens, issued, given, raced, crashed>>
        /\ accepts' = (accepts \ {a}) \cup {[a EXCEPT !.result = "error"]}
        /\ errors' = errors + 1
        /\ UNCHANGED <<running, arrived, backlog>>
    BY <1>5 DEF AcceptFails, Ends
  <2>2. [a EXCEPT !.result = "error"] \in Accepts
    BY <1>1 DEF Accepts
  <2>3. errors' \in Nat
    BY <1>1, <2>1
  <2> QED BY <1>1, <2>1, <2>2, <2>3, OtherStep
<1> QED BY <1>2, <1>3, <1>4, <1>5

\* A subscript out of bounds takes a race.
LEMMA OutOfBoundsStep == ASSUME IInv, NEW t \in Threads, StoreOutOfBounds(t) PROVE IInv'
<1>1. /\ Busy(t) /\ task[t].at = "store" /\ task[t].sub \notin Engines /\ Access(t)
      /\ index' = task[t].sub + 1 /\ crashed' = TRUE
      /\ UNCHANGED <<running, task, acceptor, accepts, backlog, sessions, counters, issued, given>>
  BY DEF StoreOutOfBounds, Gets, Busy
<1>2. /\ raced' \in BOOLEAN /\ (~raced' => ~raced) /\ (listens <= 1 => ~raced')
  BY <1>1, AccessAlone
<1>3. raced'
  BY <1>1, <1>2 DEF IInv, InTurn, Inside
<1>4. TypeOK'
  <2>1. index' \in Int
    BY <1>1 DEF IInv, TypeOK, Tasks
  <2> QED BY <1>1, <1>2, <2>1 DEF IInv, TypeOK, counters
<1>5. GetHasReason' /\ OneLoop' /\ OneLoopNeverRaces'
  BY <1>1, <1>2 DEF IInv, GetHasReason, OneLoop, OneLoopNeverRaces, Inside, Busy, counters
<1>6. InTurn' /\ Balanced'
  BY <1>3 DEF InTurn, Balanced
<1> QED BY <1>4, <1>5, <1>6 DEF IInv

-----------------------------------------------------------------------------
LEMMA NextIInv == IInv /\ [Next]_vars => IInv'
<1> SUFFICES ASSUME IInv, [Next]_vars PROVE IInv'
  OBVIOUS
<1>1. CASE Next
  <2>1. ASSUME NEW t \in Threads, Thread(t) PROVE IInv'
    BY <2>1, WrapStep, LoadStep, OutOfBoundsStep, ResolveStep, MakeAcceptorStep, DoAcceptStep,
       AcceptedStep DEF Thread
  <2> QED BY <1>1, <2>1, ListenStep, WorldStep DEF Next
<1>2. CASE UNCHANGED vars
  BY <1>2 DEF vars, counters, IInv, TypeOK, GetHasReason, OneLoop, OneLoopNeverRaces, InTurn,
              Balanced, Inside, Busy
<1> QED BY <1>1, <1>2

LEMMA Invariance == Spec => []IInv
BY InitIInv, NextIInv, PTL DEF Spec

\* Every variable of the servers and the engines keeps to its type; in
\* particular sessions run on engines there are.
THEOREM TypeCorrect == Spec => []TypeOK
<1>1. IInv => TypeOK
  BY DEF IInv
<1> QED BY <1>1, Invariance, PTL

\* As long as calls of engines::get do not overlap, index_ is in bounds and
\* the engines are handed out evenly, by any number of servers.
THEOREM EnginesBalanced == Spec => []GetStaysBalanced
<1>1. IInv => GetStaysBalanced
  <2> SUFFICES ASSUME IInv, ~raced
               PROVE  /\ \A t \in Threads : task[t].at = "store" => task[t].sub \in Engines
                      /\ \A e, f \in Engines : given[e] <= given[f] + 1
    BY DEF GetStaysBalanced
  <2>1. \A t \in Threads : task[t].at = "store" => task[t].sub \in Engines
    BY DEF IInv, InTurn, Inside
  <2>2. \A e \in Engines : given[e] \in Nat
    BY DEF IInv, TypeOK
  <2>3. \A e, f \in Engines : given[e] <= given[f] + 1
    BY <2>2 DEF IInv, Balanced
  <2> QED BY <2>1, <2>3
<1> QED BY <1>1, Invariance, PTL

\* One listen on one server means one accept loop, and one thread at a time
\* in engines::get, however many engines there are.
THEOREM OneLoopIsSafe == Spec => []OneLoopNeverRaces
<1>1. IInv => OneLoopNeverRaces
  BY DEF IInv
<1> QED BY <1>1, Invariance, PTL
=============================================================================
