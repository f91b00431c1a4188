------------------------- MODULE InvocationsProofs -------------------------
(***************************************************************************)
(* Proofs about Invocations, for any number of calls of any kind.          *)
(***************************************************************************)
EXTENDS Invocations, TLAPS

(***************************************************************************)
(* The inductive invariant.  The properties of Invocations speak of places *)
(* of a callback; why a callback is never in two of them is that ids are   *)
(* unique and an entry is filed under the id of its own call.              *)
(***************************************************************************)

\* No two calls have the same id, and the next id is fresh.
UniqueIds ==
    /\ \A c \in Calls : pc[c] # "idle" => rid[c] < requestId
    /\ \A c, d \in Calls :
          pc[c] # "idle" /\ pc[d] # "idle" /\ rid[c] = rid[d] => c = d

\* An entry is filed under its call's id and waits for an answer, or it is
\* the one handle() has moved out.
EntriesFiled ==
    \A i \in DOMAIN invokes :
        /\ invokes[i] # Null =>
              /\ Registered(invokes[i])
              /\ rid[invokes[i]] = i
              /\ answers[invokes[i]] = 0
              /\ invokes[i] \notin dropped
        /\ invokes[i] = Null => run.stage # "idle" /\ run.id = i

\* A request carries the id of its sender, and only of its sender.
RequestsOwned ==
    \A r \in sent :
        /\ r.id < requestId
        /\ r.from # Null => /\ pc[r.from] \in {"wait", "returned", "thrown"}
                            /\ rid[r.from] = r.id
        /\ r.from = Null => \A c \in Calls : pc[c] # "idle" => rid[c] # r.id

\* What the run thread has in hand inside handle().
HandlerInHand ==
    run.stage # "idle" =>
        /\ run.handler # Null
        /\ run.origin = run.handler
        /\ Registered(run.handler)
        /\ rid[run.handler] = run.id
        /\ run.handler \notin dropped
        /\ run.stage = "callback" => answers[run.handler] = 0
        /\ run.stage = "erase" => answers[run.handler] = 1
        /\ run.id \in DOMAIN invokes => invokes[run.id] = Null

\* A registered callback that was neither called nor dropped is still held.
Kept(c) ==
    \/ rid[c] \in DOMAIN invokes /\ invokes[rid[c]] = c
    \/ InHand(c)

CallsKept ==
    \A c \in Calls :
        /\ ~Registered(c) => answers[c] = 0 /\ c \notin dropped
        /\ timer[c] # "off" => c \in Timed /\ pc[c] \notin {"idle", "arm"}
        /\ answers[c] = 1 => c \notin dropped
        /\ Registered(c) /\ answers[c] = 0 /\ c \notin dropped => Kept(c)

IInv == /\ TypeOK
        /\ UniqueIds
        /\ EntriesFiled
        /\ RequestsOwned
        /\ HandlerInHand
        /\ CallsKept
        /\ OnlyTimedDropped

-----------------------------------------------------------------------------
\* The invariant holds of a client nobody has called yet.
LEMMA InitIInv == Init => IInv
<1> SUFFICES ASSUME Init PROVE IInv
  OBVIOUS
<1>1. TypeOK
  <2>1. invokes \in [DOMAIN invokes -> Calls \cup {Null}] /\ DOMAIN invokes \subseteq Nat
    BY DEF Init
  <2>2. run \in [stage : {"idle", "callback", "erase"}, id : Nat,
                handler : Calls \cup {Null}, origin : Calls \cup {Null}]
    BY DEF Init, Idle
  <2>3. /\ pc \in [Calls -> PcStates]
        /\ rid \in [Calls -> Nat]
        /\ timer \in [Calls -> {"off", "armed", "queued"}]
        /\ answers \in [Calls -> 0..1]
    BY DEF Init, PcStates
  <2> QED BY <2>1, <2>2, <2>3 DEF Init, TypeOK
<1>2. UniqueIds
  BY DEF Init, UniqueIds
<1>3. EntriesFiled
  BY DEF Init, EntriesFiled
<1>4. RequestsOwned
  BY DEF Init, RequestsOwned
<1>5. HandlerInHand
  BY DEF Init, Idle, HandlerInHand
<1>6. CallsKept
  BY DEF Init, CallsKept, Registered
<1>7. OnlyTimedDropped
  BY DEF Init, OnlyTimedDropped
<1> QED BY <1>1, <1>2, <1>3, <1>4, <1>5, <1>6, <1>7 DEF IInv

\* A fresh id keeps ids unique, and no request or entry bears it yet.
LEMMA AllocateIdStep == ASSUME IInv, NEW c \in Calls, AllocateId(c) PROVE IInv'
<1>1. TypeOK'
  BY DEF TypeOK, PcStates, history, NextId, IInv, AllocateId
<1>2. UniqueIds'
  BY DEF TypeOK, UniqueIds, NextId, IInv, AllocateId
<1>3. EntriesFiled'
  BY DEF EntriesFiled, Registered, history, IInv, AllocateId
<1>4. RequestsOwned'
  BY DEF TypeOK, RequestsOwned, NextId, IInv, AllocateId
<1>5. HandlerInHand'
  BY DEF HandlerInHand, Registered, history, IInv, AllocateId
<1>6. CallsKept'
  BY DEF CallsKept, Kept, Registered, InHand, history, IInv, AllocateId
<1>7. OnlyTimedDropped'
  BY DEF OnlyTimedDropped, history, IInv, AllocateId
<1> QED BY <1>1, <1>2, <1>3, <1>4, <1>5, <1>6, <1>7 DEF IInv

\* The timer is armed before there is an entry; only timed calls have one.
LEMMA ArmTimerStep == ASSUME IInv, NEW c \in Calls, ArmTimer(c) PROVE IInv'
<1>1. TypeOK'
  BY DEF TypeOK, PcStates, history, IInv, ArmTimer
<1>2. UniqueIds'
  BY DEF UniqueIds, IInv, ArmTimer
<1>3. EntriesFiled'
  BY DEF EntriesFiled, Registered, history, IInv, ArmTimer
<1>4. RequestsOwned'
  BY DEF RequestsOwned, IInv, ArmTimer
<1>5. HandlerInHand'
  BY DEF HandlerInHand, Registered, history, IInv, ArmTimer
<1>6. CallsKept'
  BY DEF TypeOK, CallsKept, Kept, Registered, InHand, history, IInv, ArmTimer
<1>7. OnlyTimedDropped'
  BY DEF OnlyTimedDropped, history, IInv, ArmTimer
<1> QED BY <1>1, <1>2, <1>3, <1>4, <1>5, <1>6, <1>7 DEF IInv

\* Taking the mutex changes nothing the invariant speaks of.
LEMMA LockInvokesStep == ASSUME IInv, NEW c \in Calls, LockInvokes(c) PROVE IInv'
<1>1. TypeOK'
  BY DEF TypeOK, PcStates, history, IInv, LockInvokes
<1>2. UniqueIds'
  BY DEF UniqueIds, IInv, LockInvokes
<1>3. EntriesFiled'
  BY DEF EntriesFiled, Registered, history, IInv, LockInvokes
<1>4. RequestsOwned'
  BY DEF RequestsOwned, IInv, LockInvokes
<1>5. HandlerInHand'
  BY DEF HandlerInHand, Registered, history, IInv, LockInvokes
<1>6. CallsKept'
  BY DEF CallsKept, Kept, Registered, InHand, history, IInv, LockInvokes
<1>7. OnlyTimedDropped'
  BY DEF OnlyTimedDropped, history, IInv, LockInvokes
<1> QED BY <1>1, <1>2, <1>3, <1>4, <1>5, <1>6, <1>7 DEF IInv

\* The id of a call that is not registered yet is not a key of the table, so
\* emplace adds the entry.
LEMMA RegisterStep == ASSUME IInv, NEW c \in Calls, Register(c) PROVE IInv'
<1>1. TypeOK'
  BY DEF TypeOK, PcStates, history, Emplaced, IInv, Register
<1>2. UniqueIds'
  BY DEF UniqueIds, IInv, Register
<1>3. EntriesFiled'
  BY InvocationsAssumption DEF TypeOK, EntriesFiled, CallsKept, Registered,
     history, Emplaced, IInv, Register
<1>4. RequestsOwned'
  BY DEF RequestsOwned, IInv, Register
<1>5. HandlerInHand'
  BY DEF TypeOK, UniqueIds, HandlerInHand, Registered, history, Emplaced,
     IInv, Register
<1>6. CallsKept'
  BY DEF TypeOK, UniqueIds, EntriesFiled, HandlerInHand, CallsKept, Kept,
     Registered, InHand, history, Emplaced, IInv, Register
<1>7. OnlyTimedDropped'
  BY DEF OnlyTimedDropped, history, IInv, Register
<1> QED BY <1>1, <1>2, <1>3, <1>4, <1>5, <1>6, <1>7 DEF IInv

\* After a race the entry may be lost; its call counts as dropped.
LEMMA RegisterLostStep == ASSUME IInv, NEW c \in Calls, RegisterLost(c) PROVE IInv'
<1>1. TypeOK'
  BY DEF TypeOK, PcStates, IInv, RegisterLost
<1>2. UniqueIds'
  BY DEF UniqueIds, IInv, RegisterLost
<1>3. EntriesFiled'
  BY DEF EntriesFiled, Registered, IInv, RegisterLost
<1>4. RequestsOwned'
  BY DEF RequestsOwned, IInv, RegisterLost
<1>5. HandlerInHand'
  BY DEF HandlerInHand, Registered, IInv, RegisterLost
<1>6. CallsKept'
  BY DEF TypeOK, CallsKept, Kept, Registered, InHand, IInv, RegisterLost
<1>7. OnlyTimedDropped'
  BY DEF OnlyTimedDropped, RegisterLost
<1> QED BY <1>1, <1>2, <1>3, <1>4, <1>5, <1>6, <1>7 DEF IInv

\* The request carries the id of its call.
LEMMA RequestStep == ASSUME IInv, NEW c \in Calls, Request(c) PROVE IInv'
<1>1. TypeOK'
  BY DEF TypeOK, PcStates, history, IInv, Request
<1>2. UniqueIds'
  BY DEF UniqueIds, IInv, Request
<1>3. EntriesFiled'
  BY DEF EntriesFiled, Registered, history, IInv, Request
<1>4. RequestsOwned'
  BY InvocationsAssumption DEF TypeOK, UniqueIds, RequestsOwned, IInv, Request
<1>5. HandlerInHand'
  BY DEF HandlerInHand, Registered, history, IInv, Request
<1>6. CallsKept'
  BY DEF CallsKept, Kept, Registered, InHand, history, IInv, Request
<1>7. OnlyTimedDropped'
  BY DEF OnlyTimedDropped, history, IInv, Request
<1> QED BY <1>1, <1>2, <1>3, <1>4, <1>5, <1>6, <1>7 DEF IInv

\* The end of a wait leaves table and callbacks alone.
LEMMA WaitReadyStep == ASSUME IInv, NEW c \in Calls, WaitReady(c) PROVE IInv'
<1>1. TypeOK'
  BY DEF TypeOK, PcStates, history, IInv, WaitReady
<1>2. UniqueIds'
  BY DEF UniqueIds, IInv, WaitReady
<1>3. EntriesFiled'
  BY DEF EntriesFiled, Registered, history, IInv, WaitReady
<1>4. RequestsOwned'
  BY DEF RequestsOwned, IInv, WaitReady
<1>5. HandlerInHand'
  BY DEF HandlerInHand, Registered, history, IInv, WaitReady
<1>6. CallsKept'
  BY DEF CallsKept, Kept, Registered, InHand, history, IInv, WaitReady
<1>7. OnlyTimedDropped'
  BY DEF OnlyTimedDropped, history, IInv, WaitReady
<1> QED BY <1>1, <1>2, <1>3, <1>4, <1>5, <1>6, <1>7 DEF IInv

\* An invoke that gives up waiting leaves its entry.
LEMMA WaitTimeoutStep == ASSUME IInv, NEW c \in Calls, WaitTimeout(c) PROVE IInv'
<1>1. TypeOK'
  BY DEF TypeOK, PcStates, history, IInv, WaitTimeout
<1>2. UniqueIds'
  BY DEF UniqueIds, IInv, WaitTimeout
<1>3. EntriesFiled'
  BY DEF EntriesFiled, Registered, history, IInv, WaitTimeout
<1>4. RequestsOwned'
  BY DEF RequestsOwned, IInv, WaitTimeout
<1>5. HandlerInHand'
  BY DEF HandlerInHand, Registered, history, IInv, WaitTimeout
<1>6. CallsKept'
  BY DEF CallsKept, Kept, Registered, InHand, history, IInv, WaitTimeout
<1>7. OnlyTimedDropped'
  BY DEF OnlyTimedDropped, history, IInv, WaitTimeout
<1> QED BY <1>1, <1>2, <1>3, <1>4, <1>5, <1>6, <1>7 DEF IInv

\* An expired timer has changed nothing before its handler runs.
LEMMA TimerExpiresStep == ASSUME IInv, NEW c \in Calls, TimerExpires(c) PROVE IInv'
<1>1. TypeOK'
  BY DEF TypeOK, userVars, history, IInv, TimerExpires
<1>2. UniqueIds'
  BY DEF UniqueIds, userVars, IInv, TimerExpires
<1>3. EntriesFiled'
  BY DEF EntriesFiled, Registered, userVars, history, IInv, TimerExpires
<1>4. RequestsOwned'
  BY DEF RequestsOwned, userVars, IInv, TimerExpires
<1>5. HandlerInHand'
  BY DEF HandlerInHand, Registered, userVars, history, IInv, TimerExpires
<1>6. CallsKept'
  BY DEF CallsKept, Kept, Registered, InHand, userVars, history, IInv,
     TimerExpires
<1>7. OnlyTimedDropped'
  BY DEF OnlyTimedDropped, history, IInv, TimerExpires
<1> QED BY <1>1, <1>2, <1>3, <1>4, <1>5, <1>6, <1>7 DEF IInv

\* Heartbeats and oneway requests have ids no call has.
LEMMA OtherRequestStep == ASSUME IInv, OtherRequest PROVE IInv'
<1>1. TypeOK'
  BY DEF TypeOK, userVars, history, NextId, IInv, OtherRequest
<1>2. UniqueIds'
  BY DEF TypeOK, UniqueIds, userVars, NextId, IInv, OtherRequest
<1>3. EntriesFiled'
  BY DEF EntriesFiled, Registered, userVars, history, IInv, OtherRequest
<1>4. RequestsOwned'
  BY DEF TypeOK, UniqueIds, RequestsOwned, userVars, NextId, IInv,
     OtherRequest
<1>5. HandlerInHand'
  BY DEF HandlerInHand, Registered, userVars, history, IInv, OtherRequest
<1>6. CallsKept'
  BY DEF CallsKept, Kept, Registered, InHand, userVars, history, IInv,
     OtherRequest
<1>7. OnlyTimedDropped'
  BY DEF OnlyTimedDropped, history, IInv, OtherRequest
<1> QED BY <1>1, <1>2, <1>3, <1>4, <1>5, <1>6, <1>7 DEF IInv

\* stop() changes nothing the invariant speaks of.
LEMMA UserStopStep == ASSUME IInv, UserStop PROVE IInv'
<1>1. TypeOK'
  BY DEF TypeOK, userVars, history, IInv, UserStop
<1>2. UniqueIds'
  BY DEF UniqueIds, userVars, IInv, UserStop
<1>3. EntriesFiled'
  BY DEF EntriesFiled, Registered, userVars, history, IInv, UserStop
<1>4. RequestsOwned'
  BY DEF RequestsOwned, userVars, IInv, UserStop
<1>5. HandlerInHand'
  BY DEF HandlerInHand, Registered, userVars, history, IInv, UserStop
<1>6. CallsKept'
  BY DEF CallsKept, Kept, Registered, InHand, userVars, history, IInv,
     UserStop
<1>7. OnlyTimedDropped'
  BY DEF OnlyTimedDropped, history, IInv, UserStop
<1> QED BY <1>1, <1>2, <1>3, <1>4, <1>5, <1>6, <1>7 DEF IInv

\* By uniqueness of ids, the callback found is that of the request's sender.
LEMMA FindHandlerStep == ASSUME IInv, NEW r \in sent, FindHandler(r) PROVE IInv'
<1>1. TypeOK'
  BY DEF TypeOK, userVars, history, MovedOut, IInv, FindHandler
<1>2. UniqueIds'
  BY DEF UniqueIds, userVars, IInv, FindHandler
<1>3. EntriesFiled'
  BY DEF EntriesFiled, Registered, userVars, history, CanStartHandler,
     MovedOut, IInv, FindHandler
<1>4. RequestsOwned'
  BY DEF RequestsOwned, userVars, IInv, FindHandler
<1>5. HandlerInHand'
  BY DEF TypeOK, UniqueIds, EntriesFiled, RequestsOwned, HandlerInHand,
     Registered, userVars, history, CanStartHandler, MovedOut, IInv,
     FindHandler
<1>6. CallsKept'
  BY DEF CallsKept, Kept, Registered, InHand, userVars, history,
     CanStartHandler, MovedOut, IInv, FindHandler
<1>7. OnlyTimedDropped'
  BY DEF OnlyTimedDropped, history, IInv, FindHandler
<1> QED BY <1>1, <1>2, <1>3, <1>4, <1>5, <1>6, <1>7 DEF IInv

\* The callback in hand was not called before, and leaves the hand.
LEMMA CallbackStep == ASSUME IInv, Callback PROVE IInv'
<1>1. TypeOK'
  BY DEF TypeOK, HandlerInHand, userVars, Cancelled, IInv, Callback
<1>2. UniqueIds'
  BY DEF UniqueIds, userVars, IInv, Callback
<1>3. EntriesFiled'
  BY DEF EntriesFiled, HandlerInHand, Registered, userVars, IInv, Callback
<1>4. RequestsOwned'
  BY DEF RequestsOwned, userVars, IInv, Callback
<1>5. HandlerInHand'
  BY DEF TypeOK, HandlerInHand, Registered, userVars, IInv, Callback
<1>6. CallsKept'
  BY DEF TypeOK, HandlerInHand, CallsKept, Kept, Registered, InHand, userVars,
     Cancelled, IInv, Callback
<1>7. OnlyTimedDropped'
  BY DEF OnlyTimedDropped, IInv, Callback
<1> QED BY <1>1, <1>2, <1>3, <1>4, <1>5, <1>6, <1>7 DEF IInv

\* What is erased is the null pointer left behind by the move.
LEMMA EraseEntryStep == ASSUME IInv, EraseEntry PROVE IInv'
<1>1. TypeOK'
  BY DEF TypeOK, userVars, history, Erased, Restrict, Idle, IInv, EraseEntry
<1>2. UniqueIds'
  BY DEF UniqueIds, userVars, IInv, EraseEntry
<1>3. EntriesFiled'
  BY DEF EntriesFiled, Registered, userVars, history, Erased, Restrict, IInv,
     EraseEntry
<1>4. RequestsOwned'
  BY DEF RequestsOwned, userVars, IInv, EraseEntry
<1>5. HandlerInHand'
  BY DEF HandlerInHand, Idle, EraseEntry
<1>6. CallsKept'
  BY InvocationsAssumption DEF HandlerInHand, CallsKept, Kept, Registered,
     InHand, userVars, history, Erased, Restrict, IInv, EraseEntry
<1>7. OnlyTimedDropped'
  BY DEF OnlyTimedDropped, history, IInv, EraseEntry
<1> QED BY <1>1, <1>2, <1>3, <1>4, <1>5, <1>6, <1>7 DEF IInv

\* Without a race release() takes out at most the entry of its own call.
LEMMA ReleaseStep == ASSUME IInv, NEW c \in Calls, Release(c) PROVE IInv'
<1>1. pc[c] # "idle" /\ c \in Timed
  BY DEF IInv, CallsKept, Release
<1>2. /\ DOMAIN invokes' = DOMAIN invokes \ {rid[c]}
      /\ \A i \in DOMAIN invokes' : invokes'[i] = invokes[i]
  BY DEF Release, Erased, Restrict
<1>3. \A i \in DOMAIN invokes :
          /\ invokes[i] \in Calls
          /\ pc[invokes[i]] # "idle"
          /\ rid[invokes[i]] = i
  BY DEF IInv, TypeOK, EntriesFiled, Release, CanStartHandler, Registered
<1>4. \A i \in DOMAIN invokes : invokes[i] = c <=> i = rid[c]
  BY <1>1, <1>3 DEF IInv, UniqueIds
<1>5. /\ dropped' \subseteq dropped \cup {c}
      /\ c \in dropped' <=> c \in dropped \/ rid[c] \in DOMAIN invokes
  <2>1. Callbacks(invokes) \ Callbacks(invokes') \subseteq {c}
    BY <1>2, <1>3, <1>4 DEF Callbacks
  <2>2. c \notin Callbacks(invokes')
    BY <1>2, <1>4 DEF Callbacks
  <2>3. c \in Callbacks(invokes) <=> rid[c] \in DOMAIN invokes
    BY <1>4, InvocationsAssumption DEF Callbacks
  <2>4. dropped' = dropped \cup (Callbacks(invokes) \ Callbacks(invokes'))
    BY DEF Release
  <2> QED BY <2>1, <2>2, <2>3, <2>4
<1>6. TypeOK'
  <2>1. invokes' \in [DOMAIN invokes' -> Calls \cup {Null}] /\ DOMAIN invokes' \subseteq Nat
    BY <1>2, <1>3 DEF IInv, TypeOK, Release, Erased, Restrict
  <2>2. timer' \in [Calls -> {"off", "armed", "queued"}]
    BY DEF IInv, TypeOK, Release
  <2>3. dropped' \subseteq Calls
    BY <1>5 DEF IInv, TypeOK
  <2> QED BY <2>1, <2>2, <2>3 DEF IInv, TypeOK, Release, userVars
<1>7. UniqueIds'
  BY DEF UniqueIds, userVars, IInv, Release
<1>8. EntriesFiled'
  BY <1>2, <1>4, <1>5 DEF EntriesFiled, Registered, userVars, IInv, Release
<1>9. RequestsOwned'
  BY DEF RequestsOwned, userVars, IInv, Release
<1>10. HandlerInHand'
  BY DEF HandlerInHand, CanStartHandler, Release
<1>11. CallsKept'
  <2> SUFFICES ASSUME NEW d \in Calls
               PROVE  /\ ~Registered(d)' => answers'[d] = 0 /\ d \notin dropped'
                      /\ timer'[d] # "off" => d \in Timed /\ pc'[d] \notin {"idle", "arm"}
                      /\ answers'[d] = 1 => d \notin dropped'
                      /\ Registered(d)' /\ answers'[d] = 0 /\ d \notin dropped' => Kept(d)'
    BY DEF CallsKept
  <2>1. timer'[d] # "off" => timer[d] # "off"
    BY DEF IInv, TypeOK, Release
  <2>2. rid[c] \in DOMAIN invokes => Registered(c) /\ answers[c] = 0
    BY <1>4, InvocationsAssumption DEF IInv, EntriesFiled
  <2>3. CASE d = c
    BY <1>5, <2>1, <2>2, <2>3
       DEF IInv, CallsKept, Kept, InHand, Registered, userVars, Release, CanStartHandler
  <2>4. CASE d # c
    <3>1. Kept(d) => Kept(d)'
      BY <1>2, <1>4, <2>4 DEF Kept, InHand, userVars, Release, CanStartHandler
    <3> QED BY <1>5, <2>1, <2>4, <3>1 DEF IInv, CallsKept, Registered, userVars, Release
  <2> QED BY <2>3, <2>4
<1>12. OnlyTimedDropped'
  BY <1>1, <1>5 DEF OnlyTimedDropped, IInv, Release
<1> QED BY <1>6, <1>7, <1>8, <1>9, <1>10, <1>11, <1>12 DEF IInv

\* Whatever a racing erase destroys is accounted for as dropped.
LEMMA ReleaseRacesStep == ASSUME IInv, NEW c \in Calls, ReleaseRaces(c) PROVE IInv'
<1>1. TypeOK'
  BY DEF TypeOK, userVars, Restrict, Callbacks, IInv, ReleaseRaces
<1>2. UniqueIds'
  BY DEF UniqueIds, userVars, IInv, ReleaseRaces
<1>3. EntriesFiled'
  BY DEF EntriesFiled, Registered, userVars, Restrict, Callbacks, IInv,
     ReleaseRaces
<1>4. RequestsOwned'
  BY DEF RequestsOwned, userVars, IInv, ReleaseRaces
<1>5. HandlerInHand'
  BY DEF HandlerInHand, CanStartHandler, ReleaseRaces
<1>6. CallsKept'
  BY InvocationsAssumption DEF EntriesFiled, CallsKept, Kept, Registered,
     InHand, userVars, Restrict, Callbacks, IInv, ReleaseRaces
<1>7. OnlyTimedDropped'
  BY DEF OnlyTimedDropped, ReleaseRaces
<1> QED BY <1>1, <1>2, <1>3, <1>4, <1>5, <1>6, <1>7 DEF IInv
-----------------------------------------------------------------------------
\* Every step preserves the invariant.
LEMMA NextIInv == IInv /\ [Next]_vars => IInv'
<1> SUFFICES ASSUME IInv, [Next]_vars PROVE IInv'
  OBVIOUS
<1>1. ASSUME NEW c \in Calls, AllocateId(c) \/ CallGoesOn(c) \/ TimerExpires(c)
      PROVE  IInv'
  BY <1>1, AllocateIdStep, ArmTimerStep, LockInvokesStep, RegisterStep, RegisterLostStep,
     RequestStep, WaitReadyStep, WaitTimeoutStep, TimerExpiresStep DEF CallGoesOn
<1>2. CASE OtherRequest
  BY <1>2, OtherRequestStep
<1>3. CASE UserStop
  BY <1>3, UserStopStep
<1>4. ASSUME NEW response \in sent, FindHandler(response) PROVE IInv'
  BY <1>4, FindHandlerStep
<1>5. CASE RunThread
  BY <1>5, CallbackStep, EraseEntryStep, ReleaseStep, ReleaseRacesStep
     DEF RunThread, TimerHandler
<1>6. CASE UNCHANGED vars
  BY <1>6 DEF vars, userVars, history, IInv, TypeOK, UniqueIds, EntriesFiled, RequestsOwned,
     HandlerInHand, CallsKept, Kept, OnlyTimedDropped, Registered, InHand
<1> QED BY <1>1, <1>2, <1>3, <1>4, <1>5, <1>6 DEF Next

\* The invariant holds of every reachable state.
LEMMA Invariance == Spec => []IInv
BY InitIInv, NextIInv, PTL DEF Spec

\* The variables have their types; no callback is ever called twice.
THEOREM TypeCorrect == Spec => []TypeOK
<1>1. IInv => TypeOK
  BY DEF IInv
<1> QED BY <1>1, Invariance, PTL

\* A registered callback is in exactly one of: the table, the run thread's
\* hand, called, dropped.
THEOREM OnePlace == Spec => []CallbackInOnePlace
<1>1. IInv => CallbackInOnePlace
  <2> SUFFICES ASSUME IInv, NEW c \in Calls, Registered(c)
               PROVE  /\ InTable(c) \/ InHand(c) \/ answers[c] = 1 \/ c \in dropped
                      /\ ~(InTable(c) /\ InHand(c))
                      /\ InTable(c) \/ InHand(c) => answers[c] = 0 /\ c \notin dropped
                      /\ answers[c] = 1 => c \notin dropped
    BY DEF CallbackInOnePlace
  <2>1. answers[c] = 0 \/ answers[c] = 1
    BY DEF IInv, TypeOK
  <2>2. InTable(c) <=> rid[c] \in DOMAIN invokes /\ invokes[rid[c]] = c
    BY InvocationsAssumption DEF IInv, EntriesFiled, InTable, Callbacks
  <2>3. InHand(c) /\ rid[c] \in DOMAIN invokes => invokes[rid[c]] = Null
    BY DEF IInv, HandlerInHand, InHand
  <2>4. InHand(c) => answers[c] = 0 /\ c \notin dropped
    BY DEF IInv, HandlerInHand, InHand
  <2>5. InTable(c) => answers[c] = 0 /\ c \notin dropped
    BY <2>2, InvocationsAssumption DEF IInv, EntriesFiled
  <2>6. answers[c] = 0 /\ c \notin dropped => InTable(c) \/ InHand(c)
    BY <2>2 DEF IInv, CallsKept, Kept
  <2>7. answers[c] = 1 => c \notin dropped
    BY DEF IInv, CallsKept
  <2> QED BY <2>1, <2>2, <2>3, <2>4, <2>5, <2>6, <2>7, InvocationsAssumption
<1> QED BY <1>1, Invariance, PTL

\* Unless invokes_ was modified by two threads at a time, the callback of a
\* call without timeout is never dropped.
THEOREM UntimedNeverDropped == Spec => []OnlyTimedDropped
<1>1. IInv => OnlyTimedDropped
  BY DEF IInv
<1> QED BY <1>1, Invariance, PTL

\* The response to a call without timeout finds its callback.
THEOREM ResponseServed == Spec => []ResponseFindsEntry
<1>1. IInv => ResponseFindsEntry
  <2> SUFFICES ASSUME IInv, NEW r \in sent, r.from \in Calls \ Timed, ~raced
               PROVE  \/ r.id \in DOMAIN invokes /\ invokes[r.id] = r.from
                      \/ InHand(r.from)
                      \/ answers[r.from] = 1
    BY DEF ResponseFindsEntry
  <2>1. Registered(r.from) /\ rid[r.from] = r.id
    BY InvocationsAssumption DEF IInv, RequestsOwned, Registered
  <2>2. r.from \notin dropped
    BY DEF IInv, OnlyTimedDropped
  <2>3. answers[r.from] = 0 \/ answers[r.from] = 1
    BY DEF IInv, TypeOK
  <2> QED BY <2>1, <2>2, <2>3 DEF IInv, CallsKept, Kept
<1> QED BY <1>1, Invariance, PTL

\* The callback taken out for a response is that of the response's call.
THEOREM RepliesNotMixed == Spec => []OwnReply
<1>1. IInv => OwnReply
  BY DEF IInv, HandlerInHand, OwnReply
<1> QED BY <1>1, Invariance, PTL

\* Nothing accumulates in the table.
THEOREM TableClean == Spec => []NoGhostEntry
<1>1. IInv => NoGhostEntry
  BY DEF IInv, EntriesFiled, NoGhostEntry
<1> QED BY <1>1, Invariance, PTL

-----------------------------------------------------------------------------
(* Refinement: every step of the client is a step of AbstractCalls.        *)

Status == [c \in Calls |-> StatusOf(c)]

\* The initial state maps to the initial state of AbstractCalls.
LEMMA InitPromise == Init => Promise!Init
BY DEF Init, Promise!Init, StatusOf, Registered

\* A step after which no callback was called, dropped or registered.
LEMMA Unseen ==
    ASSUME raced' = raced, answers' = answers, dropped' = dropped,
           \A c \in Calls : Registered(c)' <=> Registered(c)
    PROVE  UNCHANGED Promise!absVars
BY DEF Promise!absVars, StatusOf

\* register: the abstract call opens.
LEMMA RegisterOpens == ASSUME IInv, NEW c \in Calls, Register(c) PROVE Promise!Open(c)
<1>1. StatusOf(c) = "new"
  BY DEF IInv, CallsKept, Registered, Register, StatusOf
<1>2. StatusOf(c)' = "open"
  BY DEF IInv, TypeOK, CallsKept, Registered, Register, history, StatusOf
<1>3. ASSUME NEW d \in Calls, d # c PROVE StatusOf(d)' = StatusOf(d)
  BY <1>3 DEF IInv, TypeOK, Registered, Register, history, StatusOf
<1>4. Status' = [Status EXCEPT ![c] = "open"]
  BY <1>2, <1>3 DEF Status
<1> QED BY <1>1, <1>4 DEF Promise!Open, Status, Register

\* A lost registration is a call lost to undefined behaviour.
LEMMA RegisterLostLoses ==
    ASSUME IInv, NEW c \in Calls, RegisterLost(c) PROVE Promise!Lose({c})
<1>1. StatusOf(c) = "new"
  BY DEF IInv, CallsKept, Registered, RegisterLost, StatusOf
<1>2. StatusOf(c)' = "dropped"
  BY DEF IInv, CallsKept, Registered, RegisterLost, StatusOf
<1>3. ASSUME NEW d \in Calls, d # c PROVE StatusOf(d)' = StatusOf(d)
  BY <1>3 DEF IInv, TypeOK, Registered, RegisterLost, StatusOf
<1> QED BY <1>1, <1>2, <1>3 DEF Promise!Lose, RegisterLost

\* The callback: the abstract call is answered.
LEMMA CallbackAnswers == ASSUME IInv, Callback PROVE Promise!Answer(run.handler)
<1>1. PICK c \in Calls :
          c = run.handler /\ Registered(c) /\ answers[c] = 0 /\ c \notin dropped
  BY DEF IInv, TypeOK, HandlerInHand, Callback
<1>2. StatusOf(c) = "open"
  BY <1>1 DEF StatusOf
<1>3. /\ answers'[c] = 1
      /\ \A d \in Calls : d # c => answers'[d] = answers[d]
  BY <1>1 DEF IInv, TypeOK, Callback
<1>4. \A d \in Calls : Registered(d)' <=> Registered(d)
  BY DEF Callback, userVars, Registered
<1>5. StatusOf(c)' = "answered"
  BY <1>3 DEF StatusOf
<1>6. ASSUME NEW d \in Calls, d # c PROVE StatusOf(d)' = StatusOf(d)
  BY <1>3, <1>4, <1>6 DEF StatusOf, Callback
<1>7. Status' = [Status EXCEPT ![c] = "answered"]
  BY <1>5, <1>6 DEF Status
<1> QED BY <1>1, <1>2, <1>7 DEF Promise!Answer, Status, Callback

\* release(): its own call is dropped, or nothing happens.
LEMMA ReleaseDrops ==
    ASSUME IInv, NEW c \in Calls, Release(c)
    PROVE  Promise!Drop(c) \/ UNCHANGED Promise!absVars
<1>1. \A i \in DOMAIN invokes :
          invokes[i] \in Calls /\ (i = rid[c] => invokes[i] = c)
  BY DEF IInv, TypeOK, UniqueIds, EntriesFiled, CallsKept, Registered, Release, CanStartHandler
<1>2. \A d \in Callbacks(invokes) \ Callbacks(invokes') : d = c /\ rid[c] \in DOMAIN invokes
  BY <1>1 DEF Callbacks, Release, Erased, Restrict
<1>3. UNCHANGED <<answers, raced>> /\ \A d \in Calls : Registered(d)' <=> Registered(d)
  BY DEF Release, userVars, Registered
<1>4. CASE dropped' = dropped
  BY <1>3, <1>4, Unseen
<1>5. CASE dropped' # dropped
  <2>1. dropped' = dropped \cup {c} /\ rid[c] \in DOMAIN invokes /\ invokes[rid[c]] = c
    BY <1>1, <1>2, <1>5 DEF Release
  <2>2. c \in Timed /\ Registered(c) /\ answers[c] = 0 /\ c \notin dropped
    BY <2>1, InvocationsAssumption DEF IInv, EntriesFiled, CallsKept, Release
  <2>3. StatusOf(c) = "open" /\ StatusOf(c)' = "dropped"
    BY <1>3, <2>1, <2>2 DEF StatusOf
  <2>4. ASSUME NEW d \in Calls, d # c PROVE StatusOf(d)' = StatusOf(d)
    BY <1>3, <2>1, <2>4 DEF StatusOf
  <2>5. Status' = [Status EXCEPT ![c] = "dropped"]
    BY <2>3, <2>4 DEF Status
  <2> QED BY <1>3, <2>2, <2>3, <2>5 DEF Promise!Drop, Status
<1> QED BY <1>4, <1>5

\* A racing release(): whatever is destroyed is lost.
LEMMA ReleaseRacesLoses ==
    ASSUME IInv, NEW c \in Calls, ReleaseRaces(c)
    PROVE  Promise!Lose(dropped' \ dropped)
<1>1. PICK keep \in SUBSET DOMAIN invokes :
          dropped' = dropped \cup (Callbacks(invokes) \ Callbacks(Restrict(invokes, keep)))
  BY DEF ReleaseRaces
<1>2. \A d \in Callbacks(invokes) : d \in Calls /\ Registered(d) /\ answers[d] = 0 /\ d \notin dropped
  BY DEF IInv, TypeOK, EntriesFiled, Callbacks
<1>3. UNCHANGED answers /\ raced' /\ \A d \in Calls : Registered(d)' <=> Registered(d)
  BY DEF ReleaseRaces, userVars, Registered
<1>4. \A d \in dropped' \ dropped : StatusOf(d) = "open" /\ d \in Calls
  BY <1>1, <1>2 DEF StatusOf
<1>5. ASSUME NEW d \in Calls
      PROVE  StatusOf(d)' = IF d \in dropped' \ dropped THEN "dropped" ELSE StatusOf(d)
  BY <1>1, <1>2, <1>3 DEF StatusOf
<1> QED BY <1>3, <1>4, <1>5, InvocationsAssumption DEF Promise!Lose, IInv, TypeOK, ReleaseRaces

\* Every step maps to a step of AbstractCalls or to a stutter.
LEMMA NextPromise == IInv /\ [Next]_vars => [Promise!Next]_(Promise!absVars)
<1> SUFFICES ASSUME IInv, [Next]_vars PROVE Promise!Next \/ UNCHANGED Promise!absVars
  OBVIOUS
<1>1. ASSUME NEW c \in Calls, AllocateId(c) \/ CallGoesOn(c) \/ TimerExpires(c)
      PROVE  Promise!Next \/ UNCHANGED Promise!absVars
  <2>1. CASE Register(c)
    BY <2>1, RegisterOpens DEF Promise!Next
  <2>2. CASE RegisterLost(c)
    BY <2>2, RegisterLostLoses DEF Promise!Next
  <2>3. CASE AllocateId(c) \/ ArmTimer(c) \/ LockInvokes(c) \/ Request(c)
    BY <2>3, Unseen DEF AllocateId, ArmTimer, LockInvokes, Request,
       history, Registered, IInv, TypeOK
  <2>4. CASE WaitReady(c) \/ WaitTimeout(c) \/ TimerExpires(c)
    BY <2>4, Unseen DEF WaitReady, WaitTimeout, TimerExpires,
       userVars, history, Registered, IInv, TypeOK
  <2> QED BY <1>1, <2>1, <2>2, <2>3, <2>4 DEF CallGoesOn
<1>2. CASE OtherRequest \/ UserStop
  BY <1>2, Unseen DEF OtherRequest, UserStop, userVars, history, Registered
<1>3. ASSUME NEW response \in sent, FindHandler(response) PROVE UNCHANGED Promise!absVars
  BY <1>3, Unseen DEF FindHandler, userVars, history, Registered
<1>4. CASE Callback
  BY <1>4, CallbackAnswers DEF Promise!Next, Callback, IInv, TypeOK, HandlerInHand
<1>5. CASE EraseEntry
  BY <1>5, Unseen DEF EraseEntry, userVars, history, Registered
<1>6. ASSUME NEW c \in Calls, TimerHandler(c) PROVE Promise!Next \/ UNCHANGED Promise!absVars
  <2>1. CASE Release(c)
    BY <2>1, ReleaseDrops DEF Promise!Next
  <2>2. CASE ReleaseRaces(c)
    <3>1. dropped' \ dropped \in SUBSET Calls
      BY <2>2, NextIInv DEF IInv, TypeOK
    <3> QED BY <2>2, <3>1, ReleaseRacesLoses DEF Promise!Next
  <2> QED BY <1>6, <2>1, <2>2 DEF TimerHandler
<1>7. CASE UNCHANGED vars
  BY <1>7, Unseen DEF vars, userVars, history, Registered
<1> QED BY <1>1, <1>2, <1>3, <1>4, <1>5, <1>6, <1>7 DEF Next, RunThread

\* The client keeps the promise of AbstractCalls: a callback is called at
\* most once, after it was registered, and is given up uncalled only for a
\* call with a timeout.
THEOREM ImplementsPromise == Spec => KeepsPromise
BY InitPromise, NextPromise, Invariance, PTL DEF Spec, KeepsPromise, Promise!Spec
=============================================================================
