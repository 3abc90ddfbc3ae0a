-------------------------- MODULE HostRuntimeProofs --------------------------
(***************************************************************************)
(* The ticker thread outlives every call, for any number of plugins and    *)
(* any budgets: a caller holds the engine, a held engine has not stopped   *)
(* its ticker, and a ticker ends only when it is stopped.                  *)
(***************************************************************************)
EXTENDS HostRuntime, TLAPS

PcType == pc \in [Plugins -> {"idle", "instantiate", "guest", "host"}]
CallerHolds == \A p \in Plugins : pc[p] # "idle" => p \in handles
HeldRuns == handles # {} => ~stop
EndedStopped == ticker = "ended" => stop

IInv == PcType /\ CallerHolds /\ HeldRuns /\ EndedStopped

LEMMA InitInductive == Init => IInv
BY DEF Init, IInv, PcType, CallerHolds, HeldRuns, EndedStopped, Handles

(* A step that leaves the engine alone and does not start a call.           *)
LEMMA EngineUntouched ==
  ASSUME IInv, UNCHANGED engine, PcType',
         \A p \in Plugins : pc'[p] # "idle" => pc[p] # "idle"
  PROVE  IInv'
BY DEF IInv, PcType, CallerHolds, HeldRuns, EndedStopped, engine

LEMMA CallInductive ==
  ASSUME IInv, NEW p \in Plugins, NEW b \in Budgets, Call(p, b)
  PROVE  IInv'
BY DEF IInv, PcType, CallerHolds, HeldRuns, EndedStopped, engine, Call

LEMMA AdvanceInductive ==
  ASSUME IInv, NEW p \in Plugins, Advance(p)
  PROVE  IInv'
<1> USE DEF IInv, PcType
<1>1. ASSUME NEW kind, Return(p, kind), pc[p] # "idle" PROVE IInv'
  <2>1. UNCHANGED engine /\ pc' = [pc EXCEPT ![p] = "idle"]
    BY <1>1 DEF Return
  <2> QED
    BY <2>1, EngineUntouched
<1>2. CASE Instantiate(p)
  <2>1. pc[p] # "idle"
    BY <1>2 DEF Instantiate
  <2>2. CASE Return(p, "memory")
    BY <1>1, <2>1, <2>2
  <2>3. CASE UNCHANGED engine /\ pc' = [pc EXCEPT ![p] = "guest"]
    BY <2>1, <2>3, EngineUntouched
  <2> QED
    BY <1>2, <2>2, <2>3 DEF Instantiate
<1>3. CASE Compute(p) \/ Grow(p)
  BY <1>3, EngineUntouched DEF Compute, Grow
<1>4. CASE CallHost(p)
  BY <1>4, EngineUntouched DEF CallHost, Runs
<1>5. CASE HostReturns(p)
  BY <1>5, EngineUntouched DEF HostReturns
<1>6. CASE Finish(p)
  <2>1. pc[p] # "idle"
    BY <1>6 DEF Finish, Runs
  <2>2. CASE \E kind \in {"returned", "rejected"} : Return(p, kind)
    BY <1>1, <2>1, <2>2
  <2>3. CASE UNCHANGED <<engine, pc>>
    BY <2>3, EngineUntouched
  <2> QED
    BY <1>6, <2>2, <2>3 DEF Finish
<1>7. CASE Trap(p) \/ OutOfFuel(p) \/ Interrupt(p)
  BY <1>1, <1>7 DEF Trap, OutOfFuel, Interrupt, Runs
<1> QED
  BY <1>2, <1>3, <1>4, <1>5, <1>6, <1>7 DEF Advance

LEMMA DropInductive ==
  ASSUME IInv, NEW h \in Handles, Drop(h)
  PROVE  IInv'
<1>1. pc' = pc /\ ticker' = ticker /\ handles' = handles \ {h} /\ stop' = (handles' = {})
  BY DEF Drop
<1>2. CallerHolds'
  BY <1>1 DEF IInv, CallerHolds, Drop
<1>3. HeldRuns' /\ PcType'
  BY <1>1 DEF IInv, HeldRuns, PcType
<1>4. EndedStopped'
  <2>1. ~stop
    BY DEF Drop, IInv, HeldRuns
  <2> QED
    BY <1>1, <2>1 DEF IInv, EndedStopped
<1> QED
  BY <1>2, <1>3, <1>4 DEF IInv

LEMMA TickerInductive ==
  ASSUME IInv, TickerCheck \/ Tick \/ Pass
  PROVE  IInv'
BY DEF IInv, PcType, CallerHolds, HeldRuns, EndedStopped, TickerCheck, Tick, Pass

LEMMA Inductive == Spec => []IInv
<1>1. IInv /\ [Next]_vars => IInv'
  <2> SUFFICES ASSUME IInv, [Next]_vars PROVE IInv'
    OBVIOUS
  <2>1. CASE UNCHANGED vars
    BY <2>1 DEF vars, engine, IInv, PcType, CallerHolds, HeldRuns, EndedStopped
  <2>2. CASE Next
    BY <2>2, CallInductive, AdvanceInductive, DropInductive, TickerInductive DEF Next
  <2> QED
    BY <2>1, <2>2
<1> QED
  BY InitInductive, <1>1, PTL DEF Spec

(* While a call runs, the thread that can interrupt it runs, whoever else   *)
(* has dropped the engine.                                                  *)
THEOREM CallsCanBeInterrupted == Spec => []TickerOutlivesCalls
<1>1. IInv => TickerOutlivesCalls
  BY DEF IInv, CallerHolds, HeldRuns, EndedStopped, TickerOutlivesCalls
<1> QED
  BY Inductive, <1>1, PTL
-----------------------------------------------------------------------------
(* No call is killed early.  Two ticks are a cadence apart, so a call that  *)
(* has seen n of them is at least n - 1 cadences old; the deadline is the   *)
(* limit rounded up to cadences, so the call is old enough, up to one.      *)

(* What the time of a running call and of the ticker's sleep range over.    *)
TimeType ==
  /\ nap \in 0..Cadence
  /\ budget \in [Plugins -> Budgets]
  /\ ticks \in [Plugins -> Nat]
  /\ age \in [Plugins -> 0..MaxAge]
  /\ outcome \in [Plugins -> {"none", "memory", "returned", "rejected", "bug", "fuel", "time"}]

SleptFor == IF ticker = "sleep" THEN nap ELSE 0

(* A running call has aged with the ticks it saw and the sleep since.       *)
Aged(p) == age[p] = MaxAge \/ age[p] + Cadence >= ticks[p] * Cadence + SleptFor

TicksTakeTime == \A p \in Plugins : pc[p] # "idle" => Aged(p)

TimeInv == TimeType /\ TicksTakeTime /\ TimeNotEarly

(* The larger and the smaller of two numbers. *)
LEMMA MaxOfTwo ==
  ASSUME NEW a \in Int, NEW b \in Int
  PROVE  Max({a, b}) \in {a, b} /\ Max({a, b}) >= a /\ Max({a, b}) >= b
<1>1. \E x \in {a, b} : \A y \in {a, b} : x >= y
  BY SMT
<1> QED BY <1>1 DEF Max

LEMMA MinOfTwo ==
  ASSUME NEW a \in Int, NEW b \in Int
  PROVE  Min({a, b}) \in {a, b} /\ Min({a, b}) <= a /\ Min({a, b}) <= b
<1>1. \E x \in {a, b} : \A y \in {a, b} : x <= y
  BY SMT
<1> QED BY <1>1 DEF Min

(* Multiplication keeps the order. *)
LEMMA Monotone ==
  ASSUME NEW m \in Nat, NEW n \in Nat, m <= n, NEW c \in Nat
  PROVE  m * c <= n * c
<1>1. PICK d \in Nat : n = m + d
  BY n - m \in Nat, n = m + (n - m)
<1>2. n * c = m * c + d * c
  BY <1>1
<1>3. d * c >= 0
  OBVIOUS
<1>4. m * c \in Nat /\ d * c \in Nat
  OBVIOUS
<1> QED BY <1>2, <1>4

(* Rounding up to cadences covers the limit. *)
LEMMA CeilingCovers ==
  ASSUME NEW w \in Nat, NEW c \in Nat \ {0}
  PROVE  /\ (w + c - 1) \div c \in Nat
         /\ ((w + c - 1) \div c) * c >= w
OBVIOUS
(* As many ticks as the deadline has are as long as the limit.              *)
LEMMA DeadlineCovers ==
  ASSUME NEW b \in Budgets
  PROVE  Deadline(b) \in Nat /\ b.wall \in 0..MaxAge /\ Deadline(b) * Cadence >= b.wall
<1>1. b.wall \in 0..MaxAge /\ b.wall \in Nat /\ Cadence \in Nat \ {0}
  BY BudgetsAssumption, TimeAssumption
<1> DEFINE q == (b.wall + Cadence - 1) \div Cadence
<1>2. q \in Nat /\ q * Cadence >= b.wall
  BY <1>1, CeilingCovers
<1>3. Deadline(b) \in {q, 1} /\ Deadline(b) >= q
  <2>1. q \in Int /\ 1 \in Int
    BY <1>2
  <2>2. Max({q, 1}) \in {q, 1} /\ Max({q, 1}) >= q
    <3> HIDE DEF q
    <3> QED
      BY <2>1, MaxOfTwo
  <2> QED
    BY <2>2 DEF Deadline
<1>4. q * Cadence <= Deadline(b) * Cadence
  BY <1>1, <1>2, <1>3, Monotone
<1>5. q * Cadence \in Nat /\ Deadline(b) * Cadence \in Nat
  BY <1>1, <1>2, <1>3
<1> QED
  BY <1>1, <1>2, <1>3, <1>4, <1>5

LEMMA InitTime == Init => TimeInv
<1> SUFFICES ASSUME Init PROVE TimeInv
  OBVIOUS
<1> QED
  BY TimeAssumption DEF Init, TimeInv, TimeType, TicksTakeTime, TimeNotEarly

(* A step that leaves the clocks and the outcomes alone and starts no call. *)
LEMMA ClocksUntouched ==
  ASSUME TimeInv, UNCHANGED <<engine, budget, ticks, age, outcome>>,
         \A p \in Plugins : pc'[p] # "idle" => pc[p] # "idle"
  PROVE  TimeInv'
BY DEF TimeInv, TimeType, TicksTakeTime, Aged, SleptFor, TimeNotEarly, engine

LEMMA CallTime ==
  ASSUME TimeInv, NEW p \in Plugins, NEW b \in Budgets, Call(p, b)
  PROVE  TimeInv'
<1>1. TimeType'
  BY TimeAssumption DEF TimeInv, TimeType, Call, engine
<1>2. TicksTakeTime'
  <2> SUFFICES ASSUME NEW q \in Plugins, pc'[q] # "idle" PROVE Aged(q)'
    BY DEF TicksTakeTime
  <2>1. CASE q = p
    <3>1. age'[q] = 0 /\ ticks'[q] = 0 /\ nap' = nap /\ nap \in 0..Cadence
      BY <2>1 DEF Call, engine, TimeInv, TimeType
    <3> QED
      BY <3>1, TimeAssumption DEF Aged, SleptFor
  <2>2. CASE q # p
    <3>1. age'[q] = age[q] /\ ticks'[q] = ticks[q] /\ UNCHANGED <<nap, ticker>> /\ pc[q] # "idle"
      BY <2>2 DEF Call, engine, TimeInv, TimeType
    <3> QED
      BY <3>1 DEF TimeInv, TicksTakeTime, Aged, SleptFor
  <2> QED
    BY <2>1, <2>2
<1>3. TimeNotEarly'
  BY DEF TimeInv, TimeType, TimeNotEarly, Call
<1> QED
  BY <1>1, <1>2, <1>3 DEF TimeInv

(* A call that ends for time has seen its deadline, and has aged with it.   *)
LEMMA InterruptTime ==
  ASSUME TimeInv, NEW p \in Plugins, Interrupt(p)
  PROVE  TimeInv'
<1>1. pc[p] # "idle" /\ ticks[p] >= Deadline(budget[p]) /\ UNCHANGED <<engine, store>>
      /\ pc' = [pc EXCEPT ![p] = "idle"] /\ outcome' = [outcome EXCEPT ![p] = "time"]
  BY DEF Interrupt, Exhausted, Return
<1>2. TimeType'
  BY <1>1 DEF TimeInv, TimeType, engine, store
<1>3. TicksTakeTime'
  BY <1>1 DEF TimeInv, TimeType, TicksTakeTime, Aged, SleptFor, engine, store
<1>4. age[p] + Cadence >= budget[p].wall
  <2>1. budget[p] \in Budgets /\ ticks[p] \in Nat /\ age[p] \in 0..MaxAge /\ SleptFor \in Nat
    BY TimeAssumption DEF TimeInv, TimeType, SleptFor
  <2>2. /\ Deadline(budget[p]) \in Nat /\ budget[p].wall \in 0..MaxAge
        /\ Deadline(budget[p]) * Cadence >= budget[p].wall
    BY <2>1, DeadlineCovers
  <2>3. Deadline(budget[p]) * Cadence <= ticks[p] * Cadence
    BY <1>1, <2>1, <2>2, Monotone, TimeAssumption
  <2>4. Aged(p)
    BY <1>1 DEF TimeInv, TicksTakeTime
  <2>5. Deadline(budget[p]) * Cadence \in Nat /\ ticks[p] * Cadence \in Nat
    BY <2>1, <2>2, TimeAssumption
  <2>6. CASE age[p] = MaxAge
    BY <2>1, <2>2, <2>6, TimeAssumption
  <2>7. CASE age[p] + Cadence >= ticks[p] * Cadence + SleptFor
    BY <2>1, <2>2, <2>3, <2>5, <2>7, TimeAssumption
  <2> QED
    BY <2>4, <2>6, <2>7 DEF Aged
<1>5. TimeNotEarly'
  BY <1>1, <1>4 DEF TimeInv, TimeType, TimeNotEarly, store
<1> QED
  BY <1>2, <1>3, <1>5 DEF TimeInv

LEMMA AdvanceTime ==
  ASSUME TimeInv, IInv, NEW p \in Plugins, Advance(p)
  PROVE  TimeInv'
<1>1. ASSUME NEW kind \in {"memory", "returned", "rejected", "bug", "fuel"}, Return(p, kind)
      PROVE  TimeInv'
  <2>1. UNCHANGED <<engine, store>> /\ pc' = [pc EXCEPT ![p] = "idle"]
        /\ outcome' = [outcome EXCEPT ![p] = kind]
    BY <1>1 DEF Return
  <2>2. TimeType'
    BY <2>1 DEF TimeInv, TimeType, engine, store
  <2>3. TicksTakeTime' /\ TimeNotEarly'
    BY <2>1 DEF TimeInv, TimeType, TicksTakeTime, Aged, SleptFor, TimeNotEarly, engine, store, IInv, PcType
  <2> QED
    BY <2>2, <2>3 DEF TimeInv
<1>2. CASE Instantiate(p)
  <2>1. CASE Return(p, "memory")
    BY <1>1, <2>1
  <2>2. CASE pc' = [pc EXCEPT ![p] = "guest"] /\ UNCHANGED <<engine, budget, ticks, age, outcome>>
    BY <1>2, <2>2, ClocksUntouched DEF IInv, PcType, Instantiate
  <2> QED
    BY <1>2, <2>1, <2>2 DEF Instantiate
<1>3. CASE Compute(p) \/ Grow(p)
  BY <1>3, ClocksUntouched DEF Compute, Grow
<1>4. CASE CallHost(p)
  BY <1>4, ClocksUntouched DEF CallHost, Runs, IInv, PcType
<1>5. CASE HostReturns(p)
  BY <1>5, ClocksUntouched DEF HostReturns, store, IInv, PcType
<1>6. CASE Finish(p)
  <2>1. CASE \E kind \in {"returned", "rejected"} : Return(p, kind)
    BY <1>1, <2>1
  <2>2. CASE UNCHANGED <<engine, pc, budget, ticks, age, outcome>>
    BY <2>2, ClocksUntouched
  <2> QED
    BY <1>6, <2>1, <2>2 DEF Finish
<1>7. CASE Trap(p) \/ OutOfFuel(p)
  BY <1>1, <1>7 DEF Trap, OutOfFuel
<1> QED
  BY <1>2, <1>3, <1>4, <1>5, <1>6, <1>7, InterruptTime DEF Advance

LEMMA TickTime ==
  ASSUME TimeInv, Tick
  PROVE  TimeInv'
<1>1. ticker = "sleep" /\ nap = Cadence /\ ticker' = "check" /\ UNCHANGED <<nap, pc, budget, age, outcome>>
  BY DEF Tick
<1>2. ASSUME NEW p \in Plugins PROVE ticks'[p] \in Nat /\ ticks'[p] <= ticks[p] + 1
  <2>1. Deadline(budget[p]) \in Nat /\ ticks[p] \in Nat
    BY DeadlineCovers DEF TimeInv, TimeType
  <2>2. ticks'[p] = Min({ticks[p] + 1, Deadline(budget[p])})
    BY DEF Tick
  <2> DEFINE t == ticks[p] + 1
             d == Deadline(budget[p])
  <2>3. t \in Int /\ d \in Int /\ t \in Nat
    BY <2>1
  <2>4. Min({t, d}) \in {t, d} /\ Min({t, d}) <= t
    <3> HIDE DEF t, d
    <3> QED
      BY <2>3, MinOfTwo
  <2> QED
    BY <2>1, <2>2, <2>4
<1>3. TimeType'
  BY <1>1, <1>2 DEF TimeInv, TimeType, Tick
<1>4. ASSUME NEW p \in Plugins, pc'[p] # "idle" PROVE Aged(p)'
  <2>1. Aged(p) /\ ticks[p] \in Nat /\ age[p] \in 0..MaxAge
    BY <1>1, <1>4 DEF TimeInv, TimeType, TicksTakeTime
  <2>2. CASE age[p] = MaxAge
    BY <1>1, <2>2 DEF Aged
  <2>3. CASE age[p] + Cadence >= ticks[p] * Cadence + Cadence
    <3>1. (ticks[p] + 1) * Cadence = ticks[p] * Cadence + Cadence
      BY <2>1, TimeAssumption
    <3>2. ticks'[p] * Cadence <= (ticks[p] + 1) * Cadence
      BY <2>1, <1>2, Monotone, TimeAssumption
    <3>3. /\ ticks'[p] * Cadence \in Nat /\ (ticks[p] + 1) * Cadence \in Nat
          /\ ticks[p] * Cadence \in Nat
      BY <2>1, <1>2, TimeAssumption
    <3>4. age'[p] + Cadence >= ticks'[p] * Cadence
      BY <1>1, <2>1, <2>3, <3>1, <3>2, <3>3, TimeAssumption
    <3> QED
      BY <1>1, <3>3, <3>4 DEF Aged, SleptFor
  <2> QED
    BY <1>1, <2>1, <2>2, <2>3 DEF Aged, SleptFor
<1>5. TimeNotEarly'
  BY <1>1 DEF TimeInv, TimeNotEarly
<1> QED
  BY <1>3, <1>4, <1>5 DEF TimeInv, TicksTakeTime

LEMMA PassTime ==
  ASSUME TimeInv, Pass
  PROVE  TimeInv'
<1>1. /\ UNCHANGED <<ticker, pc, budget, ticks, outcome>>
      /\ nap' = Min({nap + 1, Cadence})
      /\ age' = [p \in Plugins |-> IF pc[p] = "idle" THEN age[p] ELSE Min({age[p] + 1, MaxAge})]
  BY DEF Pass
<1>2. nap' \in 0..Cadence /\ nap' <= nap + 1
  <2> DEFINE n == nap + 1
  <2>1. nap \in 0..Cadence /\ Cadence \in Int /\ n \in Int
    BY TimeAssumption DEF TimeInv, TimeType
  <2>2. Min({n, Cadence}) \in {n, Cadence} /\ Min({n, Cadence}) <= n /\ Min({n, Cadence}) <= Cadence
    <3> HIDE DEF n
    <3> QED
      BY <2>1, MinOfTwo
  <2> QED
    BY <1>1, <2>1, <2>2, TimeAssumption
<1>3. ASSUME NEW p \in Plugins
      PROVE  /\ age'[p] \in 0..MaxAge /\ age'[p] >= age[p]
             /\ pc[p] # "idle" => age'[p] = MaxAge \/ age'[p] = age[p] + 1
  <2>1. age[p] \in 0..MaxAge
    BY DEF TimeInv, TimeType
  <2>2. Min({age[p] + 1, MaxAge}) \in {age[p] + 1, MaxAge} /\ Min({age[p] + 1, MaxAge}) <= MaxAge
        /\ Min({age[p] + 1, MaxAge}) >= age[p]
    <3> DEFINE a == age[p] + 1
    <3>1. a \in Int /\ MaxAge \in Int
      BY <2>1, TimeAssumption
    <3>2. Min({a, MaxAge}) \in {a, MaxAge} /\ Min({a, MaxAge}) <= MaxAge
      <4> HIDE DEF a
      <4> QED
        BY <3>1, MinOfTwo
    <3> QED
      BY <2>1, <3>2, TimeAssumption
  <2> QED
    BY <1>1, <2>1, <2>2, TimeAssumption
<1>4. TimeType'
  BY <1>1, <1>2, <1>3 DEF TimeInv, TimeType
<1>5. ASSUME NEW p \in Plugins, pc'[p] # "idle" PROVE Aged(p)'
  <2>1. Aged(p) /\ ticks[p] \in Nat /\ age[p] \in 0..MaxAge /\ nap \in 0..Cadence /\ pc[p] # "idle"
    BY <1>1, <1>5 DEF TimeInv, TimeType, TicksTakeTime
  <2>2. ticks[p] * Cadence \in Nat
    BY <2>1, TimeAssumption
  <2>3. CASE age'[p] = MaxAge
    BY <2>3 DEF Aged
  <2>4. CASE age'[p] = age[p] + 1 /\ age'[p] # MaxAge
    <3>1. age[p] # MaxAge
      BY <1>3, <2>1, <2>4, TimeAssumption
    <3>2. age[p] + Cadence >= ticks[p] * Cadence + SleptFor
      BY <2>1, <3>1 DEF Aged
    <3>3. SleptFor \in Nat /\ SleptFor' \in Nat /\ SleptFor' <= SleptFor + 1
      BY <1>1, <1>2, <2>1, TimeAssumption DEF SleptFor
    <3>4. age'[p] + Cadence >= ticks[p] * Cadence + SleptFor'
      BY <2>1, <2>2, <2>4, <3>2, <3>3, TimeAssumption
    <3> QED
      BY <1>1, <3>4 DEF Aged
  <2> QED
    BY <1>3, <2>1, <2>3, <2>4
<1>6. ASSUME NEW p \in Plugins, outcome'[p] = "time" PROVE age'[p] + Cadence >= budget'[p].wall
  <2>1. age[p] + Cadence >= budget[p].wall
    BY <1>1, <1>6 DEF TimeInv, TimeNotEarly
  <2>2. budget[p].wall \in 0..MaxAge /\ age[p] \in 0..MaxAge
    BY DeadlineCovers DEF TimeInv, TimeType
  <2> QED
    BY <1>1, <1>3, <2>1, <2>2, TimeAssumption
<1> QED
  BY <1>4, <1>5, <1>6 DEF TimeInv, TicksTakeTime, TimeNotEarly

LEMMA TimeInductive == Spec => []TimeInv
<1>1. IInv /\ TimeInv /\ [Next]_vars => TimeInv'
  <2> SUFFICES ASSUME IInv, TimeInv, [Next]_vars PROVE TimeInv'
    OBVIOUS
  <2>1. CASE UNCHANGED vars
    BY <2>1, ClocksUntouched DEF vars, store
  <2>2. ASSUME NEW h \in Handles, Drop(h) PROVE TimeInv'
    BY <2>2 DEF Drop, store, TimeInv, TimeType, TicksTakeTime, Aged, SleptFor, TimeNotEarly
  <2>3. CASE TickerCheck
    BY <2>3, TimeAssumption DEF TickerCheck, store, TimeInv, TimeType, TicksTakeTime, Aged, SleptFor, TimeNotEarly
  <2> QED
    BY <2>1, <2>2, <2>3, CallTime, AdvanceTime, TickTime, PassTime DEF Next
<1> QED
  BY Inductive, InitTime, <1>1, PTL DEF Spec

(* A call that is killed for time has run for its wall clock limit, up to   *)
(* the one cadence of which the first tick may come early.                  *)
THEOREM NotKilledEarly == Spec => []TimeNotEarly
<1>1. TimeInv => TimeNotEarly
  BY DEF TimeInv
<1> QED
  BY TimeInductive, <1>1, PTL
=============================================================================
