----------------------------- MODULE HostRuntime -----------------------------
(***************************************************************************)
(* The plugin host (crates/forge-host/src/runtime.rs): calls of sandboxed  *)
(* plugins under a budget of fuel, memory and wall-clock time.  An Engine  *)
(* is shared by the plugins loaded on it and by its creator; one ticker    *)
(* thread advances its epoch, and a call whose epoch deadline has passed   *)
(* traps when the guest next reaches a check.  The last handle that goes   *)
(* stops the ticker and joins it.                                          *)
(*                                                                         *)
(* A call is a load (info, config schema), a transform or a generate: they *)
(* differ in what they return, not in how they are bounded.  Time is in    *)
(* units; the ticker sleeps at least Cadence of them.  The epoch is kept   *)
(* relative to the moment a call made its store.                           *)
(***************************************************************************)
EXTENDS Naturals, FiniteSetsExt

CONSTANTS
  Plugins,   (* loaded plugins, each called by a thread of its own          *)
  Main,      (* the holder of the Engine itself                             *)
  Budgets,   (* limits of a call: [fuel, memory, wall]                      *)
  Unlimited, (* a fuel budget no call uses up                               *)
  Cadence,   (* the ticker's sleep (10 ms)                                  *)
  MaxAge,    (* bound: units counted of the age of a call                   *)
  MaxPages   (* bound: memory a plugin may ask for                          *)

ASSUME TimeAssumption == Cadence \in Nat \ {0} /\ MaxAge \in Nat /\ MaxPages \in Nat
ASSUME BudgetsAssumption ==
  Budgets \subseteq [fuel : Nat \union {Unlimited}, memory : Nat, wall : 0..MaxAge]
ASSUME HandlesAssumption == Main \notin Plugins

Handles == Plugins \union {Main}

VARIABLES
  handles,  (* who holds the Engine                                         *)
  stop,     (* EpochTicker::stop                                            *)
  ticker,   (* the ticker thread: "check", "sleep", "ended"                 *)
  nap,      (* time since it went to sleep                                  *)
  pc,       (* a plugin's call: "idle", "instantiate", "guest", "host"      *)
  part,     (* the guest code that runs: "startup" or "export"              *)
  budget,   (* the limits of the call                                       *)
  fuel,     (* fuel left                                                    *)
  pages,    (* memory the guest has                                         *)
  ticks,    (* epoch increments since make_store                            *)
  age,      (* time since make_store                                        *)
  outcome   (* how the last call ended                                      *)

engine == <<handles, stop, ticker, nap>>
store == <<part, budget, fuel, pages, ticks, age>>
vars == <<engine, pc, store, outcome>>

(* Mutant: div_ceil becomes a division. *)
DeadlineFloor(b) == Max({b.wall \div Cadence, 1})

(* make_store: the wall clock limit in ticks, rounded up, at least one. *)
Deadline(b) == Max({(b.wall + Cadence - 1) \div Cadence, 1})

Init ==
  /\ handles = Handles
  /\ stop = FALSE
  /\ ticker = "check"
  /\ nap = 0
  /\ pc = [p \in Plugins |-> "idle"]
  /\ part = [p \in Plugins |-> "startup"]
  /\ budget \in [Plugins -> Budgets]
  /\ fuel = [p \in Plugins |-> 0]
  /\ pages = [p \in Plugins |-> 0]
  /\ ticks = [p \in Plugins |-> 0]
  /\ age = [p \in Plugins |-> 0]
  /\ outcome = [p \in Plugins |-> "none"]

-----------------------------------------------------------------------------
(* The life of a call. *)

(* make_store: every call has a budget of its own. *)
Call(p, b) ==
  /\ pc[p] = "idle" /\ p \in handles
  /\ pc' = [pc EXCEPT ![p] = "instantiate"]
  /\ part' = [part EXCEPT ![p] = "startup"]
  /\ budget' = [budget EXCEPT ![p] = b]
  /\ fuel' = [fuel EXCEPT ![p] = b.fuel]
  /\ pages' = [pages EXCEPT ![p] = 0]
  /\ ticks' = [ticks EXCEPT ![p] = 0]
  /\ age' = [age EXCEPT ![p] = 0]
  /\ outcome' = [outcome EXCEPT ![p] = "none"]
  /\ UNCHANGED engine

Return(p, kind) ==
  /\ pc' = [pc EXCEPT ![p] = "idle"]
  /\ outcome' = [outcome EXCEPT ![p] = kind]
  /\ UNCHANGED <<engine, store>>

(* The component declares its initial memory; more than the limit is an     *)
(* error whose text names memory and limit.                                 *)
Instantiate(p) ==
  /\ pc[p] = "instantiate"
  /\ \E n \in 0..MaxPages :
       IF n > budget[p].memory
       THEN Return(p, "memory")
       ELSE /\ pages' = [pages EXCEPT ![p] = n]
            /\ pc' = [pc EXCEPT ![p] = "guest"]
            /\ UNCHANGED <<engine, part, budget, fuel, ticks, age, outcome>>

(* Mutant: start-up code runs without a deadline. *)
ExhaustedExport(p) == part[p] = "export" /\ ticks[p] >= Deadline(budget[p])

Exhausted(p) == ticks[p] >= Deadline(budget[p])

(* The guest passes an epoch check and has fuel for what follows. *)
Runs(p) == pc[p] = "guest" /\ ~Exhausted(p) /\ fuel[p] # 0

Burnt(p) == IF fuel[p] = Unlimited THEN fuel
            ELSE [fuel EXCEPT ![p] = @ - 1]

Compute(p) ==
  /\ Runs(p)
  /\ fuel' = Burnt(p)
  /\ UNCHANGED <<engine, pc, part, budget, pages, ticks, age, outcome>>

(* memory.grow beyond the limit is refused, not trapped. *)
Grow(p) ==
  /\ Runs(p)
  /\ fuel' = Burnt(p)
  /\ pages' = IF pages[p] < budget[p].memory /\ pages[p] < MaxPages
              THEN [pages EXCEPT ![p] = @ + 1] ELSE pages
  /\ UNCHANGED <<engine, pc, part, budget, ticks, age, outcome>>

(* log, case-convert, or a WASI import: the host's code has no epoch checks. *)
CallHost(p) ==
  /\ Runs(p)
  /\ fuel' = Burnt(p)
  /\ pc' = [pc EXCEPT ![p] = "host"]
  /\ UNCHANGED <<engine, part, budget, pages, ticks, age, outcome>>

HostReturns(p) ==
  /\ pc[p] = "host"
  /\ pc' = [pc EXCEPT ![p] = "guest"]
  /\ UNCHANGED <<engine, store, outcome>>

(* Start-up code is done and the export is called; or the export returns.   *)
Finish(p) ==
  /\ Runs(p)
  /\ \/ /\ part[p] = "startup"
        /\ part' = [part EXCEPT ![p] = "export"]
        /\ UNCHANGED <<engine, pc, budget, fuel, pages, ticks, age, outcome>>
     \/ /\ part[p] = "export"
        /\ \E kind \in {"returned", "rejected"} : Return(p, kind)

(* map_call_error: a trap that is neither of the two below is a plugin bug, *)
(* or "memory" when the words of its message suggest it.                    *)
Trap(p) == Runs(p) /\ \E kind \in {"bug", "memory"} : Return(p, kind)

OutOfFuel(p) == pc[p] = "guest" /\ fuel[p] = 0 /\ Return(p, "fuel")

Interrupt(p) == pc[p] = "guest" /\ Exhausted(p) /\ Return(p, "time")

-----------------------------------------------------------------------------
(* The engine, its ticker, and time. *)

(* Mutant: a plugin does not keep the engine it was loaded on. *)
DropOfMain(h) ==
  /\ h \in handles
  /\ h \in Plugins => pc[h] = "idle"
  /\ handles' = handles \ {h}
  /\ stop' = (stop \/ h = Main)
  /\ UNCHANGED <<ticker, nap, pc, store, outcome>>

(* Mutant: the ticker is joined without being told to stop. *)
DropQuietly(h) ==
  /\ h \in handles
  /\ h \in Plugins => pc[h] = "idle"
  /\ handles' = handles \ {h}
  /\ UNCHANGED <<stop, ticker, nap, pc, store, outcome>>

(* Dropping the last handle sets the flag; the drop returns when the ticker *)
(* has ended.                                                               *)
Drop(h) ==
  /\ h \in handles
  /\ h \in Plugins => pc[h] = "idle"
  /\ handles' = handles \ {h}
  /\ stop' = (handles' = {})
  /\ UNCHANGED <<ticker, nap, pc, store, outcome>>

TickerCheck ==
  /\ ticker = "check"
  /\ ticker' = IF stop THEN "ended" ELSE "sleep"
  /\ nap' = 0
  /\ UNCHANGED <<handles, stop, pc, store, outcome>>

(* The sleep is over, and increment_epoch counts for every live store. *)
Tick ==
  /\ ticker = "sleep" /\ nap = Cadence
  /\ ticker' = "check"
  /\ ticks' = [p \in Plugins |-> Min({ticks[p] + 1, Deadline(budget[p])})]
  /\ UNCHANGED <<handles, stop, nap, pc, part, budget, fuel, pages, age, outcome>>

Pass ==
  /\ nap' = Min({nap + 1, Cadence})
  /\ age' = [p \in Plugins |-> IF pc[p] = "idle" THEN age[p] ELSE Min({age[p] + 1, MaxAge})]
  /\ UNCHANGED <<handles, stop, ticker, pc, part, budget, fuel, pages, ticks, outcome>>

Advance(p) ==
  \/ Instantiate(p)
  \/ Compute(p)
  \/ Grow(p)
  \/ CallHost(p)
  \/ HostReturns(p)
  \/ Finish(p)
  \/ Trap(p)
  \/ OutOfFuel(p)
  \/ Interrupt(p)

Next ==
  \/ \E p \in Plugins, b \in Budgets : Call(p, b)
  \/ \E p \in Plugins : Advance(p)
  \/ \E h \in Handles : Drop(h)
  \/ TickerCheck
  \/ Tick
  \/ Pass

(* Time passes; the operating system schedules the ticker, and a guest that *)
(* has reached a check; wasmtime instantiates, and host functions return.   *)
(* Guest code owes nothing: it may compute or call the host for ever.       *)
Fairness ==
  /\ WF_vars(Pass)
  /\ WF_vars(TickerCheck)
  /\ WF_vars(Tick)
  /\ \A p \in Plugins : WF_vars(Instantiate(p) \/ HostReturns(p) \/ Interrupt(p))

Spec == Init /\ [][Next]_vars /\ Fairness

-----------------------------------------------------------------------------
(* Properties. *)

(* A plugin is not killed for time before its wall clock limit, up to the   *)
(* one cadence of which the first tick may come early (runtime.rs:172-173). *)
TimeNotEarly ==
  \A p \in Plugins : outcome[p] = "time" => age[p] + Cadence >= budget[p].wall

(* While a call runs, the thread that can interrupt it runs, whichever      *)
(* other holders of the engine are gone.                                    *)
TickerOutlivesCalls ==
  \A p \in Plugins : pc[p] # "idle" => ~stop /\ ticker # "ended"

(* Every call ends, also of a plugin that loops for ever on a fuel budget   *)
(* it cannot use up.                                                        *)
CallsEnd == \A p \in Plugins : pc[p] # "idle" ~> pc[p] = "idle"

(* Dropping the engine does not hang on the join.                           *)
ShutdownEnds == handles = {} ~> ticker = "ended"
=============================================================================
