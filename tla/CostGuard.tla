----------------------------- MODULE CostGuard -----------------------------
(***************************************************************************)
(* Concurrent callers of with_cost_guard (llm/cost_guard.py) for one       *)
(* simulation, each inside the repair loop of call_llm_for_simulation      *)
(* (pipeline/simulation/call_llm.py).  The row lock of SELECT ... FOR      *)
(* UPDATE is held from the cap check to the commit of the log row; under   *)
(* READ COMMITTED the sum read after it sees every committed row.          *)
(* Money is an integer number of the smallest unit.                        *)
(***************************************************************************)
EXTENDS Integers

CONSTANTS
    Callers,        \* tasks that call the guard for this simulation
    None,           \* no caller
    Cap,            \* hard_cap_usd
    Estimates,      \* estimates a call may have
    Actuals,        \* costs a call may turn out to have
    Overrun,        \* by how much a cost may exceed its estimate
    MaxActual,      \* the largest cost
    MaxRepairs,     \* max_repair_attempts
    MaxRequests,    \* bound: requests of a caller
    MaxFaults       \* bound: provider errors and cancellations

ASSUME CallersAssumption == None \notin Callers
ASSUME MoneyAssumption ==
    /\ Cap \in Nat /\ Overrun \in Nat /\ MaxActual \in Nat
    /\ Estimates \subseteq Nat /\ Actuals \subseteq Nat
    /\ \A e \in Estimates, a \in Actuals : a <= e + Overrun
    /\ \A a \in Actuals : a <= MaxActual
ASSUME BoundsAssumption ==
    MaxRepairs \in Nat /\ MaxRequests \in Nat /\ MaxFaults \in Nat

VARIABLES
    \* --- Postgres
    lock,       \* who holds the lock on the simulations row
    logged,     \* SUM(cost_usd) over the committed llm_call_log rows
    rows,       \* how many llm_call_log rows are committed
    \* --- the provider
    spent,      \* what the calls really cost
    calls,      \* calls that reached an end at the provider
    \* --- the callers
    pc, estimate, attempt, requests,
    charge,     \* the cost of the response a caller holds, not yet logged
    faults

vars == <<lock, logged, rows, spent, calls, pc, estimate, attempt, requests,
          charge, faults>>

Terminal == {"ok", "refused", "exhausted", "failed", "cancelled"}
Holding == {"locked", "calling", "logging"}
Points == Terminal \cup Holding \cup {"idle", "waiting", "parsing"}

Init ==
    /\ lock = None /\ logged = 0 /\ rows = 0 /\ spent = 0 /\ calls = 0
    /\ pc = [c \in Callers |-> "idle"]
    /\ estimate \in [Callers -> Estimates]
    /\ attempt = [c \in Callers |-> 0]
    /\ requests = [c \in Callers |-> 0]
    /\ charge = [c \in Callers |-> 0]
    /\ faults = 0

-----------------------------------------------------------------------------
\* A caller begins a request: the first attempt of call_llm_for_simulation.
Request(c) ==
    /\ pc[c] \in Terminal \cup {"idle"} /\ requests[c] < MaxRequests
    /\ pc' = [pc EXCEPT ![c] = "waiting"]
    /\ \E e \in Estimates : estimate' = [estimate EXCEPT ![c] = e]
    /\ attempt' = [attempt EXCEPT ![c] = 0]
    /\ requests' = [requests EXCEPT ![c] = @ + 1]
    /\ UNCHANGED <<lock, logged, rows, spent, calls, charge, faults>>

\* Mutant of Acquire: a plain SELECT, without FOR UPDATE.
AcquireUnlocked(c) ==
    /\ pc[c] = "waiting"
    /\ lock' = c /\ pc' = [pc EXCEPT ![c] = "locked"]
    /\ UNCHANGED <<logged, rows, spent, calls, estimate, attempt, requests,
                   charge, faults>>

\* SELECT ... FOR UPDATE returns.
Acquire(c) ==
    /\ pc[c] = "waiting" /\ lock = None
    /\ lock' = c /\ pc' = [pc EXCEPT ![c] = "locked"]
    /\ UNCHANGED <<logged, rows, spent, calls, estimate, attempt, requests,
                   charge, faults>>

Release(c, point) == lock' = None /\ pc' = [pc EXCEPT ![c] = point]

\* Mutant of WithinCap: the estimate is left out of the projection.
WithinCapSoFar(c) == logged <= Cap

WithinCap(c) == logged + estimate[c] <= Cap

\* projected > hard_cap_usd: CostCapExceeded, before any call.
Refuse(c) ==
    /\ pc[c] = "locked" /\ ~WithinCap(c)
    /\ Release(c, "refused")
    /\ UNCHANGED <<logged, rows, spent, calls, estimate, attempt, requests,
                   charge, faults>>

Call(c) ==
    /\ pc[c] = "locked" /\ WithinCap(c)
    /\ pc' = [pc EXCEPT ![c] = "calling"]
    /\ UNCHANGED <<lock, logged, rows, spent, calls, estimate, attempt,
                   requests, charge, faults>>

\* The provider answers; the caller still holds the lock.
Return(c) ==
    /\ pc[c] = "calling"
    /\ \E a \in Actuals : spent' = spent + a /\ charge' = [charge EXCEPT ![c] = a]
    /\ calls' = calls + 1
    /\ attempt' = [attempt EXCEPT ![c] = @ + 1]
    /\ pc' = [pc EXCEPT ![c] = "logging"]
    /\ UNCHANGED <<lock, logged, rows, estimate, requests, faults>>

\* Mutant of LogSuccess: the estimate is logged, not the cost.
LogEstimate(c) ==
    /\ pc[c] = "logging"
    /\ logged' = logged + estimate[c] /\ rows' = rows + 1
    /\ charge' = [charge EXCEPT ![c] = 0]
    /\ Release(c, "parsing")
    /\ UNCHANGED <<spent, calls, estimate, attempt, requests, faults>>

\* Mutant of LogSuccess: the transaction stays open while the response is
\* parsed.
LogUncommitted(c) ==
    /\ pc[c] = "logging"
    /\ logged' = logged + charge[c] /\ rows' = rows + 1
    /\ charge' = [charge EXCEPT ![c] = 0]
    /\ pc' = [pc EXCEPT ![c] = "parsing"]
    /\ UNCHANGED <<lock, spent, calls, estimate, attempt, requests, faults>>

\* log_llm_call and the commit of the transaction, which frees the lock.
LogSuccess(c) ==
    /\ pc[c] = "logging"
    /\ logged' = logged + charge[c] /\ rows' = rows + 1
    /\ charge' = [charge EXCEPT ![c] = 0]
    /\ Release(c, "parsing")
    /\ UNCHANGED <<spent, calls, estimate, attempt, requests, faults>>

\* The provider raises, having billed or not.  log_llm_call adds a failure
\* row, but the exception leaves session.begin() and the row is rolled back.
ProviderRaises(c) ==
    /\ pc[c] = "calling" /\ faults < MaxFaults
    /\ \E a \in Actuals \cup {0} : spent' = spent + a
    /\ calls' = calls + 1 /\ faults' = faults + 1
    /\ Release(c, "failed")
    /\ UNCHANGED <<logged, rows, estimate, attempt, requests, charge>>

\* The task is cancelled, or its worker dies: the transaction is rolled back
\* and the lock freed, whatever the call has cost.
Cancel(c) ==
    /\ pc[c] \in Holding \cup {"waiting", "parsing"} /\ faults < MaxFaults
    /\ faults' = faults + 1
    /\ \E a \in Actuals \cup {0} :
         spent' = spent + (IF pc[c] = "calling" THEN a ELSE 0)
    /\ calls' = calls + (IF pc[c] = "calling" THEN 1 ELSE 0)
    /\ charge' = [charge EXCEPT ![c] = 0]
    /\ pc' = [pc EXCEPT ![c] = "cancelled"]
    /\ lock' = IF pc[c] \in Holding THEN None ELSE lock
    /\ UNCHANGED <<logged, rows, estimate, attempt, requests>>

\* The response parses and passes the validators.
Accept(c) ==
    /\ pc[c] = "parsing"
    /\ pc' = [pc EXCEPT ![c] = "ok"]
    /\ UNCHANGED <<lock, logged, rows, spent, calls, estimate, attempt,
                   requests, charge, faults>>

\* It does not: another attempt through the guard with a repair message, or
\* LLMRepairExhausted after max_repair_attempts of them.
Repair(c) ==
    /\ pc[c] = "parsing"
    /\ pc' = [pc EXCEPT ![c] = IF attempt[c] > MaxRepairs THEN "exhausted" ELSE "waiting"]
    /\ UNCHANGED <<lock, logged, rows, spent, calls, estimate, attempt,
                   requests, charge, faults>>

Proceed(c) ==
    \/ Refuse(c) \/ Call(c) \/ Return(c) \/ LogSuccess(c) \/ Accept(c) \/ Repair(c)

Next ==
    \E c \in Callers :
        \/ Request(c) \/ Acquire(c) \/ Refuse(c) \/ Call(c) \/ Return(c)
        \/ LogSuccess(c) \/ ProviderRaises(c) \/ Cancel(c) \/ Accept(c) \/ Repair(c)

Spec == Init /\ [][Next]_vars

\* A caller keeps going, and Postgres grants a row lock in arrival order, so
\* no waiter is passed over for ever.
FairSpec == Spec /\ \A c \in Callers : WF_vars(Proceed(c)) /\ SF_vars(Acquire(c))

-----------------------------------------------------------------------------
(* Properties.                                                             *)

\* Type invariant.
TypeOK ==
    /\ lock \in Callers \cup {None}
    /\ logged \in Nat /\ rows \in Nat /\ spent \in Nat /\ calls \in Nat
    /\ pc \in [Callers -> Points]
    /\ estimate \in [Callers -> Estimates]
    /\ attempt \in [Callers -> Nat] /\ requests \in [Callers -> Nat]
    /\ charge \in [Callers -> Nat]
    /\ faults \in Nat

\* Concurrent callers cannot race the cap check: what is logged exceeds the
\* cap by no more than one call can exceed its estimate.
CapHolds == logged <= Cap + Overrun

\* What was lost to errors and cancellations is all that the ledger misses:
\* real spend is the ledger, the response now being logged, and at most one
\* call per fault.
SpendAccounted ==
    spent <= logged + (IF lock = None THEN 0 ELSE charge[lock]) + faults * MaxActual

\* Every attempt of a request, repairs included, went through the guard: the
\* loop never makes more than max_repair_attempts + 1 calls.
RepairsBounded == \A c \in Callers : attempt[c] <= MaxRepairs + 1

\* The ledger implements the abstract promise.
Ledger == INSTANCE BudgetLedger
  WITH cap <- Cap, Estimates <- Estimates, Actuals <- Actuals, logged <- logged
ImplementsLedger == Ledger!Spec

\* Every request comes to an end, however the callers contend for the row.
RequestsEnd ==
    \A c \in Callers : pc[c] = "waiting" ~> pc[c] \in Terminal

-----------------------------------------------------------------------------
(* The inductive invariant: the lock holder is the only one between the    *)
(* cap check and the commit, and it was admitted under the current sum.    *)
LockInv == \A c \in Callers : pc[c] \in Holding <=> lock = c

AdmittedInv ==
    /\ \A c \in Callers : pc[c] \in {"calling", "logging"} => WithinCap(c)
    /\ \A c \in Callers : pc[c] # "logging" => charge[c] = 0
    /\ \A c \in Callers : pc[c] = "logging" => charge[c] \in Actuals

RepairInv ==
    \A c \in Callers :
        /\ attempt[c] <= MaxRepairs + 1
        /\ pc[c] \in {"waiting", "locked", "calling"} => attempt[c] <= MaxRepairs

IInv == TypeOK /\ LockInv /\ AdmittedInv /\ RepairInv /\ CapHolds /\ SpendAccounted
=============================================================================
