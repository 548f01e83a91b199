---------------------------- MODULE BudgetLedger ----------------------------
(***************************************************************************)
(* What the cost guard promises for one simulations row, a control row of  *)
(* a live run included: a ledger that only grows, by the real cost of      *)
(* calls that were admitted while the ledger plus their estimate was       *)
(* within the cap.  Each call brings its cap along; it does not change,    *)
(* since all callers of one row take it from the same settings.            *)
(***************************************************************************)
EXTENDS Integers

CONSTANTS
    Estimates,  \* what a call may be estimated at
    Actuals     \* what a call may turn out to cost

VARIABLES
    cap,        \* the hard_cap_usd argument of the row's callers
    logged      \* SUM(llm_call_log.cost_usd) of the row

vars == <<cap, logged>>

Init == logged = 0

Charge(estimate, cost) ==
    /\ logged + estimate <= cap
    /\ logged' = logged + cost
    /\ UNCHANGED cap

Next == \E e \in Estimates, a \in Actuals : Charge(e, a)

Spec == Init /\ [][Next]_vars
=============================================================================
