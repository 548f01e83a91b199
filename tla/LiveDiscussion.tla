--------------------------- MODULE LiveDiscussion ---------------------------
(***************************************************************************)
(* The discussion stage of a live run and the final-ballot repair after    *)
(* it: run_live_discussion (orchestration/live_discussion_pipeline.py),    *)
(* call_with_retry, repair_missing_final_ballots and the completeness gate *)
(* of the orchestrator.                                                    *)
(*                                                                         *)
(* One coroutine asks the personas one after the other.  A public turn is  *)
(* committed as it is spoken; the private ballots stay in memory until one *)
(* transaction writes them all.  Each of the two parts spends against a    *)
(* control row of its own, whose sum the cost guard compares with the cap. *)
(***************************************************************************)
EXTENDS Integers, FiniteSets

CONSTANTS
    MinPersonas,    \* a smaller society is not discussed (4 in the code)
    MaxPersonas,    \* bound: the largest society
    PublicRounds,   \* public rounds (4 in the code)
    MaxAttempts,    \* max_attempts of call_with_retry
    Stances, Neutral, None,     \* Neutral is needs_more_information
    Estimate, RepairEstimate,   \* the estimates of the two parts' calls
    Costs,          \* what a call may cost
    BaseCap, AmazonBuffer, TechBuffer, HardCeiling,     \* the settings
    Budgets         \* explicit budgets an operator may give

ASSUME SocietyAssumption ==
    MinPersonas \in Nat \ {0} /\ MaxPersonas \in Nat /\ PublicRounds \in Nat
        /\ MaxAttempts \in Nat \ {0}
ASSUME StancesAssumption == Neutral \in Stances /\ None \notin Stances
ASSUME MoneyAssumption ==
    /\ Estimate \in Nat /\ RepairEstimate \in Nat /\ Costs \subseteq Nat
    /\ BaseCap \in Nat /\ AmazonBuffer \in Nat /\ TechBuffer \in Nat
    /\ HardCeiling \in Nat /\ Budgets \subseteq Nat

VARIABLES
    size,       \* how many personas the run has: 1 .. size, in group order
    cap,        \* the cap the stage resolved
    \* --- what is committed
    session,    \* discussion_sessions.status
    turns,      \* <<round, persona>> of the discussion_turns rows
    ballots,    \* discussion_private_ballots, a stance for stage and persona
    spent,      \* the ledger of each control row
    \* --- the coroutine
    pc, round, at, attempt,
    drafts,     \* the ballots in memory
    repaired    \* the stances the repair ladder obtained

config == <<size, cap>>
committed == <<session, turns, ballots>>
vars == <<config, committed, spent, pc, round, at, attempt, drafts, repaired>>

Least(a, b) == IF a < b THEN a ELSE b

\* resolve_live_discussion_cap_usd.
ResolveCap(amazon, tech, budget) ==
    IF budget # None THEN Least(budget, HardCeiling)
    ELSE IF ~amazon /\ ~tech THEN BaseCap
    ELSE Least(BaseCap + (IF amazon THEN AmazonBuffer ELSE 0)
                       + (IF tech THEN TechBuffer ELSE 0), HardCeiling)

Personas == 1 .. size
BallotStages == {"pre", "reflection", "final"}
NoBallots == [s \in BallotStages |-> [p \in 1 .. MaxPersonas |-> None]]
FinalRound == PublicRounds + 2
IsPublic(r) == r \in 1 .. PublicRounds
StageOf(r) == IF r = 0 THEN "pre" ELSE IF r = FinalRound THEN "final" ELSE "reflection"
Ended == {"done", "failed", "dead"}

Init ==
    /\ size \in 1 .. MaxPersonas
    /\ \E amazon, tech \in BOOLEAN, budget \in Budgets \cup {None} :
         cap = ResolveCap(amazon, tech, budget)
    /\ session = "none" /\ turns = {} /\ ballots = NoBallots
    /\ spent = [discussion |-> 0, repair |-> 0]
    /\ pc = "start" /\ round = 0 /\ at = 1 /\ attempt = 1
    /\ drafts = NoBallots /\ repaired = [p \in 1 .. MaxPersonas |-> None]

-----------------------------------------------------------------------------
(* run_live_discussion.                                                    *)

Open ==
    /\ pc = "start" /\ size >= MinPersonas
    /\ session' = "running" /\ pc' = "ask"
    /\ UNCHANGED <<config, turns, ballots, spent, round, at, attempt, drafts, repaired>>

\* The stage is skipped, which the orchestrator takes for a StageError.
TooFew ==
    /\ pc = "start" /\ size < MinPersonas
    /\ pc' = "failed"
    /\ UNCHANGED <<config, committed, spent, round, at, attempt, drafts, repaired>>

\* On to the next persona, the next round, or the ballots.
Advance ==
    /\ attempt' = 1
    /\ \/ at < size /\ at' = at + 1 /\ UNCHANGED <<round, pc>>
       \/ at = size /\ round < FinalRound
            /\ at' = 1 /\ round' = round + 1 /\ UNCHANGED pc
       \/ at = size /\ round = FinalRound
            /\ pc' = "persist" /\ UNCHANGED <<at, round>>

EstimateOf == [discussion |-> Estimate, repair |-> RepairEstimate]
Affordable(row) == spent[row] + EstimateOf[row] <= cap
Charge(row) == \E c \in Costs : spent' = [spent EXCEPT ![row] = @ + c]

\* A private round: the answer parses and holds an allowed stance.
Declare ==
    /\ pc = "ask" /\ ~IsPublic(round) /\ Affordable("discussion")
    /\ Charge("discussion")
    /\ \E s \in Stances : drafts' = [drafts EXCEPT ![StageOf(round)][at] = s]
    /\ Advance
    /\ UNCHANGED <<config, committed, repaired>>

\* A public round: the turn is committed at once.
Speak ==
    /\ pc = "ask" /\ IsPublic(round) /\ Affordable("discussion")
    /\ Charge("discussion")
    /\ turns' = turns \cup {<<round, at>>}
    /\ Advance
    /\ UNCHANGED <<config, session, ballots, drafts, repaired>>

\* No JSON, or an object without an allowed stance or a text: the persona has
\* no say in this round.  JSON that is no object is not passed over: StageBreaks.
Unusable ==
    /\ pc = "ask" /\ Affordable("discussion")
    /\ Charge("discussion") /\ Advance
    /\ UNCHANGED <<config, committed, drafts, repaired>>

\* CostCapExceeded, a terminal provider error or the last attempt: the call
\* returns None and the persona is passed over.
PassOver ==
    /\ pc = "ask" /\ Advance
    /\ UNCHANGED <<config, committed, spent, drafts, repaired>>

\* Mutant of Retry: after the last attempt it starts over.
RetryForever ==
    /\ pc = "ask"
    /\ attempt' = 1 + (attempt % MaxAttempts)
    /\ UNCHANGED <<config, committed, spent, pc, round, at, drafts, repaired>>

\* The error looks transient, and attempts are left.  The text of the error
\* decides, so that of a CostCapExceeded may look transient too.
Retry ==
    /\ pc = "ask" /\ attempt < MaxAttempts
    /\ attempt' = attempt + 1
    /\ UNCHANGED <<config, committed, spent, pc, round, at, drafts, repaired>>

\* Mutant of PersistBallots: the reflections stay in memory.
PersistWithoutReflections ==
    /\ pc = "persist"
    /\ ballots' = [drafts EXCEPT !["reflection"] = NoBallots["reflection"]]
    /\ session' = "completed" /\ pc' = "repair"
    /\ UNCHANGED <<config, turns, spent, round, at, attempt, drafts, repaired>>

\* One transaction: every ballot, and the session is completed.
PersistBallots ==
    /\ pc = "persist"
    /\ ballots' = drafts /\ session' = "completed"
    /\ pc' = "repair"
    /\ UNCHANGED <<config, turns, spent, round, at, attempt, drafts, repaired>>

-----------------------------------------------------------------------------
(* repair_missing_final_ballots and the gate.                              *)

Missing == {p \in Personas : ballots["final"][p] = None}

Complete ==
    /\ pc = "repair" /\ Missing = {}
    /\ pc' = "gate"
    /\ UNCHANGED <<config, committed, spent, round, at, attempt, drafts, repaired>>

\* The first of the personas left in the ladder; then the insert.
TurnTo(left) ==
    \/ left = {} /\ pc' = "insert" /\ UNCHANGED at
    \/ \E p \in left : (\A q \in left : p <= q) /\ at' = p /\ pc' = "strict"

OpenRepair ==
    /\ pc = "repair" /\ Missing # {}
    /\ TurnTo(Missing)
    /\ UNCHANGED <<config, committed, spent, round, attempt, drafts, repaired>>

\* A rung of the ladder returns an allowed stance.
Repair ==
    /\ pc \in {"strict", "stricter"} /\ Affordable("repair")
    /\ Charge("repair")
    /\ \E s \in Stances : repaired' = [repaired EXCEPT ![at] = s]
    /\ TurnTo({p \in Missing : p > at})
    /\ UNCHANGED <<config, committed, round, attempt, drafts>>

\* It does not: no JSON, an object without an allowed stance, the cap, or an
\* exception of the call.  JSON that is no object ends the stage: StageBreaks.
Unrepaired ==
    /\ pc \in {"strict", "stricter"}
    /\ \/ Affordable("repair") /\ Charge("repair")
       \/ UNCHANGED spent
    /\ \/ pc = "strict" /\ pc' = "stricter" /\ UNCHANGED at
       \/ pc = "stricter" /\ TurnTo({p \in Missing : p > at})
    /\ UNCHANGED <<config, committed, round, attempt, drafts, repaired>>

\* Mutant of Fallback: the neutral stance, whatever the persona said.
FallbackNeutral(p) == Neutral

\* The deterministic fallback: the last private stance, or the neutral one.
Fallback(p) ==
    IF ballots["reflection"][p] # None THEN ballots["reflection"][p]
    ELSE IF ballots["pre"][p] # None THEN ballots["pre"][p]
    ELSE Neutral

Repairs(p) == IF repaired[p] # None THEN repaired[p] ELSE Fallback(p)

\* Mutant of InsertRepairs: the fallback drafts are left out.
InsertLadderOnly ==
    /\ pc = "insert"
    /\ ballots' = [ballots EXCEPT !["final"] =
         [p \in 1 .. MaxPersonas |-> IF p \in Missing THEN repaired[p] ELSE @[p]]]
    /\ pc' = "gate"
    /\ UNCHANGED <<config, session, turns, spent, round, at, attempt, drafts, repaired>>

\* One transaction: a final ballot for every persona that still has none.
InsertRepairs ==
    /\ pc = "insert"
    /\ ballots' = [ballots EXCEPT !["final"] =
         [p \in 1 .. MaxPersonas |-> IF p \in Missing THEN Repairs(p) ELSE @[p]]]
    /\ pc' = "gate"
    /\ UNCHANGED <<config, session, turns, spent, round, at, attempt, drafts, repaired>>

\* The run fails below 95% of the final ballots.  The audits that come before
\* the gate rewrite the texts and stances of committed ballots; they add and
\* remove none, and are outside of this module.
Gate ==
    /\ pc = "gate"
    /\ pc' = IF 100 * Cardinality(Personas \ Missing) >= 95 * size THEN "done" ELSE "failed"
    /\ UNCHANGED <<config, committed, spent, round, at, attempt, drafts, repaired>>

-----------------------------------------------------------------------------
\* A transaction of the stage itself raises.  Or an answer that has been paid for
\* is JSON but no object, so that parsed.get raises outside of every try, in any
\* round and on either rung; or a field the code takes for a string is none.
\* Errors of the guarded calls themselves never get this far.
StageBreaks ==
    /\ \/ pc \in {"start", "persist", "repair", "insert", "gate"} /\ UNCHANGED spent
       \/ pc = "ask" /\ Affordable("discussion") /\ Charge("discussion")
       \/ pc \in {"strict", "stricter"} /\ Affordable("repair") /\ Charge("repair")
    /\ pc' = "failed"
    /\ UNCHANGED <<config, committed, round, at, attempt, drafts, repaired>>

\* The process dies; a live run is never taken up again.
Crash ==
    /\ pc \notin Ended
    /\ pc' = "dead"
    /\ UNCHANGED <<config, committed, spent, round, at, attempt, drafts, repaired>>

Step ==
    \/ Open \/ TooFew \/ Declare \/ Speak \/ Unusable \/ PassOver \/ Retry
    \/ PersistBallots \/ Complete \/ OpenRepair \/ Repair \/ Unrepaired
    \/ InsertRepairs \/ Gate

Next == Step \/ StageBreaks \/ Crash

Spec == Init /\ [][Next]_vars

\* The coroutine is scheduled; a call returns, raises or times out.
FairSpec == Spec /\ WF_vars(Step)

-----------------------------------------------------------------------------
(* Properties.                                                             *)

\* Type invariant.
Ballots == [BallotStages -> [1 .. MaxPersonas -> Stances \cup {None}]]
TypeOK ==
    /\ size \in 1 .. MaxPersonas /\ cap \in Nat
    /\ session \in {"none", "running", "completed"}
    /\ turns \in SUBSET ((1 .. PublicRounds) \X (1 .. MaxPersonas))
    /\ ballots \in Ballots /\ drafts \in Ballots
    /\ spent \in [{"discussion", "repair"} -> Nat]
    /\ pc \in Ended \cup {"start", "ask", "persist", "repair", "strict",
                          "stricter", "insert", "gate"}
    /\ round \in 0 .. FinalRound /\ at \in 1 .. MaxPersonas
    /\ attempt \in 1 .. MaxAttempts
    /\ repaired \in [1 .. MaxPersonas -> Stances \cup {None}]

\* A run that gets past the repair has everyone's final ballot, whatever calls
\* were refused, failed or came back without a stance: the 95% gate never stops
\* it.  The one answer the ladder does not take is JSON that is no object: it
\* ends the stage before the insert, and such a run never sees the gate.
EveryoneVotes == pc \in {"gate", "done"} => Missing = {}

Declared(p) == {drafts[s][p] : s \in BallotStages} \cup {repaired[p]}

\* Neither part invents a vote: a final ballot is committed with a stance the
\* persona declared itself at some time, and with the neutral one of the
\* fallback only when it never declared any.
NoInventedVote ==
    \A p \in Personas : ballots["final"][p] # None =>
        \/ ballots["final"][p] \in Declared(p)
        \/ ballots["final"][p] = Neutral /\ Declared(p) = {None}

\* The session is completed together with its ballots: either none of a
\* persona's private rounds is in the database or all of them are.
SessionWhole ==
    /\ session # "completed" => ballots = NoBallots
    /\ session = "completed" =>
         \A s \in BallotStages, p \in Personas :
             drafts[s][p] # None => ballots[s][p] = drafts[s][p]

\* Discussion and repair spend as the cost guard promises, each by its own
\* control row: neither is let through on what the other has left.
DiscussionLedger == INSTANCE BudgetLedger
  WITH logged <- spent["discussion"], Estimates <- {Estimate}, Actuals <- Costs
RepairLedger == INSTANCE BudgetLedger
  WITH logged <- spent["repair"], Estimates <- {RepairEstimate}, Actuals <- Costs
ImplementsLedgers == DiscussionLedger!Spec /\ RepairLedger!Spec

\* As the ledgers count it, one run can spend its cap twice but no more: each
\* of them passes the cap by the overrun of a single call.
SpentTwiceAtMost(overrun) == spent["discussion"] + spent["repair"] <= 2 * (cap + overrun)

\* How far the coroutine is: its point and, of a call, the round, the persona
\* and the try.
PointOf ==
    [start |-> 0, ask |-> 1, persist |-> 2, repair |-> 3, strict |-> 4, stricter |-> 4,
     insert |-> 5, gate |-> 6, done |-> 7, failed |-> 7, dead |-> 7]
Try == IF pc = "ask" THEN attempt ELSE IF pc = "stricter" THEN 1 ELSE 0

\* No error, refusal or retry takes the stage back: in the order of point,
\* round, persona and try, each of them bounded, every step goes forward.
OnlyForward ==
    [][\/ PointOf[pc'] > PointOf[pc]
       \/ /\ PointOf[pc'] = PointOf[pc]
          /\ \/ round' > round
             \/ round' = round /\ at' > at
             \/ round' = round /\ at' = at /\ Try' > Try]_vars

\* However the calls fail and are retried, the stage comes to an end.
StageEnds == <>(pc \in Ended)
-----------------------------------------------------------------------------
(* The inductive invariant of LiveDiscussionProofs.                        *)

\* What each point of the coroutine relies on: how far the session is, and
\* that until the insert the table holds just what was in memory.
PointHolds ==
    /\ pc = "start" => session = "none"
    /\ pc \in {"ask", "persist"} => session = "running"
    /\ pc \in {"repair", "strict", "stricter", "insert", "gate", "done"} => session = "completed"
    /\ pc \in {"repair", "strict", "stricter", "insert"} => ballots = drafts
    /\ pc \in {"strict", "stricter"} => at \in Missing

IInv == TypeOK /\ PointHolds /\ EveryoneVotes /\ NoInventedVote /\ SessionWhole
=============================================================================
