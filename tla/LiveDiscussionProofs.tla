------------------------ MODULE LiveDiscussionProofs ------------------------
(* Proofs about LiveDiscussion, for any number of personas, public rounds   *)
(* and attempts, any cap and any costs, and about the placement into groups *)
(* that precedes it, for any society, profiles and group size.              *)
EXTENDS LiveDiscussion, GroupAssignment, FiniteSetTheorems, FunctionTheorems, TLAPS

----------------------------------------------------------------------------
LEMMA PersonasTyped ==
  ASSUME size \in 1 .. MaxPersonas
  PROVE  Personas \subseteq 1 .. MaxPersonas
  BY SocietyAssumption DEF Personas

LEMMA NoneCast ==
  ASSUME size \in 1 .. MaxPersonas, NEW p \in Personas, NEW s \in BallotStages
  PROVE  NoBallots[s][p] = None
  BY PersonasTyped DEF NoBallots

LEMMA InitInv == Init => IInv
<1> SUFFICES ASSUME Init PROVE IInv
  OBVIOUS
<1>1. cap \in Nat
  BY MoneyAssumption DEF Init, ResolveCap, Least
<1>2. NoBallots \in Ballots
  BY DEF NoBallots, Ballots
<1>3. TypeOK
  BY <1>1, <1>2, SocietyAssumption DEF Init, TypeOK, FinalRound
<1>4. PointHolds /\ EveryoneVotes /\ SessionWhole
  BY DEF Init, PointHolds, EveryoneVotes, SessionWhole
<1>5. NoInventedVote
  <2>1. \A p \in Personas : ballots["final"][p] = None
    BY NoneCast DEF Init, BallotStages
  <2> QED BY <2>1 DEF NoInventedVote
<1> QED BY <1>3, <1>4, <1>5 DEF IInv

LEMMA StageOfRound == \A r : StageOf(r) \in BallotStages
  BY DEF StageOf, BallotStages

LEMMA FallbackType ==
  ASSUME TypeOK, NEW p \in Personas
  PROVE  Repairs(p) \in Stances
<1>1. p \in 1 .. MaxPersonas
  BY PersonasTyped DEF TypeOK
<1>2. /\ repaired[p] \in Stances \cup {None}
      /\ ballots["reflection"][p] \in Stances \cup {None}
      /\ ballots["pre"][p] \in Stances \cup {None}
  BY <1>1 DEF TypeOK, Ballots, BallotStages
<1> QED BY <1>2, StancesAssumption DEF Repairs, Fallback

\* A step that asks a persona: it may add a draft or a turn, and goes on.
LEMMA AskInv ==
  ASSUME IInv, pc = "ask",
         UNCHANGED <<config, session, ballots, repaired>>,
         turns' \in SUBSET ((1 .. PublicRounds) \X (1 .. MaxPersonas)),
         drafts' \in Ballots,
         spent' \in [{"discussion", "repair"} -> Nat],
         \/ Advance
         \/ pc' \in {"ask", "failed"} /\ attempt' \in 1 .. MaxAttempts /\ UNCHANGED <<at, round>>
  PROVE  IInv'
<1> USE DEF IInv, config
<1>1. /\ at' \in 1 .. MaxPersonas /\ round' \in 0 .. FinalRound /\ attempt' \in 1 .. MaxAttempts
      /\ pc' \in {"ask", "persist", "failed"}
  BY SocietyAssumption DEF Advance, TypeOK, FinalRound
<1>2. TypeOK'
  BY <1>1 DEF TypeOK, Ended
<1>3. session = "running" /\ ballots = NoBallots
  BY DEF PointHolds, SessionWhole
<1>4. PointHolds' /\ EveryoneVotes'
  BY <1>1, <1>3 DEF PointHolds, EveryoneVotes
<1>5. NoInventedVote'
  <2>1. \A p \in Personas : ballots'["final"][p] = None
    BY <1>3, NoneCast DEF TypeOK, BallotStages
  <2> QED BY <2>1 DEF NoInventedVote, Personas
<1>6. SessionWhole'
  BY <1>3 DEF SessionWhole, NoBallots, BallotStages
<1> QED BY <1>2, <1>4, <1>5, <1>6

LEMMA ChargeType ==
  ASSUME TypeOK, NEW part \in {"discussion", "repair"}, Charge(part)
  PROVE  spent' \in [{"discussion", "repair"} -> Nat]
  BY MoneyAssumption DEF TypeOK, Charge

LEMMA AskSteps ==
  ASSUME IInv, Declare \/ Speak \/ Unusable \/ PassOver \/ Retry \/ (StageBreaks /\ pc = "ask")
  PROVE  IInv'
<1> USE DEF IInv
<1>1. CASE Declare
  <2>1. pc = "ask" /\ Charge("discussion") /\ Advance /\ UNCHANGED <<config, committed, repaired>>
    BY <1>1 DEF Declare
  <2>2. drafts' \in Ballots
    BY <1>1, StageOfRound DEF Declare, TypeOK, Ballots
  <2> QED BY <2>1, <2>2, ChargeType, AskInv DEF committed, TypeOK
<1>2. CASE Speak
  <2>1. /\ pc = "ask" /\ Charge("discussion") /\ Advance
        /\ UNCHANGED <<config, session, ballots, drafts, repaired>>
    BY <1>2 DEF Speak
  <2>2. turns' \in SUBSET ((1 .. PublicRounds) \X (1 .. MaxPersonas))
    BY <1>2 DEF Speak, TypeOK, IsPublic
  <2> QED BY <2>1, <2>2, ChargeType, AskInv DEF TypeOK
<1>3. CASE Unusable
  BY <1>3, ChargeType, AskInv DEF Unusable, committed, TypeOK
<1>4. CASE PassOver
  BY <1>4, AskInv DEF PassOver, committed, TypeOK
<1>5. CASE Retry
  <2>1. attempt' \in 1 .. MaxAttempts
    BY <1>5, SocietyAssumption DEF Retry, TypeOK
  <2> QED BY <1>5, <2>1, AskInv DEF Retry, committed, TypeOK
<1>6. CASE StageBreaks /\ pc = "ask"
  BY <1>6, ChargeType, AskInv DEF StageBreaks, committed, TypeOK
<1> QED BY <1>1, <1>2, <1>3, <1>4, <1>5, <1>6

\* A step that ends the run, or is not yet or no longer about ballots.
LEMMA QuietInv ==
  ASSUME IInv, UNCHANGED <<config, turns, ballots, round, at, attempt, drafts, repaired>>,
         spent' \in [{"discussion", "repair"} -> Nat],
         \/ pc' \in {"failed", "dead"} /\ session' = session
         \/ pc = "start" /\ pc' = "ask" /\ session' = "running"
         \/ pc = "repair" /\ Missing = {} /\ pc' = "gate" /\ session' = session
         \/ pc = "gate" /\ pc' = "done" /\ session' = session
  PROVE  IInv'
<1> USE DEF IInv, config
<1>1. TypeOK'
  BY DEF TypeOK, Ended
<1>2. PointHolds' /\ EveryoneVotes'
  BY DEF PointHolds, EveryoneVotes, Missing, Personas
<1>3. NoInventedVote'
  BY DEF NoInventedVote, Declared, Personas
<1>4. SessionWhole'
  BY DEF SessionWhole, PointHolds, Personas
<1> QED BY <1>1, <1>2, <1>3, <1>4

LEMMA PersistBallotsInv == ASSUME IInv, PersistBallots PROVE IInv'
<1> USE DEF IInv
<1>1. /\ pc = "persist" /\ ballots' = drafts /\ session' = "completed" /\ pc' = "repair"
      /\ UNCHANGED <<size, cap, turns, spent, round, at, attempt, drafts, repaired>>
  BY DEF PersistBallots, config
<1>2. TypeOK'
  BY <1>1 DEF TypeOK
<1>3. PointHolds' /\ EveryoneVotes' /\ SessionWhole'
  BY <1>1 DEF PointHolds, EveryoneVotes, SessionWhole
<1>4. NoInventedVote'
  BY <1>1 DEF NoInventedVote, Declared, BallotStages, Personas
<1> QED BY <1>2, <1>3, <1>4

\* A step of the ladder: the table is what memory was, so a final ballot in
\* it was declared.
LEMMA LadderInv ==
  ASSUME IInv, pc \in {"repair", "strict", "stricter"},
         UNCHANGED <<config, committed, round, attempt, drafts>>,
         spent' \in [{"discussion", "repair"} -> Nat],
         repaired' \in [1 .. MaxPersonas -> Stances \cup {None}],
         \/ \E left \in SUBSET Missing : TurnTo(left)
         \/ pc = "strict" /\ pc' = "stricter" /\ UNCHANGED at
  PROVE  IInv'
<1> USE DEF IInv, config, committed
<1>1. /\ pc' \in {"strict", "stricter", "insert"}
      /\ pc' # "insert" => at' \in Missing
      /\ at' \in Missing \cup {at}
  BY DEF TurnTo, PointHolds
<1>2. Missing \subseteq 1 .. MaxPersonas
  BY PersonasTyped DEF Missing, TypeOK
<1>3. TypeOK'
  BY <1>1, <1>2 DEF TypeOK
<1>4. PointHolds' /\ EveryoneVotes'
  BY <1>1 DEF PointHolds, EveryoneVotes, Missing, Personas
<1>5. NoInventedVote'
  BY DEF NoInventedVote, Declared, PointHolds, BallotStages, Personas
<1>6. SessionWhole'
  BY DEF SessionWhole, Personas
<1> QED BY <1>3, <1>4, <1>5, <1>6

LEMMA LadderSteps ==
  ASSUME IInv, OpenRepair \/ Repair \/ Unrepaired
  PROVE  IInv'
<1> USE DEF IInv
<1>1. CASE OpenRepair
  <2>1. \E left \in SUBSET Missing : TurnTo(left)
    BY <1>1 DEF OpenRepair
  <2> QED BY <1>1, <2>1, LadderInv DEF OpenRepair, TypeOK
<1>2. {p \in Missing : p > at} \in SUBSET Missing
  OBVIOUS
<1>3. CASE Repair
  <2>1. repaired' \in [1 .. MaxPersonas -> Stances \cup {None}]
    BY <1>3 DEF Repair, TypeOK
  <2>2. spent' \in [{"discussion", "repair"} -> Nat]
    BY <1>3, ChargeType DEF Repair
  <2> QED BY <1>2, <1>3, <2>1, <2>2, LadderInv DEF Repair
<1>4. CASE Unrepaired
  <2>1. spent' \in [{"discussion", "repair"} -> Nat]
    BY <1>4, ChargeType DEF Unrepaired, TypeOK
  <2> QED BY <1>2, <1>4, <2>1, LadderInv DEF Unrepaired, TypeOK
<1> QED BY <1>1, <1>3, <1>4

\* The insert gives a stance to everyone who had none, their own if they
\* ever declared one.
LEMMA InsertRepairsInv == ASSUME IInv, InsertRepairs PROVE IInv'
<1> USE DEF IInv
<1>1. /\ pc = "insert" /\ pc' = "gate"
      /\ UNCHANGED <<size, cap, session, turns, spent, round, at, attempt, drafts, repaired>>
  BY DEF InsertRepairs, config
<1>2. ballots = drafts /\ session = "completed"
  BY <1>1 DEF PointHolds
<1>3. Personas \subseteq 1 .. MaxPersonas
  BY PersonasTyped DEF TypeOK
<1>4. /\ \A s \in BallotStages \ {"final"} : ballots'[s] = ballots[s]
      /\ \A p \in 1 .. MaxPersonas :
           ballots'["final"][p] = IF p \in Missing THEN Repairs(p) ELSE ballots["final"][p]
      /\ ballots' \in Ballots
  <2>1. \A p \in Missing : Repairs(p) \in Stances
    BY FallbackType DEF Missing
  <2> QED BY <2>1 DEF InsertRepairs, TypeOK, Ballots, BallotStages
<1>5. TypeOK'
  BY <1>1, <1>4 DEF TypeOK
<1>6. \A p \in Personas : ballots'["final"][p] # None
  BY <1>3, <1>4, FallbackType, StancesAssumption DEF Missing
<1>7. EveryoneVotes' /\ PointHolds'
  BY <1>1, <1>2, <1>6 DEF EveryoneVotes, PointHolds, Missing, Personas
<1>8. SessionWhole'
  <2> SUFFICES ASSUME NEW s \in BallotStages, NEW p \in Personas, drafts[s][p] # None
      PROVE  ballots'[s][p] = drafts[s][p]
    BY <1>1, <1>2 DEF SessionWhole, Personas
  <2>1. CASE s # "final"
    BY <1>2, <1>4, <2>1
  <2>2. CASE s = "final"
    BY <1>2, <1>3, <1>4, <2>2 DEF Missing
  <2> QED BY <2>1, <2>2
<1>9. NoInventedVote'
  <2> SUFFICES ASSUME NEW p \in Personas
      PROVE  \/ ballots'["final"][p] \in Declared(p)
             \/ ballots'["final"][p] = Neutral /\ Declared(p) = {None}
    BY <1>1 DEF NoInventedVote, Declared, Personas
  <2>1. CASE p \notin Missing
    BY <1>2, <1>3, <1>4, <2>1 DEF Declared, BallotStages
  <2>2. CASE p \in Missing
    <3>1. ballots'["final"][p] = Repairs(p) /\ drafts["final"][p] = None
      BY <1>2, <1>3, <1>4, <2>2 DEF Missing
    <3> QED BY <1>2, <3>1 DEF Repairs, Fallback, Declared, BallotStages
  <2> QED BY <2>1, <2>2
<1> QED BY <1>5, <1>7, <1>8, <1>9

LEMMA NextInv == IInv /\ [Next]_vars => IInv'
<1> SUFFICES ASSUME IInv, [Next]_vars PROVE IInv'
  OBVIOUS
<1>1. CASE UNCHANGED vars
  <2> USE <1>1 DEF vars, config, committed, IInv, Missing, Personas
  <2>1. TypeOK'
    BY DEF TypeOK
  <2>2. PointHolds' /\ EveryoneVotes'
    BY DEF PointHolds, EveryoneVotes
  <2>3. NoInventedVote' /\ SessionWhole'
    BY DEF NoInventedVote, SessionWhole, Declared
  <2> QED BY <2>1, <2>2, <2>3
<1>2. CASE Declare \/ Speak \/ Unusable \/ PassOver \/ Retry \/ (StageBreaks /\ pc = "ask")
  BY <1>2, AskSteps
<1>3. CASE OpenRepair \/ Repair \/ Unrepaired
  BY <1>3, LadderSteps
<1>4. CASE Open \/ TooFew \/ Complete \/ Gate \/ Crash \/ (StageBreaks /\ pc # "ask")
  <2>1. spent' \in [{"discussion", "repair"} -> Nat]
    BY <1>4, ChargeType DEF IInv, TypeOK, Open, TooFew, Complete, Gate, Crash, StageBreaks
  <2> QED BY <1>4, <2>1, QuietInv DEF Open, TooFew, Complete, Gate, Crash, StageBreaks, committed
<1>5. CASE PersistBallots
  BY <1>5, PersistBallotsInv
<1>6. CASE InsertRepairs
  BY <1>6, InsertRepairsInv
<1> QED BY <1>1, <1>2, <1>3, <1>4, <1>5, <1>6 DEF Next, Step

----------------------------------------------------------------------------
(* What holds of every behaviour.                                          *)

\* Types, what each point of the coroutine relies on, and the properties.
THEOREM DiscussionInvariance == Spec => []IInv
  BY InitInv, NextInv, PTL DEF Spec

\* However many calls fail or are refused, a run that gets past the repair has
\* a final ballot of everybody (repair_missing_final_ballots).
THEOREM EveryoneVotesTheorem == Spec => []EveryoneVotes
<1>1. IInv => EveryoneVotes
  BY DEF IInv
<1> QED BY <1>1, DiscussionInvariance, PTL

\* A final ballot holds a stance its persona declared, or the neutral one if
\* it never declared any (the fallback of the repair).
THEOREM NoInventedVoteTheorem == Spec => []NoInventedVote
<1>1. IInv => NoInventedVote
  BY DEF IInv
<1> QED BY <1>1, DiscussionInvariance, PTL

\* Ballots and the completion of the session are one commit.
THEOREM SessionWholeTheorem == Spec => []SessionWhole
<1>1. IInv => SessionWhole
  BY DEF IInv
<1> QED BY <1>1, DiscussionInvariance, PTL

\* Whatever is refused, fails or is retried, the stage never comes back to a
\* try it has made, and it has only so many: what StageEnds rests on.
THEOREM OnlyForwardTheorem == Spec => OnlyForward
<1> DEFINE Forward ==
             \/ PointOf[pc'] > PointOf[pc]
             \/ /\ PointOf[pc'] = PointOf[pc]
                /\ \/ round' > round
                   \/ round' = round /\ at' > at
                   \/ round' = round /\ at' = at /\ Try' > Try
<1>1. ASSUME IInv, Next PROVE Forward
  <2> USE SocietyAssumption DEF PointOf, Ended
  <2> TypeOK /\ at \in Nat /\ round \in Nat /\ attempt \in Nat /\ size \in Nat
    BY <1>1 DEF IInv, TypeOK, FinalRound
  <2>1. CASE Declare \/ Speak \/ Unusable \/ PassOver
    <3>1. pc = "ask" /\ Advance
      BY <2>1 DEF Declare, Speak, Unusable, PassOver
    <3>2. CASE at < size /\ at' = at + 1 /\ UNCHANGED <<round, pc>>
      BY <3>2
    <3>3. CASE round' = round + 1 /\ UNCHANGED pc
      BY <3>3
    <3>4. CASE pc' = "persist"
      BY <3>1, <3>4
    <3> QED BY <3>1, <3>2, <3>3, <3>4 DEF Advance
  <2>2. CASE Retry
    BY <2>2 DEF Retry, Try
  <2>3. CASE Open \/ TooFew \/ PersistBallots \/ Complete \/ InsertRepairs \/ Gate
    BY <2>3 DEF Open, TooFew, PersistBallots, Complete, InsertRepairs, Gate
  <2>4. CASE OpenRepair
    BY <2>4 DEF OpenRepair, TurnTo
  <2>5. CASE Repair \/ Unrepaired
    <3>1. pc \in {"strict", "stricter"} /\ round' = round
      BY <2>5 DEF Repair, Unrepaired
    <3>2. CASE TurnTo({p \in Missing : p > at})
      BY <3>1, <3>2 DEF TurnTo
    <3>3. CASE pc = "strict" /\ pc' = "stricter" /\ at' = at
      BY <3>1, <3>3 DEF Try
    <3> QED BY <2>5, <3>2, <3>3 DEF Repair, Unrepaired
  <2>6. CASE StageBreaks
    BY <2>6 DEF StageBreaks
  <2>7. CASE Crash
    BY <2>7 DEF Crash, TypeOK
  <2> QED BY <1>1, <2>1, <2>2, <2>3, <2>4, <2>5, <2>6, <2>7 DEF Next, Step
<1>2. IInv /\ [Next]_vars => [Forward]_vars
  BY <1>1
<1> QED BY <1>2, DiscussionInvariance, PTL DEF Spec, OnlyForward

\* The cap is resolved once, and money moves on one control row at a time, by
\* a call that row admitted.
LEMMA SpendStep ==
  ASSUME [Next]_vars
  PROVE  /\ cap' = cap
         /\ \/ spent' = spent
            \/ \E row \in {"discussion", "repair"} : Affordable(row) /\ Charge(row)
<1>1. cap' = cap
  BY DEF Next, Step, vars, config, Open, TooFew, Declare, Speak, Unusable, PassOver, Retry,
     PersistBallots, Complete, OpenRepair, Repair, Unrepaired, InsertRepairs, Gate, StageBreaks, Crash
<1>2. CASE Declare \/ Speak \/ Unusable \/ Repair
  BY <1>1, <1>2 DEF Declare, Speak, Unusable, Repair
<1>3. CASE Unrepaired
  BY <1>1, <1>3 DEF Unrepaired
<1>4. CASE StageBreaks
  BY <1>1, <1>4 DEF StageBreaks
<1>5. CASE ~(Declare \/ Speak \/ Unusable \/ Repair \/ Unrepaired \/ StageBreaks)
  BY <1>1, <1>5 DEF Next, Step, vars, Open, TooFew, PassOver, Retry, PersistBallots, Complete,
     OpenRepair, InsertRepairs, Gate, Crash
<1> QED BY <1>1, <1>2, <1>3, <1>4, <1>5

\* Either part of the stage spends within its own ledger, however its calls
\* are retried, repaired or passed over.
THEOREM ImplementsLedgersTheorem == Spec => ImplementsLedgers
<1>1. Init => DiscussionLedger!Init /\ RepairLedger!Init
  BY DEF Init, DiscussionLedger!Init, RepairLedger!Init
<1>2. ASSUME IInv, [Next]_vars
      PROVE  /\ [DiscussionLedger!Next]_DiscussionLedger!vars
             /\ [RepairLedger!Next]_RepairLedger!vars
  <2>1. spent \in [{"discussion", "repair"} -> Nat] /\ cap' = cap
    BY <1>2, SpendStep DEF IInv, TypeOK
  <2>2. CASE spent' = spent
    BY <2>1, <2>2 DEF DiscussionLedger!vars, RepairLedger!vars
  <2>3. CASE Affordable("discussion") /\ Charge("discussion")
    <3>1. spent'["repair"] = spent["repair"]
      BY <2>1, <2>3 DEF Charge
    <3>2. PICK c \in Costs : spent'["discussion"] = spent["discussion"] + c
      BY <2>1, <2>3 DEF Charge
    <3>3. DiscussionLedger!Charge(Estimate, c)
      BY <2>1, <2>3, <3>2 DEF Affordable, EstimateOf, DiscussionLedger!Charge
    <3> QED BY <2>1, <3>1, <3>3 DEF DiscussionLedger!Next, RepairLedger!vars
  <2>4. CASE Affordable("repair") /\ Charge("repair")
    <3>1. spent'["discussion"] = spent["discussion"]
      BY <2>1, <2>4 DEF Charge
    <3>2. PICK c \in Costs : spent'["repair"] = spent["repair"] + c
      BY <2>1, <2>4 DEF Charge
    <3>3. RepairLedger!Charge(RepairEstimate, c)
      BY <2>1, <2>4, <3>2 DEF Affordable, EstimateOf, RepairLedger!Charge
    <3> QED BY <2>1, <3>1, <3>3 DEF RepairLedger!Next, DiscussionLedger!vars
  <2> QED BY <1>2, <2>2, <2>3, <2>4, SpendStep
<1>3. IInv /\ [Next]_vars => [DiscussionLedger!Next]_DiscussionLedger!vars
  BY <1>2
<1>4. IInv /\ [Next]_vars => [RepairLedger!Next]_RepairLedger!vars
  BY <1>2
<1> QED BY <1>1, <1>3, <1>4, DiscussionInvariance, PTL DEF Spec, ImplementsLedgers,
           DiscussionLedger!Spec, RepairLedger!Spec

\* Two control rows, so twice the cap: that, and the overrun of one call for
\* each, is all that discussion and repair can log for one run.
THEOREM SpentTwiceAtMostTheorem ==
  ASSUME NEW CONSTANT overrun \in Nat,
         \A c \in Costs : c <= Estimate + overrun /\ c <= RepairEstimate + overrun
  PROVE  Spec => []SpentTwiceAtMost(overrun)
<1> DEFINE Rows == {"discussion", "repair"}
           Within == \A row \in Rows : spent[row] <= cap + overrun
<1>1. Init /\ IInv => Within
  BY DEF Init, IInv, TypeOK
<1>2. IInv /\ Within /\ [Next]_vars => Within'
  <2> SUFFICES ASSUME IInv, Within, [Next]_vars, NEW row \in Rows
               PROVE  spent'[row] <= cap + overrun
    BY SpendStep
  <2>1. spent \in [Rows -> Nat] /\ cap \in Nat
    BY DEF IInv, TypeOK
  <2>2. ASSUME NEW payer \in Rows, Affordable(payer), Charge(payer)
        PROVE  spent'[row] <= cap + overrun
    <3>1. PICK c \in Costs : spent' = [spent EXCEPT ![payer] = @ + c]
      BY <2>2 DEF Charge
    <3>2. spent[payer] + EstimateOf[payer] <= cap /\ EstimateOf[payer] \in Nat
      BY <2>2, MoneyAssumption DEF Affordable, EstimateOf
    <3>3. c \in Nat /\ c <= EstimateOf[payer] + overrun
      BY MoneyAssumption DEF EstimateOf
    <3>4. spent[payer] + c <= cap + overrun
      BY <2>1, <3>2, <3>3
    <3> QED BY <2>1, <3>1, <3>4
  <2> QED BY <2>1, <2>2, SpendStep
<1>3. IInv /\ Within => SpentTwiceAtMost(overrun)
  BY DEF IInv, TypeOK, SpentTwiceAtMost
<1> HIDE DEF Within
<1> QED BY <1>1, <1>2, <1>3, DiscussionInvariance, PTL DEF Spec

----------------------------------------------------------------------------
(* GroupAssignment: the placement that comes before the first call.        *)

\* target_size groups never hold more than there are personas.
LEMMA TargetFits ==
  ASSUME total \in Nat \ {0}
  PROVE  /\ GroupCount \in Nat \ {0} /\ Target \in Nat
         /\ Target * GroupCount <= total
<1>1. GroupSize \in Nat \ {0}
  BY SizeAssumption
<1>2. total \div GroupSize \in Nat /\ GroupSize * (total \div GroupSize) <= total
  BY <1>1
<1>3. GroupCount \in Nat \ {0}
  BY <1>2 DEF GroupCount
<1>4. total \div GroupCount \in Nat /\ GroupCount * (total \div GroupCount) <= total
  BY <1>3
<1>5. CASE GroupSize * GroupCount > total
  BY <1>3, <1>4, <1>5 DEF Target
<1>6. CASE ~(GroupSize * GroupCount > total)
  <2>1. Target = GroupSize
    BY <1>6 DEF Target
  <2>2. GroupSize * GroupCount \in Nat /\ GroupSize * GroupCount = Target * GroupCount
    BY <1>1, <1>3, <2>1
  <2> QED BY <1>1, <1>3, <1>6, <2>1, <2>2
<1> QED BY <1>5, <1>6

\* A group is a finite set, its length a number.
LEMMA LengthType ==
  ASSUME GroupTypeOK, NEW g \in Groups
  PROVE  IsFiniteSet(groups[g]) /\ Length(g) \in Nat
<1>1. IsFiniteSet(1 .. total)
  BY FS_Interval DEF GroupTypeOK
<1>2. groups[g] \in SUBSET (1 .. total)
  BY DEF GroupTypeOK
<1> QED BY <1>1, <1>2, FS_Subset, FS_CardinalityType DEF Length

\* Everybody is placed and no group holds more than the target: then none
\* holds less.  Else the personas, told apart by their group and their place in
\* it, would be more than the places.
LEMMA NoRoomLeft ==
  ASSUME GroupTypeOK, Partitioned, Placed,
         \A g \in Groups : Length(g) <= Target
  PROVE  \A g \in Groups : Length(g) >= Target
<1> SUFFICES ASSUME NEW h \in Groups, Length(h) < Target PROVE FALSE
  BY LengthType, TargetFits DEF GroupTypeOK
<1> DEFINE seatOf(g) == CHOOSE b \in Bijection(groups[g], 1 .. Length(g)) : TRUE
           groupOf(p) == CHOOSE g \in Groups : p \in groups[g]
           seats == (Groups \X (1 .. Target)) \ {<<h, Target>>}
           seat == [p \in 1 .. total |-> <<groupOf(p), seatOf(groupOf(p))[p]>>]
<1>1. /\ total \in Nat \ {0} /\ GroupCount \in Nat \ {0} /\ Target \in Nat
      /\ Target * GroupCount <= total
  BY TargetFits DEF GroupTypeOK
<1>2. ASSUME NEW g \in Groups PROVE seatOf(g) \in Bijection(groups[g], 1 .. Length(g))
  <2>1. ExistsBijection(1 .. Length(g), groups[g])
    BY LengthType, FS_CardinalityType DEF Length
  <2>2. ExistsBijection(groups[g], 1 .. Length(g))
    BY <2>1, Fun_ExistsBijSymmetric
  <2> QED BY <2>2 DEF ExistsBijection
<1>3. ASSUME NEW p \in 1 .. total PROVE groupOf(p) \in Groups /\ p \in groups[groupOf(p)]
  <2>1. next - 1 = total
    BY DEF GroupTypeOK, Placed
  <2>2. \E g \in Groups : p \in groups[g]
    BY <2>1 DEF Partitioned
  <2> QED BY <2>2
<1>4. ASSUME NEW p \in 1 .. total
      PROVE  seatOf(groupOf(p))[p] \in 1 .. Length(groupOf(p))
  <2> HIDE DEF seatOf, groupOf
  <2> QED BY <1>2, <1>3 DEF Bijection, Injection
<1>5. seat \in [1 .. total -> seats]
  <2> SUFFICES ASSUME NEW p \in 1 .. total
               PROVE  <<groupOf(p), seatOf(groupOf(p))[p]>> \in seats
    OBVIOUS
  <2>1. Length(groupOf(p)) \in Nat /\ Length(groupOf(p)) <= Target
    BY <1>3, LengthType
  <2>2. groupOf(p) = h => Length(groupOf(p)) < Target
    OBVIOUS
  <2> HIDE DEF seatOf, groupOf
  <2> QED BY <1>1, <1>3, <1>4, <2>1, <2>2
<1>6. IsFiniteSet(seats) /\ Cardinality(seats) = GroupCount * Target - 1
  <2>1. IsFiniteSet(Groups) /\ Cardinality(Groups) = GroupCount
    BY <1>1, FS_Interval DEF Groups
  <2>2. IsFiniteSet(1 .. Target) /\ Cardinality(1 .. Target) = Target
    BY <1>1, FS_Interval
  <2>3. /\ IsFiniteSet(Groups \X (1 .. Target))
        /\ Cardinality(Groups \X (1 .. Target)) = GroupCount * Target
    BY <2>1, <2>2, FS_Product
  <2>4. <<h, Target>> \in Groups \X (1 .. Target)
    BY <1>1, LengthType
  <2> QED BY <2>3, <2>4, FS_RemoveElement
<1>7. IsFiniteSet(1 .. total) /\ Cardinality(1 .. total) = total
  BY <1>1, FS_Interval
<1>8. Cardinality(seats) < Cardinality(1 .. total)
  <2>1. GroupCount * Target = Target * GroupCount /\ Target * GroupCount \in Nat
    BY <1>1
  <2> QED BY <1>1, <1>6, <1>7, <2>1
<1>9. PICK p, q \in 1 .. total : p # q /\ seat[p] = seat[q]
  <2> HIDE DEF seat, seats
  <2> QED BY <1>5, <1>6, <1>7, <1>8, FS_PigeonHole
<1>10. groupOf(p) = groupOf(q) /\ seatOf(groupOf(p))[p] = seatOf(groupOf(p))[q]
  <2> HIDE DEF seatOf, groupOf
  <2> QED BY <1>9
<1>11. p = q
  <2> HIDE DEF seatOf, groupOf
  <2>1. p \in groups[groupOf(p)] /\ q \in groups[groupOf(p)]
    BY <1>3, <1>10
  <2> QED BY <1>2, <1>3, <1>10, <2>1 DEF Bijection, Injection, IsInjective
<1> QED BY <1>9, <1>11

LEMMA GroupInitInv == GroupInit => GroupInv
<1> SUFFICES ASSUME GroupInit PROVE GroupInv
  OBVIOUS
<1>1. GroupTypeOK
  BY SizeAssumption DEF GroupInit, GroupTypeOK
<1>2. \A g \in Groups : Length(g) = 0
  BY FS_EmptySet DEF GroupInit, Length
<1>3. Target \in Nat
  BY <1>1, TargetFits DEF GroupTypeOK
<1>4. Partitioned
  BY <1>1 DEF GroupInit, Partitioned, GroupTypeOK
<1>5. OverflowLast
  BY <1>2, <1>3 DEF OverflowLast
<1> QED BY <1>1, <1>4, <1>5 DEF GroupInv

LEMMA PlaceInv == ASSUME GroupInv, Place PROVE GroupInv'
<1> USE DEF GroupInv
<1>1. PICK g \in Candidates : groups' = [groups EXCEPT ![g] = @ \cup {next}]
  BY DEF Place
<1>2. /\ next \in 1 .. total /\ next' = next + 1 /\ total' = total
      /\ Groups' = Groups /\ Target' = Target
  BY DEF Place, GroupTypeOK, Groups, GroupCount, Target
<1>3. g \in Groups /\ (Length(g) < Target \/ \A h \in Groups : ~(Length(h) < Target))
  BY DEF Candidates, Length
<1>4. groups \in [Groups -> SUBSET (1 .. total)]
  BY DEF GroupTypeOK
<1>5. next \notin groups[g]
  BY <1>2, <1>3 DEF Partitioned, GroupTypeOK
<1>6. GroupTypeOK'
  BY <1>1, <1>2, <1>3, <1>4 DEF GroupTypeOK
<1>7. Partitioned'
  <2>1. \A h \in Groups : groups[h] \subseteq 1 .. next - 1
    BY DEF Partitioned
  <2>2. \A h \in Groups : groups'[h] = IF h = g THEN groups[g] \cup {next} ELSE groups[h]
    BY <1>1, <1>4
  <2>3. (1 .. next - 1) \cup {next} = 1 .. next' - 1
    BY <1>2, <1>6 DEF GroupTypeOK
  <2>4. \A p : (\E h \in Groups : p \in groups[h]) <=> p \in 1 .. next - 1
    BY DEF Partitioned
  <2>5. \A p : (\E h \in Groups : p \in groups'[h]) <=> p \in 1 .. next' - 1
    BY <1>3, <2>2, <2>3, <2>4
  <2>6. next \notin 1 .. next - 1
    BY <1>2 DEF GroupTypeOK
  <2>7. \A h, i \in Groups : h # i => groups'[h] \cap groups'[i] = {}
    BY <2>1, <2>2, <2>6 DEF Partitioned
  <2>8. UNION {groups'[h] : h \in Groups'} = 1 .. next' - 1
    BY <1>2, <2>5
  <2> QED BY <1>2, <2>7, <2>8 DEF Partitioned
<1>8. OverflowLast'
  <2>1. \A h \in Groups : Length(h) \in Nat /\ IsFiniteSet(groups[h])
    BY LengthType
  <2>2. Length(g)' = Length(g) + 1
    BY <1>1, <1>3, <1>4, <1>5, <2>1, FS_AddElement DEF Length
  <2>3. \A h \in Groups : h # g => Length(h)' = Length(h)
    BY <1>1, <1>4 DEF Length
  <2>4. Target \in Nat
    BY TargetFits DEF GroupTypeOK
  <2> SUFFICES ASSUME NEW i \in Groups, NEW j \in Groups, Length(i)' > Target
               PROVE  Length(j)' >= Target
    BY <1>2 DEF OverflowLast
  <2>5. Length(j) >= Target
    BY <1>3, <2>1, <2>2, <2>3, <2>4 DEF OverflowLast
  <2> QED BY <2>1, <2>2, <2>3, <2>4, <2>5
<1> QED BY <1>6, <1>7, <1>8

\* The groups are disjoint and hold the personas placed so far, and nothing
\* overflows while a group is short.
THEOREM PlacementInvariance == GroupSpec => []GroupInv
<1>1. GroupInv /\ [Place]_groupVars => GroupInv'
  <2>1. ASSUME GroupInv, UNCHANGED groupVars PROVE GroupInv'
    BY <2>1 DEF groupVars, GroupInv, GroupTypeOK, Partitioned, OverflowLast, Length, Groups,
       GroupCount, Target
  <2> QED BY <2>1, PlaceInv
<1> QED BY <1>1, GroupInitInv, PTL DEF GroupSpec

\* Whatever society and group size: at the end no group is below the target
\* size, and one is above it only if none was short (assign_groups_stratified).
THEOREM NoGroupShortTheorem == GroupSpec => []NoGroupShort
<1>1. GroupInv => NoGroupShort
  <2> SUFFICES ASSUME GroupInv PROVE NoGroupShort
    OBVIOUS
  <2>1. \A g, h \in Groups : Length(g) > Target => Length(h) >= Target
    BY DEF GroupInv, OverflowLast
  <2>2. Target \in Nat /\ \A g \in Groups : Length(g) \in Nat
    BY LengthType, TargetFits DEF GroupInv, GroupTypeOK
  <2>3. Placed => \A g \in Groups : Length(g) >= Target
    BY <2>1, <2>2, NoRoomLeft DEF GroupInv
  <2> QED BY <2>1, <2>3 DEF NoGroupShort
<1> QED BY <1>1, PlacementInvariance, PTL
=============================================================================
