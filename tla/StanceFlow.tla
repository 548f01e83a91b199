----------------------------- MODULE StanceFlow -----------------------------
(***************************************************************************)
(* What the rounds of a simulation do to the stances of its agents, from   *)
(* the baseline over the pairwise debate to the shift markers of the       *)
(* report: pipeline/simulation/rounds, state.py, peer_sampling.py,         *)
(* persistence.py and aggregation/mechanical.py.                           *)
(*                                                                         *)
(* There are two records of a stance.  The prompts are built from the      *)
(* snapshots in memory, the report from the committed rows.  An answer is  *)
(* whatever the model says; the code fixes some of its fields.  How the    *)
(* calls of a round interleave is the subject of RoundExecution: here the  *)
(* answers of a round arrive together.                                     *)
(***************************************************************************)
EXTENDS Naturals, Sequences, Society

CONSTANTS
    Stances, Objections,
    Anchor,         \* curious_hesitant
    LastRound, DebateRound,     \* 7 and 6 in the code
    PeersPerAgent,  \* k_per_agent (2 in the code)
    Networks,       \* bound: the agent_edges a society may have
    Answers,        \* bound: what an agent may answer, but for its own id
    ShiftLists,     \* bound: the caused_shifts of a debate turn
    Misread         \* bound: agents whose answer may bear another agent's id

Shift == [from : Stances, to : Stances]

ASSUME RoundAssumption ==
    LastRound \in Nat /\ DebateRound \in 3 .. LastRound /\ PeersPerAgent \in Nat
ASSUME StanceAssumption == Anchor \in Stances /\ None \notin Shift
ASSUME BoundAssumption ==
    /\ Networks \subseteq SUBSET (Agents \X Agents)
    /\ Answers \subseteq [stance : Stances, shift : Shift \cup {None},
                          objections : SUBSET Objections]
    /\ ShiftLists \subseteq Seq(Shift)
    /\ Misread \subseteq Agents

VARIABLES
    edges,      \* <<source, target>>: the source influences the target
    phase,
    snapshots,  \* the stance of each agent and the <<round, objection>>s so far
    \* --- the round being run
    rows,       \* its responses, in the order of the society
    pairs,      \* <<peer, subject>>: the debates still to be held
    drafted,    \* its debate turns
    pairShift,  \* pair_shifts: the last shift of each subject
    \* --- what is committed
    table,      \* the responses of each round
    turns,      \* debate_turns
    markers     \* the report: how often each round is said to have seen a shift

memory == <<snapshots, rows, pairs, drafted, pairShift>>
committed == <<table, turns, markers>>
flowVars == <<edges, phase, memory, committed>>

Round == Len(table) + 1

NoShifts == [a \in Agents |-> None]

FlowInit ==
    /\ edges \in Networks
    /\ phase = "ask"
    /\ snapshots = [a \in Agents |-> [stance |-> Anchor, objections |-> {}]]
    /\ rows = NoShifts /\ pairs = {} /\ drafted = {} /\ pairShift = NoShifts
    /\ table = <<>> /\ turns = {} /\ markers = <<>>

-----------------------------------------------------------------------------
(* The rounds.                                                             *)

\* The ids of the answers as they come: only some are read wrong.
Ids == {ids \in [Agents -> Agents] : \A a \in Agents \ Misread : ids[a] = a}

\* The baseline fixes the stance and drops shift, objections and drivers.
\* Nothing but the id of the answer says whose it is.
Normalised(answer, id) ==
    [agent |-> id, stance |-> Anchor, shift |-> None, objections |-> {}]

\* Round 1: the answers go by the id the model gave them.  One that is no
\* agent's fails the transaction (Stop).
AskBaseline ==
    /\ phase = "ask" /\ Round = 1
    /\ \E given \in [Agents -> Answers], ids \in Ids :
         rows' = [a \in Agents |-> Normalised(given[a], ids[a])]
    /\ phase' = "write"
    /\ UNCHANGED <<edges, snapshots, pairs, drafted, pairShift, committed>>

\* run_per_agent_round: the answer stands as it is but for the id, which is
\* pinned.  Nothing relates the stance to the one before, or to the shift the
\* agent tells of.
AskSociety ==
    /\ phase = "ask" /\ Round \notin {1, DebateRound}
    /\ \E given \in [Agents -> Answers] :
         rows' = [a \in Agents |->
                    [agent |-> a, stance |-> given[a].stance,
                     shift |-> given[a].shift, objections |-> given[a].objections]]
    /\ phase' = "write"
    /\ UNCHANGED <<edges, snapshots, pairs, drafted, pairShift, committed>>

\* sample_peer_pairs: at most PeersPerAgent of the agents that influence a
\* subject, never itself.  Weights decide which, and a weight may be zero.
SamplePairs ==
    /\ phase = "ask" /\ Round = DebateRound
    /\ \E picks \in SUBSET {e \in edges : e[1] # e[2]} :
         /\ \A a \in Agents : Cardinality({e \in picks : e[2] = a}) <= PeersPerAgent
         /\ pairs' = picks
    /\ phase' = "debate"
    /\ UNCHANGED <<edges, snapshots, rows, drafted, pairShift, committed>>

\* The turn of one pair, told from the snapshots it was asked with.
Turn(peer, subject, shifts) ==
    [speaker |-> peer, target |-> subject, shifts |-> shifts,
     shown |-> <<snapshots[peer].stance, snapshots[subject].stance>>]

\* Mutant of Debate: a shift moves its subject at once.
DebateAtOnce ==
    /\ phase = "debate"
    /\ \E pair \in pairs, shifts \in ShiftLists :
         /\ drafted' = drafted \cup {Turn(pair[1], pair[2], shifts)}
         /\ pairShift' = IF shifts = <<>> THEN pairShift
                         ELSE [pairShift EXCEPT ![pair[2]] = Head(shifts)]
         /\ snapshots' = IF shifts = <<>> THEN snapshots
                         ELSE [snapshots EXCEPT ![pair[2]].stance = Head(shifts).to]
         /\ pairs' = pairs \ {pair}
    /\ UNCHANGED <<edges, phase, rows, committed>>

\* One call of the debate round.  Of several shifts the first counts, of
\* several turns with a shift the last.
Debate ==
    /\ phase = "debate"
    /\ \E pair \in pairs, shifts \in ShiftLists :
         /\ drafted' = drafted \cup {Turn(pair[1], pair[2], shifts)}
         /\ pairShift' = IF shifts = <<>> THEN pairShift
                         ELSE [pairShift EXCEPT ![pair[2]] = Head(shifts)]
         /\ pairs' = pairs \ {pair}
    /\ UNCHANGED <<edges, phase, snapshots, rows, committed>>

\* An agent that nobody moved carries its stance forward.
CloseDebate ==
    /\ phase = "debate" /\ pairs = {}
    /\ rows' = [a \in Agents |->
                  [agent |-> a, shift |-> pairShift[a], objections |-> {},
                   stance |-> IF pairShift[a] = None THEN snapshots[a].stance
                              ELSE pairShift[a].to]]
    /\ phase' = "write"
    /\ UNCHANGED <<edges, snapshots, pairs, drafted, pairShift, committed>>

\* Mutant of Updated: the objections of earlier rounds are replaced.
UpdatedByRound(snapshot, response) ==
    [stance |-> response.stance, objections |-> {Round} \X response.objections]

\* updated_for_response.
Updated(snapshot, response) ==
    [stance |-> response.stance,
     objections |-> snapshot.objections \cup ({Round} \X response.objections)]

\* write_round_results, in one transaction; the next round starts from the
\* new snapshots, which are kept by agent and not by the id of its answer.
WriteRound ==
    /\ phase = "write"
    /\ table' = Append(table, rows) /\ turns' = turns \cup drafted
    /\ snapshots' = [a \in Agents |-> Updated(snapshots[a], rows[a])]
    /\ rows' = NoShifts /\ drafted' = {} /\ pairShift' = NoShifts
    /\ phase' = IF Round = LastRound THEN "report" ELSE "ask"
    /\ UNCHANGED <<edges, pairs, markers>>

-----------------------------------------------------------------------------
(* The report.                                                             *)

Told(r, shift) == Cardinality({a \in Agents : table[r][a].shift = shift})

\* The shifts of debate turns, but for those that lead nowhere.
ToldInTurns(r, shift) ==
    IF r # DebateRound \/ shift.from = shift.to THEN 0
    ELSE Cardinality(UNION {{t} \X {i \in DOMAIN t.shifts : t.shifts[i] = shift} : t \in turns})

\* Mutant of MarkerCount: the shifts of the debate are taken from its turns.
CountTurnsOnly(r, shift) ==
    IF r = DebateRound THEN ToldInTurns(r, shift) ELSE Told(r, shift)

\* A shift counts where the responses tell of it and where the turns do.  The
\* code keeps the two apart by what triggered them; the sum does not.
MarkerCount(r, shift) == Told(r, shift) + ToldInTurns(r, shift)

\* build_debate_shift_markers.
Report ==
    /\ phase = "report"
    /\ markers' = [r \in 1 .. LastRound |-> [shift \in Shift |-> MarkerCount(r, shift)]]
    /\ phase' = "reported"
    /\ UNCHANGED <<edges, memory, table, turns>>

\* A call or a transaction raises, or the job dies: SimulationPipeline shows
\* that no later job goes on with the rounds.
Stop ==
    /\ phase \in {"ask", "debate", "write", "report"}
    /\ phase' = "stopped"
    /\ UNCHANGED <<edges, memory, committed>>

FlowNext ==
    \/ AskBaseline \/ AskSociety \/ SamplePairs \/ Debate \/ CloseDebate
    \/ WriteRound \/ Report \/ Stop

FlowSpec == FlowInit /\ [][FlowNext]_flowVars

-----------------------------------------------------------------------------
(* Properties.                                                             *)

RowsOf(r, a) == {table[r][b] : b \in {b \in Agents : table[r][b].agent = a}}

\* What the next prompts say of an agent is what the table says of it: the
\* stance of its last row and the objections of all of them, after the debate
\* too, and although a row of the baseline may bear the id of another agent
\* (baseline.py:63): the rows of that round are all alike in both.
MemoryMatchesTable ==
    \A a \in Agents :
        /\ snapshots[a].objections =
             {told \in (1 .. Len(table)) \X Objections :
                \E response \in RowsOf(told[1], a) : told[2] \in response.objections}
        /\ Len(table) > 1 =>
             {response.stance : response \in RowsOf(Len(table), a)} = {snapshots[a].stance}

StanceIn(r, a) == (CHOOSE response \in RowsOf(r, a) : TRUE).stance
Before == DebateRound - 1

\* Nobody moves in the debate without an argument: there is a committed turn,
\* of an agent that influences the mover, whose first shift leads to the new
\* stance; and both were shown as they stood before the debate, so that the
\* order in which the pairs are asked decides nothing but ties.
MoveBacked ==
    Len(table) >= DebateRound =>
        \A a \in Agents : StanceIn(DebateRound, a) # StanceIn(Before, a) =>
            \E t \in turns :
                /\ t.target = a /\ t.speaker # a /\ <<t.speaker, a>> \in edges
                /\ t.shifts # <<>> /\ Head(t.shifts).to = StanceIn(DebateRound, a)
                /\ t.shown = <<StanceIn(Before, t.speaker), StanceIn(Before, a)>>

Movers == {a \in Agents : StanceIn(DebateRound, a) # StanceIn(Before, a)}

\* The report leaves no move of the debate out, even one whose shift names the
\* stance it leads to as the one it comes from, which the turns are not
\* counted for: every mover can be given a mention of its own, of a shift to
\* the stance it took.
MovesReported ==
    phase = "reported" =>
        \E told \in [Movers -> Shift] :
            /\ \A a \in Movers : told[a].to = StanceIn(DebateRound, a)
            /\ \A shift \in Shift : Cardinality({a \in Movers : told[a] = shift})
                                       <= markers[DebateRound][shift]

-----------------------------------------------------------------------------
(* The inductive invariant of RoundProofs.                                 *)

Response == [agent : Agents, stance : Stances, shift : Shift \cup {None},
             objections : SUBSET Objections]
DebateTurn == [speaker : Agents, target : Agents, shifts : Seq(Shift),
               shown : Stances \X Stances]

FlowTypeOK ==
    /\ edges \in SUBSET (Agents \X Agents)
    /\ phase \in {"ask", "debate", "write", "report", "reported", "stopped"}
    /\ snapshots \in [Agents -> [stance : Stances, objections : SUBSET (Nat \X Objections)]]
    /\ drafted \in SUBSET DebateTurn /\ IsFiniteSet(drafted)
    /\ pairShift \in [Agents -> Shift \cup {None}]
    /\ table \in Seq([Agents -> Response])
    /\ turns \in SUBSET DebateTurn /\ IsFiniteSet(turns)

\* A baseline says nothing, every other response is its agent's own.
Sound(r, said) ==
    \A a \in Agents :
        IF r = 1 THEN said[a].stance = Anchor /\ said[a].objections = {}
        ELSE said[a].agent = a

\* A shift of a is the first of a turn that was spoken to a by an agent that
\* influences it, when the stances were these.
Backed(a, shift, spoken, stances) ==
    \E t \in spoken :
        /\ t.target = a /\ t.speaker # a /\ <<t.speaker, a>> \in edges
        /\ t.shifts # <<>> /\ Head(t.shifts) = shift
        /\ t.shown = <<stances[t.speaker], stances[a]>>

\* What the responses of a debate say, after these stances.
Debated(said, spoken, stances) ==
    \A a \in Agents :
        IF said[a].shift = None THEN said[a].stance = stances[a]
        ELSE /\ said[a].stance = said[a].shift.to
             /\ Backed(a, said[a].shift, spoken, stances)

Stand == [a \in Agents |-> snapshots[a].stance]
StoodIn(r) == [a \in Agents |-> table[r][a].stance]

\* What the round holds so far.
RoundHolds ==
    /\ phase \in {"ask", "debate", "write"} => Len(table) < LastRound
    /\ phase \in {"report", "reported"} => Len(table) = LastRound
    /\ phase = "ask" => drafted = {} /\ pairShift = NoShifts
    /\ phase = "debate" =>
         /\ Round = DebateRound /\ pairs \subseteq {e \in edges : e[1] # e[2]}
         /\ \A a \in Agents :
              pairShift[a] # None => Backed(a, pairShift[a], drafted, Stand)
    /\ phase = "write" =>
         /\ rows \in [Agents -> Response] /\ Sound(Round, rows)
         /\ Round = DebateRound => Debated(rows, drafted, Stand)

TableHolds ==
    /\ \A r \in 1 .. Len(table) : Sound(r, table[r])
    /\ Len(table) >= DebateRound => Debated(table[DebateRound], turns, StoodIn(Before))

MemoryHolds ==
    \A a \in Agents :
        /\ snapshots[a].stance = IF table = <<>> THEN Anchor ELSE table[Len(table)][a].stance
        /\ snapshots[a].objections =
             {told \in (1 .. Len(table)) \X Objections :
                told[2] \in table[told[1]][a].objections}

ReportHolds ==
    phase = "reported" =>
        markers = [r \in 1 .. LastRound |-> [shift \in Shift |-> MarkerCount(r, shift)]]

FlowInv == FlowTypeOK /\ RoundHolds /\ TableHolds /\ MemoryHolds /\ ReportHolds
=============================================================================
