-------------------------- MODULE GroupAssignment --------------------------
(***************************************************************************)
(* assign_groups_stratified (sources/discussion_layer/group_assignment.py) *)
(* as run_live_discussion calls it: a greedy placement of the personas, in *)
(* an order that only their ids decide, into groups of a target size.      *)
(* Personas 1 .. total are numbered in that order; their profiles are any. *)
(***************************************************************************)
EXTENDS Integers, FiniteSets, FiniteSetsExt

CONSTANTS
    GroupSize,      \* group_size (6 in the code)
    MaxTotal,       \* bound: the largest society
    Profiles        \* the profiles a persona may have, see Attributes

\* The weights of overlap_score.  The four psychology buckets weigh 2 each;
\* the prior stance of a live run is None for every persona.
Weight == [role |-> 5, stance |-> 3, extraversion |-> 2, agreeableness |-> 2,
           susceptibility |-> 2, threshold |-> 2, provider |-> 2]
Attributes == DOMAIN Weight

ASSUME SizeAssumption == GroupSize \in Nat \ {0} /\ MaxTotal \in Nat \ {0}
ASSUME ProfilesAssumption == \A p \in Profiles : DOMAIN p = Attributes

VARIABLES
    total,      \* n_total: how many personas the run has
    profile,    \* their profiles
    groups,     \* the groups so far, sets of personas
    next        \* the persona to place

groupVars == <<total, profile, groups, next>>

\* group_count, as the caller computes it.
GroupCount == IF total \div GroupSize > 1 THEN total \div GroupSize ELSE 1
Groups == 1 .. GroupCount

\* target_size: group_size, or less when the groups would not be filled.
Target == IF GroupSize * GroupCount > total THEN total \div GroupCount ELSE GroupSize

GroupInit ==
    /\ total \in 1 .. MaxTotal
    /\ profile \in [1 .. total -> Profiles]
    /\ groups = [g \in Groups |-> {}]
    /\ next = 1

Overlap(g) ==
    MapThenSumSet(
        LAMBDA a : Weight[a] * Cardinality({p \in groups[g] : profile[p][a] = profile[next][a]}),
        Attributes)

\* Mutant of Candidates: the capacity is off by one.
CandidatesOneMore ==
    LET open == {g \in Groups : Cardinality(groups[g]) <= Target}
    IN  IF open # {} THEN open ELSE Groups

\* The groups below the target size; all of them when there is none.
Candidates ==
    LET open == {g \in Groups : Cardinality(groups[g]) < Target}
    IN  IF open # {} THEN open ELSE Groups

\* The order of the tuples (overlap, length, index).
Before(g, h) ==
    \/ Overlap(g) < Overlap(h)
    \/ Overlap(g) = Overlap(h) /\ Cardinality(groups[g]) < Cardinality(groups[h])
    \/ Overlap(g) = Overlap(h) /\ Cardinality(groups[g]) = Cardinality(groups[h]) /\ g <= h

Place ==
    /\ next <= total
    /\ \E g \in Candidates :
         /\ \A h \in Candidates : Before(g, h)
         /\ groups' = [groups EXCEPT ![g] = @ \cup {next}]
    /\ next' = next + 1
    /\ UNCHANGED <<total, profile>>

GroupSpec == GroupInit /\ [][Place]_groupVars

-----------------------------------------------------------------------------
(* Properties.                                                             *)

Length(g) == Cardinality(groups[g])
Placed == next > total

\* Whatever the profiles, no group stays short for the sake of diversity: at
\* the end every group has its target size, and a group is larger only when
\* none was short of it at that time.
NoGroupShort ==
    /\ Placed => \A g \in Groups : Length(g) >= Target
    /\ \A g, h \in Groups : Length(g) > Target => Length(h) >= Target

-----------------------------------------------------------------------------
(* The inductive invariant of LiveDiscussionProofs.                        *)

GroupTypeOK ==
    /\ total \in 1 .. MaxTotal /\ next \in 1 .. total + 1
    /\ groups \in [Groups -> SUBSET (1 .. total)]

\* Who was placed is in one group, and nobody else is in any.
Partitioned ==
    /\ UNION {groups[g] : g \in Groups} = 1 .. next - 1
    /\ \A g, h \in Groups : g # h => groups[g] \cap groups[h] = {}

\* Nothing overflows while a group is short.
OverflowLast == \A g, h \in Groups : Length(g) > Target => Length(h) >= Target

GroupInv == GroupTypeOK /\ Partitioned /\ OverflowLast

=============================================================================
