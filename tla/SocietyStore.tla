---------------------------- MODULE SocietyStore ----------------------------
(***************************************************************************)
(* persist_live_society (orchestration/live_evidence_pipeline.py) of       *)
(* several live runs at once.  Each run writes its sources, personas,      *)
(* traits and links in one transaction of a READ COMMITTED database.       *)
(* source_records is shared, and unique by provider and content: runs of   *)
(* one market find the same pages.                                         *)
(*                                                                         *)
(* The check that no persona carries the run's scope id always passes: the *)
(* id contains the id of the run, and a run comes here once.               *)
(***************************************************************************)
EXTENDS FiniteSets

CONSTANTS
    Runs,
    Contents,   \* provider and hash of a snippet
    Needs       \* of a run: the contents of its accepted evidence

ASSUME NeedsAssumption == Needs \in [Runs -> SUBSET Contents]

None == "none"
ASSUME NoneAssumption == None \notin Contents

VARIABLES
    \* --- committed
    records,    \* source_records, as pairs of a content and the run that wrote it
    links,      \* of a run: the sources its committed personas refer to
    \* --- each run's transaction
    phase, todo,
    added,      \* the record in the session that is not yet flushed
    inserted,   \* contents whose row it has inserted
    sources,    \* src_synthetic_to_uuid: what the personas will refer to
    broken      \* runs that lost their connection or process

vars == <<records, links, phase, todo, added, inserted, sources, broken>>
session == <<todo, added, inserted, sources>>

Active == {"sources", "personas"}
Ended == {"committed", "failed"}

Init ==
    /\ records = {} /\ links = [r \in Runs |-> {}]
    /\ phase = [r \in Runs |-> "retrieving"]
    /\ todo = Needs
    /\ added = [r \in Runs |-> None]
    /\ inserted = [r \in Runs |-> {}] /\ sources = [r \in Runs |-> {}]
    /\ broken = {}

-----------------------------------------------------------------------------
Begin(r) ==
    /\ phase[r] = "retrieving"
    /\ phase' = [phase EXCEPT ![r] = "sources"]
    /\ UNCHANGED <<records, links, session, broken>>

\* Mutant of Visible: rows that others have not committed are seen.
VisibleDirty(r) == records \cup UNION {inserted[q] \X {q} : q \in Runs}

\* What a SELECT of the transaction sees: each statement anew.
Visible(r) == records \cup (inserted[r] \X {r})

\* The SELECT by provider and hash.  It flushes the session first (autoflush),
\* so it waits for the INSERT of the record that was added last.
Lookup(r, c) ==
    /\ phase[r] = "sources" /\ added[r] = None /\ c \in todo[r]
    /\ todo' = [todo EXCEPT ![r] = @ \ {c}]
    /\ IF \E q \in Runs : <<c, q>> \in Visible(r)
       THEN /\ \E q \in Runs : /\ <<c, q>> \in Visible(r)
                               /\ sources' = [sources EXCEPT ![r] = @ \cup {<<c, q>>}]
            /\ UNCHANGED added
       ELSE /\ added' = [added EXCEPT ![r] = c]
            /\ sources' = [sources EXCEPT ![r] = @ \cup {<<c, r>>}]
    /\ UNCHANGED <<records, links, phase, inserted, broken>>

\* The unique index makes an INSERT wait for the end of a transaction that
\* has inserted the same content.
WaitsFor(r, q) == q # r /\ added[r] # None /\ added[r] \in inserted[q]

Stored(c) == \E q \in Runs : <<c, q>> \in records

Insert(r) ==
    /\ phase[r] = "sources" /\ added[r] # None
    /\ ~Stored(added[r]) /\ \A q \in Runs : ~WaitsFor(r, q)
    /\ inserted' = [inserted EXCEPT ![r] = @ \cup {added[r]}]
    /\ added' = [added EXCEPT ![r] = None]
    /\ UNCHANGED <<records, links, phase, todo, sources, broken>>

\* The whole transaction is rolled back, and the stage of the run fails.
Rollback(r) ==
    /\ phase' = [phase EXCEPT ![r] = "failed"]
    /\ inserted' = [inserted EXCEPT ![r] = {}]
    /\ added' = [added EXCEPT ![r] = None]
    /\ UNCHANGED <<records, links, todo, sources>>

\* IntegrityError: another run has committed the content since the SELECT.
Collide(r) ==
    /\ phase[r] = "sources" /\ added[r] # None /\ Stored(added[r])
    /\ Rollback(r) /\ UNCHANGED broken

\* Transactions that wait for each other in a circle: the server fails one.
Circle(S) == \A r \in S : \E p, q \in S : WaitsFor(r, q) /\ WaitsFor(p, r)

\* Mutant of DeadlockVictim: every transaction of the circle times out.
DeadlockVictims(r) ==
    \E S \in SUBSET Runs :
        /\ r \in S /\ Circle(S)
        /\ phase' = [q \in Runs |-> IF q \in S THEN "failed" ELSE phase[q]]
        /\ inserted' = [q \in Runs |-> IF q \in S THEN {} ELSE inserted[q]]
        /\ added' = [q \in Runs |-> IF q \in S THEN None ELSE added[q]]
        /\ UNCHANGED <<records, links, todo, sources, broken>>

DeadlockVictim(r) ==
    /\ \E S \in SUBSET Runs : r \in S /\ Circle(S)
    /\ Rollback(r) /\ UNCHANGED broken

FlushSources(r) ==
    /\ phase[r] = "sources" /\ todo[r] = {} /\ added[r] = None
    /\ phase' = [phase EXCEPT ![r] = "personas"]
    /\ UNCHANGED <<records, links, session, broken>>

\* Personas, traits and links, then COMMIT.
Commit(r) ==
    /\ phase[r] = "personas"
    /\ phase' = [phase EXCEPT ![r] = "committed"]
    /\ records' = records \cup (inserted[r] \X {r})
    /\ links' = [links EXCEPT ![r] = sources[r]]
    /\ inserted' = [inserted EXCEPT ![r] = {}]
    /\ UNCHANGED <<todo, added, sources, broken>>

\* Mutant of Break: the server keeps the transaction of the lost connection.
BreakHolding(r) ==
    /\ phase[r] \in Active
    /\ broken' = broken \cup {r}
    /\ phase' = [phase EXCEPT ![r] = "failed"]
    /\ UNCHANGED <<records, links, session>>

\* The connection or the process is lost.
Break(r) ==
    /\ phase[r] \in Active
    /\ broken' = broken \cup {r}
    /\ Rollback(r)

RunStep(r) ==
    \/ Begin(r) \/ Insert(r) \/ Collide(r) \/ DeadlockVictim(r)
    \/ FlushSources(r) \/ Commit(r)
    \/ \E c \in Contents : Lookup(r, c)

Next == \E r \in Runs : RunStep(r) \/ Break(r)

Spec == Init /\ [][Next]_vars

\* The event loop runs every run, and the server resolves a circle of waiting
\* transactions after its deadlock_timeout.
FairSpec == Spec /\ \A r \in Runs : WF_vars(RunStep(r))

-----------------------------------------------------------------------------
(* Properties.                                                             *)

TypeOK ==
    /\ records \subseteq Contents \X Runs
    /\ links \in [Runs -> SUBSET (Contents \X Runs)]
    /\ phase \in [Runs -> {"retrieving"} \cup Active \cup Ended]
    /\ todo \in [Runs -> SUBSET Contents]
    /\ added \in [Runs -> Contents \cup {None}]
    /\ inserted \in [Runs -> SUBSET Contents]
    /\ sources \in [Runs -> SUBSET (Contents \X Runs)]
    /\ broken \subseteq Runs

\* Every content of a run's evidence is stored once its society is, its
\* personas refer to stored records alone, whoever wrote them, and a run that
\* failed leaves nothing behind.
SocietyWhole ==
    /\ \A r \in Runs : phase[r] = "committed" =>
           /\ links[r] \subseteq records
           /\ \A c \in Needs[r] : \E q \in Runs : <<c, q>> \in links[r]
    /\ \A rec \in records : phase[rec[2]] = "committed"

\* A content has one record, for the runs agree on it or all but one fail.
OneRecord == \A c \in Contents, p, q \in Runs : <<c, p>> \in records /\ <<c, q>> \in records => p = q

\* Runs that contend for the same contents never bring each other all down:
\* unless one is broken from outside, one is still on its way or has its
\* society.
SomeoneWins == broken = {} /\ Runs # {} => \E r \in Runs : phase[r] # "failed"

\* A transaction under way that waits for nobody can go on.
Free(r) == phase[r] \in Active /\ \A q \in Runs : ~WaitsFor(r, q)

\* However the runs have come to wait for each other, one of them can go on,
\* or there is a circle, which the server finds and breaks.
NobodyStuck ==
    (\E r \in Runs : phase[r] \in Active) =>
        \/ \E r \in Runs : Free(r)
        \/ \E S \in SUBSET Runs : S # {} /\ Circle(S)

\* Whatever the SELECTs and INSERTs of the runs see of each other, the store
\* and the societies in it are those of runs that came one after the other.
Serial == INSTANCE SerialStore WITH saved <- {r \in Runs : phase[r] = "committed"}
ImplementsSerialStore == Serial!Spec

\* A run that waits for another's records is not left waiting.
EveryRunEnds == \A r \in Runs : phase[r] \in Active ~> phase[r] \in Ended

\* The claim of the comment at the SELECT (live_evidence_pipeline.py:1244):
\* that a source is there already is no failure.
SharedSourceIsNoFailure == \A r \in Runs : phase[r] = "failed" => r \in broken

-----------------------------------------------------------------------------
(* The inductive invariant of SocietyStoreProofs.                          *)

\* What a transaction holds and refers to, while it lasts.
SessionHolds ==
    \A r \in Runs :
        /\ phase[r] \in {"retrieving"} \cup Ended => inserted[r] = {} /\ added[r] = None
        /\ phase[r] = "personas" => todo[r] = {} /\ added[r] = None
        /\ phase[r] = "retrieving" => todo[r] = Needs[r] /\ sources[r] = {}
        /\ phase[r] # "failed" =>
             \A s \in sources[r] :
                s \in records \/ (s[2] = r /\ (s[1] \in inserted[r] \/ s[1] = added[r]))
        /\ \A c \in Needs[r] : c \in todo[r] \/ \E q \in Runs : <<c, q>> \in sources[r]

\* The unique index: a content is stored, or inserted by one transaction.
Unique ==
    \A r, q \in Runs : \A c \in inserted[r] :
        ~Stored(c) /\ (c \in inserted[q] => q = r)

\* A transaction touches only what the run's own evidence is made of.
OwnEvidence ==
    \A r \in Runs :
        /\ todo[r] \cup inserted[r] \cup {s[1] : s \in sources[r]} \subseteq Needs[r]
        /\ added[r] \in Needs[r] \cup {None}

IInv == TypeOK /\ SessionHolds /\ Unique /\ SocietyWhole /\ OneRecord /\ SomeoneWins
=============================================================================
