------------------------- MODULE SocietyStoreProofs -------------------------
(* Proofs about SocietyStore: any number of runs, whatever they need of     *)
(* each other's sources, any of them lost at any time.                      *)
EXTENDS SocietyStore, FiniteSetTheorems, WellFoundedInduction, TLAPS

----------------------------------------------------------------------------
LEMMA InitInv == Init => IInv
  BY NeedsAssumption DEF Init, IInv, TypeOK, SessionHolds, Unique, SocietyWhole, OneRecord,
     SomeoneWins, Stored, Active, Ended

LEMMA BeginInv == ASSUME IInv, NEW r \in Runs, Begin(r) PROVE IInv'
<1> USE DEF IInv, Begin, session
<1>1. TypeOK'
  BY DEF TypeOK, Active
<1>2. SessionHolds'
  BY DEF SessionHolds, TypeOK, Ended
<1>3. Unique' /\ OneRecord'
  BY DEF Unique, OneRecord, Stored
<1>4. SocietyWhole' /\ SomeoneWins'
  BY DEF SocietyWhole, SomeoneWins, TypeOK
<1> QED BY <1>1, <1>2, <1>3, <1>4

\* A source found is stored, or this run's own row.
LEMMA LookupInv ==
  ASSUME IInv, NEW r \in Runs, NEW c \in Contents, Lookup(r, c)
  PROVE  IInv'
<1> USE DEF IInv
<1>1. PICK q \in Runs :
        /\ sources' = [sources EXCEPT ![r] = @ \cup {<<c, q>>}]
        /\ \/ added' = added /\ (<<c, q>> \in records \/ (q = r /\ c \in inserted[r]))
           \/ added' = [added EXCEPT ![r] = c] /\ q = r
  BY DEF Lookup, Visible, TypeOK
<1>2. /\ phase[r] = "sources" /\ added[r] = None /\ c \in todo[r]
      /\ todo' = [todo EXCEPT ![r] = @ \ {c}]
      /\ UNCHANGED <<records, links, phase, inserted, broken>>
  BY DEF Lookup
<1>3. TypeOK'
  BY <1>1, <1>2 DEF TypeOK
<1>4. SessionHolds'
  <2> SUFFICES ASSUME NEW p \in Runs
      PROVE /\ phase[p] \in {"retrieving"} \cup Ended => inserted[p] = {} /\ added'[p] = None
            /\ phase[p] = "personas" => todo'[p] = {} /\ added'[p] = None
            /\ phase[p] = "retrieving" => todo'[p] = Needs[p] /\ sources'[p] = {}
            /\ phase[p] # "failed" =>
                 \A s \in sources'[p] :
                    s \in records \/ (s[2] = p /\ (s[1] \in inserted[p] \/ s[1] = added'[p]))
            /\ \A d \in Needs[p] : d \in todo'[p] \/ \E o \in Runs : <<d, o>> \in sources'[p]
    BY <1>2 DEF SessionHolds
  <2>1. CASE p # r
    <3>1. added'[p] = added[p] /\ todo'[p] = todo[p] /\ sources'[p] = sources[p]
      BY <1>1, <1>2, <2>1 DEF TypeOK
    <3> QED BY <3>1 DEF SessionHolds
  <2>2. CASE p = r
    <3>1. phase[p] \notin {"retrieving", "personas"} \cup Ended
      BY <1>2, <2>2 DEF Ended
    <3>2. \A s \in sources[r] : s \in records \/ (s[2] = r /\ s[1] \in inserted[r])
      BY <1>2, NoneAssumption DEF SessionHolds, TypeOK
    <3>3. \A s \in sources'[r] :
            s \in records \/ (s[2] = r /\ (s[1] \in inserted[r] \/ s[1] = added'[r]))
      BY <1>1, <3>2 DEF TypeOK
    <3>4. \A d \in Needs[r] : d \in todo'[r] \/ \E o \in Runs : <<d, o>> \in sources'[r]
      BY <1>1, <1>2 DEF SessionHolds, TypeOK
    <3> QED BY <2>2, <3>1, <3>3, <3>4 DEF Ended
  <2> QED BY <2>1, <2>2
<1>5. Unique' /\ OneRecord'
  BY <1>2 DEF Unique, OneRecord, Stored
<1>6. SocietyWhole' /\ SomeoneWins'
  BY <1>2 DEF SocietyWhole, SomeoneWins
<1> QED BY <1>3, <1>4, <1>5, <1>6

LEMMA InsertInv == ASSUME IInv, NEW r \in Runs, Insert(r) PROVE IInv'
<1> USE DEF IInv
<1>1. /\ phase[r] = "sources" /\ added[r] # None /\ ~Stored(added[r])
      /\ \A q \in Runs : q # r => added[r] \notin inserted[q]
      /\ inserted' = [inserted EXCEPT ![r] = @ \cup {added[r]}]
      /\ added' = [added EXCEPT ![r] = None]
      /\ UNCHANGED <<records, links, phase, todo, sources, broken>>
  BY DEF Insert, WaitsFor
<1>2. TypeOK'
  BY <1>1 DEF TypeOK
<1>3. SessionHolds'
  BY <1>1 DEF SessionHolds, TypeOK, Ended
<1>4. Unique'
  <2> SUFFICES ASSUME NEW p \in Runs, NEW q \in Runs, NEW c \in inserted'[p]
      PROVE  ~Stored(c) /\ (c \in inserted'[q] => q = p)
    BY <1>1 DEF Unique, Stored
  <2>1. CASE c \in inserted[p] /\ c # added[r]
    BY <1>1, <2>1 DEF Unique, TypeOK
  <2>2. CASE c = added[r]
    BY <1>1, <2>2 DEF TypeOK
  <2> QED BY <1>1, <2>1, <2>2 DEF TypeOK
<1>5. OneRecord' /\ SocietyWhole' /\ SomeoneWins'
  BY <1>1 DEF OneRecord, SocietyWhole, SomeoneWins
<1> QED BY <1>2, <1>3, <1>4, <1>5

\* A transaction that is rolled back disturbs nobody; what is left to show is
\* that somebody else is not failed.
LEMMA RollbackInv ==
  ASSUME IInv, NEW r \in Runs, Rollback(r), phase[r] \in Active,
         broken' \subseteq Runs,
         broken' = {} => \E q \in Runs \ {r} : phase[q] # "failed"
  PROVE  IInv'
<1> USE DEF IInv
<1>1. /\ phase' = [phase EXCEPT ![r] = "failed"]
      /\ inserted' = [inserted EXCEPT ![r] = {}]
      /\ added' = [added EXCEPT ![r] = None]
      /\ UNCHANGED <<records, links, todo, sources>>
  BY DEF Rollback
<1>2. TypeOK'
  BY <1>1 DEF TypeOK, Ended
<1>3. SessionHolds'
  <2> SUFFICES ASSUME NEW p \in Runs
      PROVE /\ phase'[p] \in {"retrieving"} \cup Ended => inserted'[p] = {} /\ added'[p] = None
            /\ phase'[p] = "personas" => todo[p] = {} /\ added'[p] = None
            /\ phase'[p] = "retrieving" => todo[p] = Needs[p] /\ sources[p] = {}
            /\ phase'[p] # "failed" =>
                 \A s \in sources[p] :
                    s \in records \/ (s[2] = p /\ (s[1] \in inserted'[p] \/ s[1] = added'[p]))
            /\ \A d \in Needs[p] : d \in todo[p] \/ \E o \in Runs : <<d, o>> \in sources[p]
    BY <1>1 DEF SessionHolds
  <2>1. CASE p # r
    <3>1. added'[p] = added[p] /\ phase'[p] = phase[p] /\ inserted'[p] = inserted[p]
      BY <1>1, <2>1 DEF TypeOK
    <3> QED BY <3>1 DEF SessionHolds
  <2>2. CASE p = r
    BY <1>1, <2>2 DEF SessionHolds, TypeOK
  <2> QED BY <2>1, <2>2
<1>4. Unique'
  BY <1>1 DEF Unique, Stored, TypeOK
<1>5. OneRecord'
  BY <1>1 DEF OneRecord
<1>6. SocietyWhole'
  <2>1. phase[r] # "committed"
    BY DEF Active
  <2> QED BY <1>1, <2>1 DEF SocietyWhole, TypeOK
<1>7. SomeoneWins'
  BY <1>1 DEF SomeoneWins, TypeOK
<1> QED BY <1>2, <1>3, <1>4, <1>5, <1>6, <1>7

\* The run that stored the content is committed.
LEMMA CollideInv == ASSUME IInv, NEW r \in Runs, Collide(r) PROVE IInv'
<1>1. phase[r] = "sources" /\ Stored(added[r]) /\ Rollback(r) /\ broken' = broken
  BY DEF Collide
<1>2. PICK q \in Runs : <<added[r], q>> \in records
  BY <1>1 DEF Stored
<1>3. phase[q] = "committed"
  BY <1>2 DEF IInv, SocietyWhole
<1> QED BY <1>1, <1>3, RollbackInv DEF Active, IInv, TypeOK

\* In a circle, the run that waits for the victim goes on.
LEMMA DeadlockVictimInv == ASSUME IInv, NEW r \in Runs, DeadlockVictim(r) PROVE IInv'
<1>1. PICK S \in SUBSET Runs : r \in S /\ Circle(S)
  BY DEF DeadlockVictim
<1>2. PICK p \in S, q \in S : WaitsFor(r, q) /\ WaitsFor(p, r)
  BY <1>1 DEF Circle
<1>3. ASSUME NEW o \in Runs, added[o] # None PROVE phase[o] = "sources"
  BY <1>3 DEF IInv, SessionHolds, TypeOK, Active, Ended
<1>4. phase[r] = "sources" /\ phase[p] = "sources" /\ p # r
  BY <1>1, <1>2, <1>3 DEF WaitsFor
<1>5. Rollback(r) /\ broken' = broken
  BY DEF DeadlockVictim
<1> QED BY <1>1, <1>4, <1>5, RollbackInv DEF Active, IInv, TypeOK

LEMMA FlushInv == ASSUME IInv, NEW r \in Runs, FlushSources(r) PROVE IInv'
<1> USE DEF IInv, FlushSources, session
<1>1. TypeOK'
  BY DEF TypeOK, Active
<1>2. SessionHolds'
  BY DEF SessionHolds, TypeOK, Ended
<1>3. Unique' /\ OneRecord'
  BY DEF Unique, OneRecord, Stored
<1>4. SocietyWhole' /\ SomeoneWins'
  BY DEF SocietyWhole, SomeoneWins, TypeOK
<1> QED BY <1>1, <1>2, <1>3, <1>4

\* What the run has inserted becomes the one record of its content, and all
\* its personas refer to is stored with it or was stored before.
LEMMA CommitInv == ASSUME IInv, NEW r \in Runs, Commit(r) PROVE IInv'
<1> USE DEF IInv
<1>1. /\ phase[r] = "personas"
      /\ phase' = [phase EXCEPT ![r] = "committed"]
      /\ records' = records \cup (inserted[r] \X {r})
      /\ links' = [links EXCEPT ![r] = sources[r]]
      /\ inserted' = [inserted EXCEPT ![r] = {}]
      /\ UNCHANGED <<todo, added, sources, broken>>
  BY DEF Commit
<1>2. TypeOK'
  BY <1>1 DEF TypeOK, Ended
<1>3. todo[r] = {} /\ added[r] = None
  BY <1>1 DEF SessionHolds
<1>4. sources[r] \subseteq records'
  <2> SUFFICES ASSUME NEW s \in sources[r] PROVE s \in records'
    OBVIOUS
  <2>1. s \in Contents \X Runs
    BY DEF TypeOK
  <2>2. s \in records \/ (s[2] = r /\ s[1] \in inserted[r])
    BY <1>1, <1>3, <2>1, NoneAssumption DEF SessionHolds
  <2> QED BY <1>1, <2>1, <2>2
<1>5. SessionHolds'
  <2> SUFFICES ASSUME NEW p \in Runs
      PROVE /\ phase'[p] \in {"retrieving"} \cup Ended => inserted'[p] = {} /\ added[p] = None
            /\ phase'[p] = "personas" => todo[p] = {} /\ added[p] = None
            /\ phase'[p] = "retrieving" => todo[p] = Needs[p] /\ sources[p] = {}
            /\ phase'[p] # "failed" =>
                 \A s \in sources[p] :
                    s \in records' \/ (s[2] = p /\ (s[1] \in inserted'[p] \/ s[1] = added[p]))
            /\ \A d \in Needs[p] : d \in todo[p] \/ \E o \in Runs : <<d, o>> \in sources[p]
    BY <1>1 DEF SessionHolds
  <2>1. CASE p = r
    BY <1>1, <1>3, <1>4, <2>1 DEF SessionHolds, TypeOK
  <2>2. CASE p # r
    BY <1>1, <2>2 DEF SessionHolds, TypeOK
  <2> QED BY <2>1, <2>2
<1>6. Unique'
  <2> SUFFICES ASSUME NEW p \in Runs, NEW q \in Runs, NEW c \in inserted'[p]
      PROVE  ~Stored(c)' /\ (c \in inserted'[q] => q = p)
    BY DEF Unique, Stored
  <2>1. p # r /\ c \in inserted[p]
    BY <1>1 DEF TypeOK
  <2>2. ~Stored(c) /\ c \notin inserted[r] /\ (c \in inserted[q] => q = p)
    BY <2>1 DEF Unique
  <2> QED BY <1>1, <2>2 DEF Stored, TypeOK
<1>7. OneRecord'
  <2> SUFFICES ASSUME NEW c \in Contents, NEW p \in Runs, NEW q \in Runs,
                      <<c, p>> \in records', <<c, q>> \in records'
      PROVE  p = q
    BY DEF OneRecord
  <2>1. CASE c \in inserted[r]
    BY <1>1, <2>1 DEF Unique, Stored
  <2>2. CASE c \notin inserted[r]
    BY <1>1, <2>2 DEF OneRecord
  <2> QED BY <2>1, <2>2
<1>8. SocietyWhole'
  <2>1. \A p \in Runs : phase'[p] = "committed" =>
           /\ links'[p] \subseteq records'
           /\ \A c \in Needs[p] : \E q \in Runs : <<c, q>> \in links'[p]
    <3> SUFFICES ASSUME NEW p \in Runs, phase'[p] = "committed"
        PROVE  /\ links'[p] \subseteq records'
               /\ \A c \in Needs[p] : \E q \in Runs : <<c, q>> \in links'[p]
      OBVIOUS
    <3>1. CASE p = r
      BY <1>1, <1>3, <1>4, <3>1 DEF SessionHolds, TypeOK
    <3>2. CASE p # r
      BY <1>1, <3>2 DEF SocietyWhole, TypeOK
    <3> QED BY <3>1, <3>2
  <2>2. \A rec \in records' : phase'[rec[2]] = "committed"
    BY <1>1 DEF SocietyWhole, TypeOK
  <2> QED BY <2>1, <2>2 DEF SocietyWhole
<1>9. SomeoneWins'
  BY <1>1 DEF SomeoneWins, TypeOK
<1> QED BY <1>2, <1>5, <1>6, <1>7, <1>8, <1>9

LEMMA BreakInv == ASSUME IInv, NEW r \in Runs, Break(r) PROVE IInv'
<1>1. phase[r] \in Active /\ broken' = broken \cup {r} /\ Rollback(r)
  BY DEF Break
<1> QED BY <1>1, RollbackInv DEF IInv, TypeOK

LEMMA NextInv == IInv /\ [Next]_vars => IInv'
<1> SUFFICES ASSUME IInv, [Next]_vars PROVE IInv'
  OBVIOUS
<1>1. CASE UNCHANGED vars
  BY <1>1 DEF vars, IInv, TypeOK, SessionHolds, Unique, SocietyWhole, OneRecord, SomeoneWins, Stored
<1>2. CASE Next
  <2>1. PICK r \in Runs : RunStep(r) \/ Break(r)
    BY <1>2 DEF Next
  <2> QED BY <2>1, BeginInv, LookupInv, InsertInv, CollideInv, DeadlockVictimInv, FlushInv,
             CommitInv, BreakInv DEF RunStep
<1> QED BY <1>1, <1>2

\* What a transaction asks for, inserts and refers to is in the evidence of
\* its run.
LEMMA OwnEvidenceStep == TypeOK /\ OwnEvidence /\ [Next]_vars => OwnEvidence'
<1> SUFFICES ASSUME TypeOK, OwnEvidence, [Next]_vars PROVE OwnEvidence'
  OBVIOUS
<1> DEFINE Own(p) == /\ todo[p] \subseteq Needs[p] /\ inserted[p] \subseteq Needs[p]
                     /\ \A s \in sources[p] : s[1] \in Needs[p]
                     /\ added[p] \in Needs[p] \cup {None}
<1>1. \A p \in Runs : Own(p)
  BY DEF OwnEvidence
<1>2. ASSUME NEW r \in Runs, NEW c \in Contents, Lookup(r, c), NEW p \in Runs PROVE Own(p)'
  <2>1. c \in Needs[r]
    BY <1>1, <1>2 DEF Lookup
  <2>2. PICK q \in Runs : sources' = [sources EXCEPT ![r] = @ \cup {<<c, q>>}]
    BY <1>2 DEF Lookup
  <2>3. added'[p] \in {added[p], c} /\ (p # r => added'[p] = added[p])
    BY <1>2 DEF Lookup, TypeOK
  <2>4. todo'[p] \subseteq todo[p] /\ inserted'[p] = inserted[p]
    BY <1>2 DEF Lookup, TypeOK
  <2>5. \A s \in sources'[p] : s \in sources[p] \/ (p = r /\ s = <<c, q>>)
    BY <2>2 DEF TypeOK
  <2> QED BY <1>1, <2>1, <2>3, <2>4, <2>5
<1>3. ASSUME NEW r \in Runs, Insert(r), NEW p \in Runs PROVE Own(p)'
  BY <1>1, <1>3 DEF Insert, TypeOK
<1>4. ASSUME NEW r \in Runs, Rollback(r), NEW p \in Runs PROVE Own(p)'
  BY <1>1, <1>4 DEF Rollback, TypeOK
<1>5. ASSUME NEW r \in Runs, Begin(r) \/ FlushSources(r) \/ Commit(r), NEW p \in Runs
      PROVE  Own(p)'
  BY <1>1, <1>5 DEF Begin, FlushSources, Commit, session, TypeOK
<1>6. ASSUME UNCHANGED vars, NEW p \in Runs PROVE Own(p)'
  BY <1>1, <1>6 DEF vars
<1>7. ASSUME NEW p \in Runs PROVE Own(p)'
  <2> HIDE DEF Own
  <2> QED BY <1>2, <1>3, <1>4, <1>5, <1>6 DEF Next, RunStep, Collide, DeadlockVictim, Break
<1> QED BY <1>7 DEF OwnEvidence

\* Before its transaction, and when it is rolled back, a run leaves the store
\* as it was.
LEMMA OnlyCommitStores ==
  ASSUME IInv, [Next]_vars, ~\E r \in Runs : Commit(r)
  PROVE  UNCHANGED Serial!vars
<1> USE DEF Serial!vars
<1>1. CASE UNCHANGED vars
  BY <1>1 DEF vars
<1>2. CASE \E r \in Runs : Rollback(r) /\ phase[r] \in Active
  BY <1>2 DEF Rollback, IInv, TypeOK, Active
<1>3. CASE \E r \in Runs : Begin(r) \/ Insert(r) \/ FlushSources(r) \/ \E c \in Contents : Lookup(r, c)
  BY <1>3 DEF Begin, Insert, FlushSources, Lookup, IInv, TypeOK
<1>4. ASSUME NEW r \in Runs, Collide(r) \/ DeadlockVictim(r) \/ Break(r)
      PROVE  Rollback(r) /\ phase[r] \in Active
  <2>1. CASE Collide(r) \/ Break(r)
    BY <2>1 DEF Collide, Break, Active
  <2>2. CASE DeadlockVictim(r)
    <3>1. PICK S \in SUBSET Runs : r \in S /\ Circle(S)
      BY <2>2 DEF DeadlockVictim
    <3>2. added[r] # None
      BY <3>1 DEF Circle, WaitsFor
    <3> QED BY <2>2, <3>2 DEF DeadlockVictim, IInv, TypeOK, SessionHolds
  <2> QED BY <1>4, <2>1, <2>2
<1> QED BY <1>1, <1>2, <1>3, <1>4 DEF Next, RunStep

\* A commit stores what nobody has stored, for the index kept others from it
\* meanwhile, and links the run to the one record of all it needs.
LEMMA CommitSaves ==
  ASSUME IInv, OwnEvidence, NEW r \in Runs, Commit(r)
  PROVE  Serial!Save(r)
<1> USE DEF IInv
<1>1. /\ phase[r] = "personas"
      /\ phase' = [phase EXCEPT ![r] = "committed"]
      /\ records' = records \cup (inserted[r] \X {r})
      /\ links' = [links EXCEPT ![r] = sources[r]]
  BY DEF Commit
<1>2. todo[r] = {} /\ added[r] = None
  BY <1>1 DEF SessionHolds
<1>3. {p \in Runs : phase'[p] = "committed"} = {p \in Runs : phase[p] = "committed"} \cup {r}
  BY <1>1 DEF TypeOK
<1>4. OneRecord' /\ SocietyWhole' /\ TypeOK'
  BY CommitInv
<1>5. sources[r] = links'[r] /\ links'[r] \subseteq records'
  BY <1>1, <1>4 DEF SocietyWhole, TypeOK
<1>6. \A c \in Needs[r] : \E q \in Runs : <<c, q>> \in sources[r]
  BY <1>2 DEF SessionHolds
<1>7. sources[r] = {rec \in records' : rec[1] \in Needs[r]}
  <2>1. ASSUME NEW s \in sources[r] PROVE s \in records' /\ s[1] \in Needs[r]
    BY <1>5 DEF OwnEvidence
  <2>2. ASSUME NEW rec \in records', rec[1] \in Needs[r] PROVE rec \in sources[r]
    <3>1. PICK c \in Contents, p \in Runs : rec = <<c, p>>
      BY <1>4 DEF TypeOK
    <3>2. PICK q \in Runs : <<c, q>> \in sources[r]
      BY <1>6, <2>2, <3>1
    <3>3. p = q
      BY <1>4, <1>5, <2>2, <3>1, <3>2 DEF OneRecord
    <3> QED BY <3>1, <3>2, <3>3
  <2> QED BY <2>1, <2>2
<1>8. inserted[r] = Serial!New(r)
  <2>1. ASSUME NEW c \in inserted[r] PROVE c \in Needs[r] /\ \A q \in Runs : <<c, q>> \notin records
    BY DEF OwnEvidence, Unique, Stored
  <2>2. ASSUME NEW c \in Needs[r], \A q \in Runs : <<c, q>> \notin records PROVE c \in inserted[r]
    <3>1. PICK q \in Runs : <<c, q>> \in records'
      BY <1>5, <1>6
    <3> QED BY <1>1, <2>2, <3>1
  <2> QED BY <2>1, <2>2 DEF Serial!New
<1> QED BY <1>1, <1>3, <1>5, <1>7, <1>8 DEF Serial!Save

----------------------------------------------------------------------------
(* What holds of every behaviour.                                          *)

\* Types, what a transaction holds, and the unique index.
THEOREM StoreInvariance == Spec => []IInv
  BY InitInv, NextInv, PTL DEF Spec

\* A persisted society refers to stored records only, for all its evidence,
\* and a failed run leaves no row (persist_live_society is one transaction).
THEOREM SocietyWholeTheorem == Spec => []SocietyWhole
<1>1. IInv => SocietyWhole
  BY DEF IInv
<1> QED BY <1>1, StoreInvariance, PTL

\* However the runs interleave, a snippet is stored once.
THEOREM OneRecordTheorem == Spec => []OneRecord
<1>1. IInv => OneRecord
  BY DEF IInv
<1> QED BY <1>1, StoreInvariance, PTL

\* Any number of runs that contend for any sources cannot all fail of it.
THEOREM SomeoneWinsTheorem == Spec => []SomeoneWins
<1>1. IInv => SomeoneWins
  BY DEF IInv
<1> QED BY <1>1, StoreInvariance, PTL

\* The interleaved transactions are serialisable: the store goes through what
\* runs that came one after the other would have made of it.
THEOREM ImplementsSerialStoreTheorem == Spec => ImplementsSerialStore
<1>1. Init => Serial!Init /\ OwnEvidence
  BY NeedsAssumption DEF Init, Serial!Init, OwnEvidence
<1>2. IInv /\ OwnEvidence /\ [Next]_vars => OwnEvidence'
  BY OwnEvidenceStep DEF IInv
<1>3. IInv /\ OwnEvidence /\ [Next]_vars => [Serial!Next]_Serial!vars
  BY OnlyCommitStores, CommitSaves DEF Serial!Next
<1> QED BY <1>1, <1>2, <1>3, StoreInvariance, PTL DEF Spec, ImplementsSerialStore, Serial!Spec

----------------------------------------------------------------------------
(* Waiting.                                                                *)

\* A set of numbers has a least one.
LEMMA LeastNumber ==
  ASSUME NEW T \in SUBSET Nat, T # {}
  PROVE  \E n \in T : \A m \in T : n <= m
<1> DEFINE Less == OpToRel(<, Nat)
<1>1. IsWellFoundedOn(Less, Nat)
  BY NatLessThanWellFounded, Zenon
<1>2. \A m, n \in Nat : m < n => <<m, n>> \in Less
  BY DEF OpToRel
<1> HIDE DEF Less
<1>3. PICK n \in T : \A m \in T : <<m, n>> \notin Less
  BY <1>1, WFMin
<1>4. ASSUME NEW m \in T PROVE n <= m
  <2>1. m \in Nat /\ n \in Nat
    OBVIOUS
  <2>2. ~(m < n)
    BY <1>2, <1>3, <2>1
  <2> QED BY <2>1, <2>2
<1> QED BY <1>4

\* Runs that all wait for one of themselves: the fewest such runs are each
\* also waited for, since those that are waited for are such runs too.
LEMMA WaitersFormCircle ==
  ASSUME IsFiniteSet(Runs),
         NEW W \in SUBSET Runs, W # {}, \A r \in W : \E q \in W : WaitsFor(r, q)
  PROVE  \E S \in SUBSET Runs : S # {} /\ Circle(S)
<1> DEFINE Closed == {S \in SUBSET Runs : S # {} /\ \A r \in S : \E q \in S : WaitsFor(r, q)}
           Sizes == {Cardinality(S) : S \in Closed}
<1>1. ASSUME NEW S \in Closed PROVE IsFiniteSet(S) /\ Cardinality(S) \in Nat
  BY FS_Subset, FS_CardinalityType
<1>2. Sizes \in SUBSET Nat /\ Sizes # {}
  <2>1. W \in Closed
    OBVIOUS
  <2> HIDE DEF Closed
  <2> QED BY <1>1, <2>1
<1>3. PICK n \in Sizes : \A m \in Sizes : n <= m
  <2> HIDE DEF Sizes
  <2> QED BY <1>2, LeastNumber
<1>4. PICK S \in Closed : Cardinality(S) = n
  <2> HIDE DEF Closed
  <2> QED BY <1>3
<1> DEFINE Awaited == {q \in S : \E p \in S : WaitsFor(p, q)}
<1>5. Awaited \in Closed
  OBVIOUS
<1>6. Cardinality(S) <= Cardinality(Awaited)
  <2> HIDE DEF Closed, Awaited
  <2> QED BY <1>3, <1>4, <1>5
<1>7. Awaited \in SUBSET S
  OBVIOUS
<1>8. Awaited = S
  <2> HIDE DEF Closed, Awaited
  <2>1. Cardinality(Awaited) <= Cardinality(S)
    BY <1>1, <1>7, FS_Subset
  <2> QED BY <1>1, <1>5, <1>6, <1>7, <2>1, FS_Subset
<1>9. Circle(S)
  BY <1>8 DEF Circle
<1> QED BY <1>9

\* Any finite number of runs, waiting for each other's sources in any way:
\* one can go on, or the server finds a circle.
THEOREM NobodyStuckTheorem ==
  ASSUME IsFiniteSet(Runs)
  PROVE  Spec => []NobodyStuck
<1>1. IInv => NobodyStuck
  <2> SUFFICES ASSUME IInv, NEW o \in Runs, phase[o] \in Active, \A r \in Runs : ~Free(r)
               PROVE  \E S \in SUBSET Runs : S # {} /\ Circle(S)
    BY DEF NobodyStuck
  <2> DEFINE W == {r \in Runs : phase[r] \in Active}
  <2>1. ASSUME NEW r \in W PROVE \E q \in W : WaitsFor(r, q)
    <3>1. PICK q \in Runs : WaitsFor(r, q)
      BY DEF Free
    <3>2. phase[q] \in Active
      BY <3>1 DEF WaitsFor, IInv, TypeOK, SessionHolds
    <3> QED BY <3>1, <3>2
  <2>2. W \in SUBSET Runs /\ W # {}
    OBVIOUS
  <2> HIDE DEF W
  <2> QED BY <2>1, <2>2, WaitersFormCircle
<1> QED BY <1>1, StoreInvariance, PTL
=============================================================================
