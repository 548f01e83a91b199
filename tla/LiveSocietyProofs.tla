------------------------- MODULE LiveSocietyProofs -------------------------
(* Proofs about LiveSociety: whatever the providers return and the texts    *)
(* say, for any limits that satisfy CountAssumption.                        *)
EXTENDS LiveSociety, FiniteSetTheorems, TLAPS

----------------------------------------------------------------------------
(* Lemmas about the operators *)

LEMMA SignalParts ==
  ASSUME TypeOK, NEW c \in Signals
  PROVE  c[1] \in accepted /\ c[1] \in Results /\ c[2] \in Found[c[1]] /\ Role(c) \in Roles
<1>1. PICK r \in accepted : c \in {r} \X Found[r]
  BY DEF Signals
<1>2. c[1] = r /\ c[2] \in Found[r] /\ r \in Results
  BY <1>1 DEF TypeOK
<1> QED
  BY <1>1, <1>2, ResultAssumption DEF Role

LEMMA RoleMaxBound == RoleMax \in Nat /\ RoleMax <= MaxPerRole
<1>1. Target * RoleShare \in Int
  BY CountAssumption
<1>2. (Target * RoleShare) \div 100 \in Int
  BY <1>1
<1>3. AtLeastOne((Target * RoleShare) \div 100) \in Nat
  BY <1>2 DEF AtLeastOne
<1> QED
  BY <1>3, CountAssumption DEF RoleMax, AtMost

LEMMA FiniteParts ==
  ASSUME TypeOK, EmittedFew
  PROVE  /\ IsFiniteSet(society) /\ Cardinality(society) \in Nat
         /\ IsFiniteSet(CompetitorUsers) /\ Cardinality(CompetitorUsers) \in Nat
         /\ Cardinality(CompetitorUsers) <= Cardinality(society)
         /\ \A role : IsFiniteSet(OfRole(role)) /\ Cardinality(OfRole(role)) \in Nat
         /\ \A r : IsFiniteSet(OfSource(r)) /\ Cardinality(OfSource(r)) \in Nat
<1>1. IsFiniteSet(society)
  BY FS_Subset DEF TypeOK, EmittedFew
<1>2. CompetitorUsers \in SUBSET society
  BY DEF CompetitorUsers
<1>3. \A role : OfRole(role) \in SUBSET society
  BY DEF OfRole
<1>4. \A r : OfSource(r) \in SUBSET candidates
  BY DEF OfSource
<1>5. IsFiniteSet(candidates)
  BY DEF EmittedFew
<1>6. ASSUME NEW role PROVE IsFiniteSet(OfRole(role)) /\ Cardinality(OfRole(role)) \in Nat
  BY <1>1, <1>3, FS_Subset, FS_CardinalityType
<1>7. ASSUME NEW r PROVE IsFiniteSet(OfSource(r)) /\ Cardinality(OfSource(r)) \in Nat
  BY <1>4, <1>5, FS_Subset, FS_CardinalityType
<1> QED
  BY <1>1, <1>2, <1>6, <1>7, FS_Subset, FS_CardinalityType

\* One more persona counts once in the society, in its role and among the
\* users of competitors if it is one of them.
LEMMA AdmissionCounts ==
  ASSUME TypeOK, EmittedFew, NEW c, c \in candidates \ society,
         society' = society \cup {c}
  PROVE  /\ Cardinality(society') = Cardinality(society) + 1
         /\ \A role : Cardinality(OfRole(role)') =
              IF Role(c) = role THEN Cardinality(OfRole(role)) + 1 ELSE Cardinality(OfRole(role))
         /\ Cardinality(CompetitorUsers') =
              IF IsCompetitor(c) THEN Cardinality(CompetitorUsers) + 1
                                 ELSE Cardinality(CompetitorUsers)
<1>1. Cardinality(society') = Cardinality(society) + 1
  BY FiniteParts, FS_AddElement
<1>2. ASSUME NEW role
      PROVE  Cardinality(OfRole(role)') =
               IF Role(c) = role THEN Cardinality(OfRole(role)) + 1 ELSE Cardinality(OfRole(role))
  <2>1. CASE Role(c) = role
    <3>1. OfRole(role)' = OfRole(role) \cup {c} /\ c \notin OfRole(role)
      BY <2>1 DEF OfRole, Role
    <3> QED BY <2>1, <3>1, FiniteParts, FS_AddElement
  <2>2. CASE Role(c) # role
    <3>1. OfRole(role)' = OfRole(role)
      BY <2>2 DEF OfRole, Role
    <3> QED BY <2>2, <3>1
  <2> QED BY <2>1, <2>2
<1>3. Cardinality(CompetitorUsers') =
        IF IsCompetitor(c) THEN Cardinality(CompetitorUsers) + 1 ELSE Cardinality(CompetitorUsers)
  <2>1. CASE IsCompetitor(c)
    <3>1. CompetitorUsers' = CompetitorUsers \cup {c} /\ c \notin CompetitorUsers
      BY <2>1 DEF CompetitorUsers, IsCompetitor, Role
    <3> QED BY <2>1, <3>1, FiniteParts, FS_AddElement
  <2>2. CASE ~IsCompetitor(c)
    <3>1. CompetitorUsers' = CompetitorUsers
      BY <2>2 DEF CompetitorUsers, IsCompetitor, Role
    <3> QED BY <2>2, <3>1
  <2> QED BY <2>1, <2>2
<1> QED BY <1>1, <1>2, <1>3

\* What the widener emits for a source is no more than its policy allows.
LEMMA EmissionBound ==
  ASSUME NEW r \in Results, NEW e \in Emissions(r)
  PROVE  e \subseteq Found[r] /\ IsFiniteSet(e) /\ Cardinality(e) <= MaxPerSource
<1>1. e \subseteq Found[r] /\ IsFiniteSet(e)
  BY ResultAssumption, FS_Subset DEF Emissions
<1>2. CASE e = {}
  BY <1>1, <1>2, FS_EmptySet, CountAssumption
<1>3. CASE e # {}
  <2>1. PICK s \in e : TRUE
    BY <1>3
  <2>2. ~(Cardinality(e \ {s}) >= MaxPerSource)
    BY <2>1 DEF Emissions, Refused
  <2>3. Cardinality(e \ {s}) = Cardinality(e) - 1 /\ Cardinality(e) \in Nat
    BY <1>1, FS_RemoveElement, FS_CardinalityType
  <2> QED BY <1>1, <2>2, <2>3, CountAssumption
<1> QED BY <1>2, <1>3

----------------------------------------------------------------------------
(* The invariant *)

LEMMA InitInv == Init => IInv
<1> SUFFICES ASSUME Init PROVE IInv
  OBVIOUS
<1>1. TypeOK
  BY DEF Init, TypeOK, Steps
<1>2. AcceptedOnce
  BY DEF Init, AcceptedOnce
<1>3. EmittedFew
  <2>1. \A r : OfSource(r) = {}
    BY DEF Init, OfSource
  <2>2. IsFiniteSet(candidates) /\ \A r \in Results : Cardinality(OfSource(r)) = 0
    BY <2>1, FS_EmptySet DEF Init
  <2> QED BY <2>2, CountAssumption DEF Init, EmittedFew
<1>4. Balanced
  <2>1. society = {} /\ CompetitorUsers = {} /\ \A role : OfRole(role) = {}
    BY DEF Init, CompetitorUsers, OfRole
  <2> QED
    BY <2>1, FS_EmptySet, RoleMaxBound, CountAssumption
    DEF Init, Balanced, CompetitorShareOk, Settled
<1> QED
  BY <1>1, <1>2, <1>3, <1>4 DEF Init, IInv, LeftOut, NothingWasted, Settled

\* The parts that speak of candidates and society alone.
LEMMA SameSociety ==
  ASSUME IInv, UNCHANGED <<candidates, society>>, accepted \subseteq accepted'
  PROVE  /\ candidates' \subseteq Signals' /\ society' \subseteq candidates'
         /\ \A r \in Results : Cardinality(OfSource(r)') <= MaxPerSource
         /\ IsFiniteSet(candidates')
         /\ Cardinality(society') <= Target
         /\ \A role \in Roles : Cardinality(OfRole(role)') <= RoleMax'
         /\ CompetitorShareOk'
         /\ \A c, d \in society' : c # d => Excerpt(c)' # Excerpt(d)'
         /\ EnoughPersonas' = EnoughPersonas
         /\ \A c : Admissible(c)' = Admissible(c)
<1>1. Signals \subseteq Signals'
  BY DEF Signals
<1>2. \A r : OfSource(r)' = OfSource(r)
  BY DEF OfSource
<1>3. \A role : OfRole(role)' = OfRole(role)
  BY DEF OfRole, Role
<1>4. CompetitorUsers' = CompetitorUsers
  BY DEF CompetitorUsers, IsCompetitor, Role
<1>5. \A c : Admissible(c)' = Admissible(c)
  BY <1>3, <1>4 DEF Admissible, ShareAllows, IsCompetitor, Role, Excerpt, RoleMax, AtMost, AtLeastOne
<1> QED
  BY <1>1, <1>2, <1>3, <1>4, <1>5
  DEF IInv, TypeOK, EmittedFew, Balanced, CompetitorShareOk, EnoughPersonas, Excerpt,
      RoleMax, AtMost, AtLeastOne

\* A step that only moves on, to one of the stages after the loops or out.
LEMMA MoveOn ==
  ASSUME IInv, UNCHANGED <<urls, texts, accepted, candidates, society>>,
         step' \in {"persist", "persisted", "failed"},
         step' # "failed" => step \in Settled
  PROVE  IInv'
<1>1. TypeOK'
  BY SameSociety DEF IInv, TypeOK, Steps
<1>2. AcceptedOnce'
  BY DEF IInv, AcceptedOnce
<1>3. EmittedFew'
  BY SameSociety DEF EmittedFew
<1>4. Balanced'
  BY SameSociety DEF IInv, Balanced, Settled
<1>5. LeftOut'
  BY DEF LeftOut
<1>6. NothingWasted'
  BY SameSociety DEF IInv, NothingWasted, Settled
<1> QED
  BY <1>1, <1>2, <1>3, <1>4, <1>5, <1>6 DEF IInv

LEMMA ScoreInv == IInv /\ Score => IInv'
<1> SUFFICES ASSUME IInv, Score PROVE IInv'
  OBVIOUS
<1> USE DEF IInv
<1>1. PICK r \in todo : todo' = todo \ {r} /\ (Skip(r) \/ SkipText(r) \/ Judge(r))
  BY DEF Score
<1>2. step = "score" /\ step' = "score" /\ UNCHANGED <<candidates, society>> /\ r \in Results
  BY DEF Score, TypeOK
<1>3. accepted \subseteq accepted' /\ urls \subseteq urls'
  BY <1>1 DEF Skip, SkipText, Judge
<1>4. TypeOK'
  BY <1>1, <1>2, <1>3, SameSociety DEF TypeOK, Steps, Skip, SkipText, Judge
<1>5. AcceptedOnce'
  <2>1. CASE Skip(r)
    BY <2>1 DEF AcceptedOnce, Skip
  <2>2. CASE SkipText(r)
    BY <2>2 DEF AcceptedOnce, SkipText
  <2>3. CASE Judge(r)
    BY <2>3 DEF AcceptedOnce, Judge
  <2> QED BY <1>1, <2>1, <2>2, <2>3
<1>6. EmittedFew'
  BY <1>2, <1>3, SameSociety DEF EmittedFew
<1>7. Balanced'
  BY <1>2, <1>3, SameSociety DEF Balanced, Settled
<1> QED
  BY <1>2, <1>4, <1>5, <1>6, <1>7 DEF LeftOut, NothingWasted, Settled

LEMMA WidenInv == IInv /\ Widen => IInv'
<1> SUFFICES ASSUME IInv, Widen PROVE IInv'
  OBVIOUS
<1> USE DEF IInv
<1>0. PICK r \in todo :
        /\ todo' = todo \ {r}
        /\ \E e \in Emissions(r) : candidates' = candidates \cup ({r} \X e)
  BY DEF Widen
<1>1. PICK e \in Emissions(r) : candidates' = candidates \cup ({r} \X e)
  BY <1>0
<1>2. /\ step = "widen" /\ step' = "widen" /\ society = {} /\ society' = {}
      /\ UNCHANGED <<urls, texts, accepted>>
      /\ r \in accepted /\ r \in Results
  BY DEF Widen, TypeOK, EmittedFew
<1>3. e \subseteq Found[r] /\ IsFiniteSet(e) /\ Cardinality(e) <= MaxPerSource
  BY <1>1, <1>2, EmissionBound
<1>4. TypeOK'
  <2>1. {r} \X e \subseteq Signals /\ Signals' = Signals
    BY <1>2, <1>3 DEF Signals
  <2> QED BY <1>0, <1>1, <1>2, <2>1 DEF TypeOK, Steps
<1>5. AcceptedOnce'
  BY <1>2 DEF AcceptedOnce
<1>6. EmittedFew'
  <2>1. IsFiniteSet({r} \X e) /\ Cardinality({r} \X e) = Cardinality(e)
    <3>1. IsFiniteSet({r}) /\ Cardinality({r}) = 1
      BY FS_Singleton
    <3>2. Cardinality(e) \in Nat
      BY <1>3, FS_CardinalityType
    <3>3. IsFiniteSet({r} \X e) /\ Cardinality({r} \X e) = 1 * Cardinality(e)
      BY <1>3, <3>1, FS_Product
    <3> QED BY <3>2, <3>3
  <2>2. IsFiniteSet(candidates')
    BY <1>1, <2>1, FS_Union DEF EmittedFew
  <2>3. OfSource(r)' = {r} \X e
    BY <1>1, <1>2 DEF OfSource, EmittedFew
  <2>4. \A q : q # r => OfSource(q)' = OfSource(q)
    BY <1>1 DEF OfSource
  <2>5. \A q \in Results : Cardinality(OfSource(q)') <= MaxPerSource
    BY <1>3, <2>1, <2>3, <2>4 DEF EmittedFew
  <2> QED BY <1>0, <1>1, <1>2, <2>2, <2>5 DEF EmittedFew
<1>7. Balanced'
  <2>1. CompetitorUsers' = CompetitorUsers /\ \A role : OfRole(role)' = OfRole(role)
    BY <1>2 DEF CompetitorUsers, OfRole
  <2> QED BY <1>2, <2>1 DEF Balanced, CompetitorShareOk, Settled, RoleMax, AtMost, AtLeastOne
<1> QED
  BY <1>2, <1>4, <1>5, <1>6, <1>7 DEF LeftOut, NothingWasted, Settled

LEMMA AdmitInv == IInv /\ Admit => IInv'
<1> SUFFICES ASSUME IInv, Admit PROVE IInv'
  OBVIOUS
<1> USE DEF IInv
<1>1. PICK c \in todo : /\ InTurn(c) /\ Admissible(c)
                      /\ todo' = todo \ {c} /\ society' = society \cup {c}
  BY DEF Admit
<1>2. /\ step = "compress" /\ step' = "compress" /\ Cardinality(society) < Target
      /\ UNCHANGED <<urls, texts, accepted, candidates>>
      /\ c \in candidates \ society /\ c \in Signals
  BY DEF Admit, TypeOK
<1>3. Role(c) \in Roles
  BY <1>2, SignalParts
<1>4. TypeOK'
  <2>1. Signals' = Signals
    BY <1>2 DEF Signals
  <2> QED BY <1>1, <1>2, <2>1 DEF TypeOK, Steps
<1>5. AcceptedOnce'
  BY <1>2 DEF AcceptedOnce
<1>6. EmittedFew'
  <2>1. \A r : OfSource(r)' = OfSource(r)
    BY <1>2 DEF OfSource
  <2> QED BY <1>2, <2>1 DEF EmittedFew
<1>7. Balanced'
  <2>1. Cardinality(society') <= Target
    <3>1. Cardinality(society') = Cardinality(society) + 1 /\ Cardinality(society) \in Nat
      BY <1>1, <1>2, AdmissionCounts, FiniteParts
    <3> QED BY <1>2, <3>1, CountAssumption
  <2>2. \A role \in Roles : Cardinality(OfRole(role)') <= RoleMax'
    <3>1. Cardinality(OfRole(Role(c))) < RoleMax
      BY <1>1 DEF Admissible
    <3>2. RoleMax' = RoleMax
      BY DEF RoleMax, AtMost, AtLeastOne
    <3> QED BY <1>1, <1>2, <3>1, <3>2, AdmissionCounts, FiniteParts, RoleMaxBound DEF Balanced
  <2>3. CompetitorShareOk'
    <3>1. CASE IsCompetitor(c)
      <4>1. ShareAllows
        BY <1>1, <3>1 DEF Admissible
      <4> QED BY <1>1, <1>2, <3>1, <4>1, AdmissionCounts DEF ShareAllows, CompetitorShareOk
    <3>2. CASE ~IsCompetitor(c)
      <4>1. Cardinality(CompetitorUsers') = Cardinality(CompetitorUsers)
        BY <1>1, <1>2, <3>2, AdmissionCounts
      <4>2. Cardinality(society') = Cardinality(society) + 1 /\ Cardinality(society) \in Nat
        BY <1>1, <1>2, AdmissionCounts, FiniteParts
      <4>3. 100 * Cardinality(CompetitorUsers) <= CompetitorShare * Cardinality(society)
        BY DEF Balanced, CompetitorShareOk
      <4>4. CompetitorShare * Cardinality(society) <= CompetitorShare * (Cardinality(society) + 1)
        BY <4>2, CountAssumption
      <4> QED BY <4>1, <4>2, <4>3, <4>4, FiniteParts, CountAssumption DEF CompetitorShareOk
    <3> QED BY <3>1, <3>2
  <2>4. \A b, d \in society' : b # d => Excerpt(b)' # Excerpt(d)'
    BY <1>1 DEF Balanced, Admissible, Excerpt
  <2> QED BY <1>2, <2>1, <2>2, <2>3, <2>4 DEF Balanced, Settled
<1>8. LeftOut'
  <2> SUFFICES ASSUME NEW d \in candidates', d \notin society', d \notin todo'
               PROVE  ~Admissible(d)' /\ InTurn(d)'
    BY DEF LeftOut
  <2>1. d \in candidates \ (society \cup todo)
    BY <1>1, <1>2
  <2>2. ~Admissible(d) /\ InTurn(d)
    BY <1>2, <2>1 DEF LeftOut
  <2>3. InTurn(d)'
    BY <1>1, <2>2 DEF InTurn, IsCompetitor, Role
  <2>4. CASE ~(Cardinality(OfRole(Role(d))) < RoleMax)
    <3>1. Cardinality(OfRole(Role(d))') >= Cardinality(OfRole(Role(d)))
      BY <1>1, <1>2, AdmissionCounts, FiniteParts
    <3>2. RoleMax' = RoleMax /\ Cardinality(OfRole(Role(d)))' = Cardinality(OfRole(Role(d))')
      BY DEF RoleMax, AtMost, AtLeastOne
    <3>3. Cardinality(OfRole(Role(d))') \in Nat
      BY <1>1, <1>2, AdmissionCounts, FiniteParts
    <3>4. ~(Cardinality(OfRole(Role(d))') < RoleMax')
      BY <2>4, <3>1, <3>2, <3>3, FiniteParts, RoleMaxBound
    <3> QED BY <2>3, <3>4 DEF Admissible, Role
  <2>5. CASE IsCompetitor(d) /\ ~ShareAllows
    <3>1. IsCompetitor(c)
      BY <2>2, <2>5 DEF InTurn
    <3> QED BY <1>1, <2>5, <3>1 DEF Admissible
  <2>6. CASE \E b \in society : Excerpt(b) = Excerpt(d)
    BY <1>1, <2>3, <2>6 DEF Admissible, Excerpt
  <2> QED BY <2>2, <2>4, <2>5, <2>6 DEF Admissible
<1> QED
  BY <1>2, <1>4, <1>5, <1>6, <1>7, <1>8 DEF NothingWasted, Settled

LEMMA RefuseInv == IInv /\ Refuse => IInv'
<1> SUFFICES ASSUME IInv, Refuse PROVE IInv'
  OBVIOUS
<1> USE DEF IInv
<1>1. PICK c \in todo : InTurn(c) /\ ~Admissible(c) /\ todo' = todo \ {c}
  BY DEF Refuse
<1>2. /\ step = "compress" /\ step' = "compress"
      /\ UNCHANGED <<urls, texts, accepted, candidates, society>>
  BY DEF Refuse
<1>3. TypeOK'
  BY <1>1, <1>2, SameSociety DEF TypeOK, Steps
<1>4. AcceptedOnce'
  BY <1>2 DEF AcceptedOnce
<1>5. EmittedFew'
  BY <1>2, SameSociety DEF EmittedFew
<1>6. Balanced'
  BY <1>2, SameSociety DEF Balanced, Settled
<1>7. LeftOut'
  BY <1>1, <1>2, SameSociety DEF LeftOut, InTurn, IsCompetitor, Role
<1> QED
  BY <1>2, <1>3, <1>4, <1>5, <1>6, <1>7 DEF NothingWasted, Settled

\* The stages between the loops.
LEMMA BetweenInv ==
  IInv /\ (Retrieve \/ Extract \/ BeginCompress \/ EndCompress) => IInv'
<1> SUFFICES ASSUME IInv, Retrieve \/ Extract \/ BeginCompress \/ EndCompress PROVE IInv'
  OBVIOUS
<1> USE DEF IInv
<1>1. UNCHANGED <<urls, texts, accepted, candidates, society>>
  BY DEF Retrieve, Extract, BeginCompress, EndCompress
<1>2. AcceptedOnce'
  BY <1>1 DEF AcceptedOnce
<1>3. CASE Retrieve
  <2>1. step = "retrieve" /\ step' = "score" /\ todo' \subseteq Results
    BY <1>3 DEF Retrieve
  <2> QED
    BY <1>1, <1>2, <2>1, SameSociety
    DEF TypeOK, Steps, EmittedFew, Balanced, Settled, LeftOut, NothingWasted
<1>4. CASE Extract
  <2>1. step = "score" /\ step' = "widen" /\ todo' = accepted
    BY <1>4 DEF Extract
  <2> QED
    BY <1>1, <1>2, <2>1, SameSociety
    DEF TypeOK, Steps, EmittedFew, Balanced, Settled, LeftOut, NothingWasted
<1>5. CASE BeginCompress
  <2>1. step = "widen" /\ step' = "compress" /\ todo' = candidates /\ society = {}
    BY <1>5 DEF BeginCompress, EmittedFew
  <2> QED
    BY <1>1, <1>2, <2>1, SameSociety
    DEF TypeOK, Steps, EmittedFew, Balanced, Settled, LeftOut, NothingWasted
<1>6. CASE EndCompress
  <2>1. step = "compress" /\ step' = "gates" /\ EnoughPersonas
    BY <1>6 DEF EndCompress, Compressed
  <2>2. todo = {} \/ Cardinality(society) = Target
    BY <1>6 DEF EndCompress, Compressed
  <2>3. NothingWasted'
    BY <1>1, <2>1, <2>2, SameSociety DEF NothingWasted, LeftOut
  <2> QED
    BY <1>1, <1>2, <2>1, <2>3, SameSociety
    DEF TypeOK, Steps, EmittedFew, Balanced, Settled, LeftOut
<1> QED BY <1>3, <1>4, <1>5, <1>6

LEMMA NextInv == IInv /\ [Next]_vars => IInv'
<1> SUFFICES ASSUME IInv, [Next]_vars PROVE IInv'
  OBVIOUS
<1>1. CASE Fail
  BY <1>1, MoveOn DEF Fail
<1>2. CASE Gates \/ Persist
  BY <1>2, MoveOn DEF Gates, Persist, Settled
<1>3. CASE UNCHANGED vars
  <2>1. UNCHANGED <<step, todo, urls, texts, accepted, candidates, society>>
    BY <1>3 DEF vars
  <2>2. TypeOK' /\ AcceptedOnce' /\ EmittedFew' /\ Balanced'
    BY <2>1, SameSociety DEF IInv, TypeOK, AcceptedOnce, EmittedFew, Balanced
  <2>3. LeftOut' /\ NothingWasted'
    BY <2>1, SameSociety DEF IInv, LeftOut, NothingWasted, InTurn, IsCompetitor, Role
  <2> QED BY <2>2, <2>3 DEF IInv
<1> QED
  BY <1>1, <1>2, <1>3, ScoreInv, WidenInv, AdmitInv, RefuseInv, BetweenInv
  DEF Next, RetrieveNothing, TooWeak, TooFewCandidates, TooFewPersonas, GatesRefuse, PersistFails

----------------------------------------------------------------------------
(* The theorems *)

\* The types, the limits of the widener and the compressor, and what the one
\* pass has left out, in every reachable state.
THEOREM Invariance == Spec => []IInv
  BY InitInv, NextInv, PTL DEF Spec

\* The single pass over the candidates (_live_compress_simple) leaves nobody
\* out who could still be admitted.
THEOREM NothingWastedTheorem == Spec => []NothingWasted
<1>1. IInv => NothingWasted
  BY DEF IInv
<1> QED BY <1>1, Invariance, PTL

\* A page returned many times, by several providers, speaks through at most
\* MaxPerSource personas, all from one of its snippets.
THEOREM PageSpeaksOnceTheorem == Spec => []PageSpeaksOnce
<1>1. ASSUME IInv PROVE PageSpeaksOnce
  <2> USE <1>1 DEF IInv
  <2> SUFFICES ASSUME NEW c \in society
      PROVE  /\ c[1] \in Usable
             /\ \A d \in {b \in society : Url[b[1]] = Url[c[1]]} : d[1] = c[1]
             /\ Cardinality({b \in society : Url[b[1]] = Url[c[1]]}) <= MaxPerSource
    BY DEF PageSpeaksOnce
  <2> DEFINE page == {b \in society : Url[b[1]] = Url[c[1]]}
  <2>1. \A d \in society : d[1] \in accepted /\ d[1] \in Results
    BY SignalParts DEF TypeOK
  <2>2. c[1] \in Usable /\ \A d \in page : d[1] = c[1]
    BY <2>1 DEF AcceptedOnce
  <2>3. page \in SUBSET OfSource(c[1])
    BY <2>2 DEF OfSource, TypeOK
  <2>4. Cardinality(page) <= Cardinality(OfSource(c[1])) /\ Cardinality(page) \in Nat
    BY <2>3, FiniteParts, FS_Subset, FS_CardinalityType
  <2>5. Cardinality(OfSource(c[1])) <= MaxPerSource
    BY <2>1 DEF EmittedFew
  <2> QED BY <2>2, <2>4, <2>5, FiniteParts, CountAssumption
<1> QED BY <1>1, Invariance, PTL

\* A society cannot be larger than its roles have room for.
LEMMA RolesHold ==
  ASSUME IInv
  PROVE  /\ IsFiniteSet({Role(c) : c \in society})
         /\ Cardinality({Role(c) : c \in society}) \in Nat
         /\ Cardinality(society) <= Cardinality({Role(c) : c \in society}) * MaxPerRole
<1> USE DEF IInv
<1> DEFINE R == {Role(c) : c \in society}
           counting(role) == CHOOSE f : f \in Bijection(1 .. Cardinality(OfRole(role)), OfRole(role))
           index(c) == CHOOSE i \in 1 .. MaxPerRole :
                         /\ i \in 1 .. Cardinality(OfRole(Role(c)))
                         /\ counting(Role(c))[i] = c
           place == [c \in society |-> <<Role(c), index(c)>>]
<1>1. IsFiniteSet(R) /\ Cardinality(R) \in Nat
  <2> DEFINE f == [c \in society |-> Role(c)]
  <2>1. f \in Surjection(society, R)
    BY DEF Surjection
  <2> QED BY <2>1, FiniteParts, FS_Surjection, FS_CardinalityType
<1>2. ASSUME NEW c \in society
      PROVE  index(c) \in 1 .. MaxPerRole /\ counting(Role(c))[index(c)] = c
  <2>1. Role(c) \in Roles
    BY SignalParts DEF TypeOK
  <2>2. Bijection(1 .. Cardinality(OfRole(Role(c))), OfRole(Role(c))) # {}
    BY FiniteParts, FS_CardinalityType DEF ExistsBijection
  <2>3. counting(Role(c)) \in Surjection(1 .. Cardinality(OfRole(Role(c))), OfRole(Role(c)))
    BY <2>2 DEF Bijection
  <2>4. PICK i \in 1 .. Cardinality(OfRole(Role(c))) : counting(Role(c))[i] = c
    BY <2>3 DEF Surjection, OfRole
  <2>5. i \in 1 .. MaxPerRole
    BY <2>1, RoleMaxBound, FiniteParts, CountAssumption DEF Balanced
  <2> QED BY <2>4, <2>5
<1>3. place \in Injection(society, R \X (1 .. MaxPerRole))
  <2>1. place \in [society -> R \X (1 .. MaxPerRole)]
    BY <1>2
  <2>2. ASSUME NEW c \in society, NEW d \in society, place[c] = place[d] PROVE c = d
    <3> HIDE DEF index
    <3>1. place[c] = <<Role(c), index(c)>> /\ place[d] = <<Role(d), index(d)>>
      OBVIOUS
    <3>2. Role(c) = Role(d) /\ index(c) = index(d)
      BY <2>2, <3>1
    <3> HIDE DEF place, counting
    <3> QED BY <1>2, <3>2
  <2> QED BY <2>1, <2>2 DEF Injection, IsInjective
<1>4. IsFiniteSet(1 .. MaxPerRole) /\ Cardinality(1 .. MaxPerRole) = MaxPerRole
  BY FS_Interval, CountAssumption
<1>5. /\ IsFiniteSet(R \X (1 .. MaxPerRole))
      /\ Cardinality(R \X (1 .. MaxPerRole)) = Cardinality(R) * MaxPerRole
  BY <1>1, <1>4, FS_Product
<1> HIDE DEF place
<1>6. Cardinality(society) <= Cardinality(R \X (1 .. MaxPerRole))
  BY <1>3, <1>5, FS_Injection
<1> QED BY <1>1, <1>5, <1>6

\* The compressor's own limits imply the gates on size, roles, competitors and
\* duplicates, for any society at or above the floor.
THEOREM GatesAgreeTheorem == Spec => []GatesAgree
<1>1. ASSUME IInv PROVE GatesAgree
  <2> USE <1>1 DEF IInv
  <2> SUFFICES ASSUME step = "gates"
      PROVE  /\ CountInRange /\ RoleConcentrationOk /\ DistinctRolesOk
             /\ CompetitorShareOk /\ NoDuplicates
    BY DEF GatesAgree
  <2> DEFINE n == Cardinality(society)
             k == Cardinality({Role(c) : c \in society})
  <2>1. n \in Nat /\ n >= MinCount /\ n <= Target
    BY FiniteParts DEF Balanced, Settled, EnoughPersonas
  <2>2. CountInRange
    BY <2>1, CountAssumption DEF CountInRange
  <2>3. RoleConcentrationOk
    <3>1. RoleShare * MinCount <= RoleShare * n
      BY <2>1, CountAssumption
    <3>2. ASSUME NEW role \in Roles
          PROVE  100 * Cardinality(OfRole(role)) <= RoleShare * n
      <4>1. Cardinality(OfRole(role)) <= MaxPerRole /\ Cardinality(OfRole(role)) \in Nat
        BY FiniteParts, RoleMaxBound, CountAssumption DEF Balanced
      <4>2. RoleShare * MinCount \in Int /\ RoleShare * n \in Int
        BY <2>1, CountAssumption
      <4> QED BY <3>1, <4>1, <4>2, CountAssumption
    <3> QED BY <3>2 DEF RoleConcentrationOk
  <2>4. DistinctRolesOk
    <3>1. k \in Nat /\ n <= k * MaxPerRole
      BY RolesHold
    <3> HIDE DEF n, k
    <3>2. k * MaxPerRole <= k * RolesDivisor
      BY <3>1, CountAssumption
    <3>3. k >= 1
      BY <2>1, <3>1, CountAssumption
    <3>4. n <= k * RolesDivisor
      BY <2>1, <3>1, <3>2, CountAssumption
    <3>5. n \div RolesDivisor <= k /\ n \div RolesDivisor \in Nat
      BY <2>1, <3>1, <3>4, CountAssumption
    <3>6. k >= AtMost(MinRoles, AtLeastOne(n \div RolesDivisor))
      BY <3>1, <3>3, <3>5, CountAssumption DEF AtMost, AtLeastOne
    <3> QED BY <3>6 DEF DistinctRolesOk, n, k
  <2>5. CompetitorShareOk
    BY DEF Balanced
  <2>6. NoDuplicates
    BY DEF Balanced, NoDuplicates
  <2> QED BY <2>2, <2>3, <2>4, <2>5, <2>6
<1> QED BY <1>1, Invariance, PTL
=============================================================================
