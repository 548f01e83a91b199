---------------------------- MODULE LiveSociety ----------------------------
(***************************************************************************)
(* How a live run turns a founder's brief into a society: the stages       *)
(* retrieving_evidence, scoring_evidence and building_personas of          *)
(* orchestration/live_founder_brief.py.  Search results are scored,        *)
(* signals are read off the accepted ones, the widener emits a candidate   *)
(* per signal, the live compressor keeps a society of them, and the        *)
(* quality gates decide whether it is persisted at all.                    *)
(*                                                                         *)
(* Each stage goes through one list, todo.  The results come in any order  *)
(* (providers, queries), and so do sources and candidates, which are       *)
(* sorted by hashes.                                                       *)
(***************************************************************************)
EXTENDS Integers, FiniteSets

CONSTANTS
    Results,            \* what the search providers may return
    Url, Text,          \* of a result: its page and its snippet
    Blank,              \* results without a snippet
    Usable,             \* results that match an anchor and claim no fake use
    Found,              \* of a result: the signals in its text
    Roles, Competitors, \* Competitors: the roles competitor_user_*
    Unwieldy,           \* roles whose label is too long for the gates
    MinAccepted, MinSignals, MinCount, Target, MaxCount,
    MaxPerSource, MaxPerObjection,          \* EmissionPolicy
    MaxPerRole, RoleShare, CompetitorShare, \* shares in percent
    MinRoles, RolesDivisor, MinDimensions   \* of the gates

ASSUME CountAssumption ==
    /\ MinCount \in Nat \ {0} /\ Target \in Nat /\ MaxCount \in Nat
    /\ MinCount <= Target /\ Target <= MaxCount
    /\ MaxPerRole \in Nat /\ RoleShare \in 0 .. 100 /\ CompetitorShare \in 0 .. 100
    /\ MaxPerRole * 100 <= RoleShare * MinCount
    /\ MinRoles \in Nat /\ RolesDivisor \in Nat \ {0} /\ MaxPerRole <= RolesDivisor
    /\ MaxPerSource \in Nat /\ MaxPerObjection \in Nat

\* A signal: the role it infers, the excerpt it quotes (as far as it is
\* compared), the dimension of its trait, its objection and its confidence.
ASSUME ResultAssumption ==
    /\ IsFiniteSet(Results) /\ Competitors \subseteq Roles
    /\ \A r \in Results :
           /\ IsFiniteSet(Found[r])
           /\ \A s \in Found[r] : s.role \in Roles

VARIABLES
    step,       \* the loop or check the stages have reached
    todo,       \* what that loop has still to take
    urls, texts,\* seen_url, seen_hash
    accepted,   \* accepted evidence
    candidates, \* pairs of a source and the signal emitted for it
    society     \* chosen

vars == <<step, todo, urls, texts, accepted, candidates, society>>

Steps == {"retrieve", "score", "widen", "compress", "gates", "persist",
          "persisted", "failed"}

Signals == UNION {{r} \X Found[r] : r \in accepted}
Role(c) == c[2].role
Excerpt(c) == c[2].excerpt
IsCompetitor(c) == Role(c) \in Competitors

Init ==
    /\ step = "retrieve" /\ todo = {}
    /\ urls = {} /\ texts = {} /\ accepted = {}
    /\ candidates = {} /\ society = {}

Fail == step' = "failed" /\ UNCHANGED <<todo, urls, texts, accepted, candidates, society>>

-----------------------------------------------------------------------------
\* Any provider may fail or find little.  The escalation adds nothing:
\* _retrieve_firecrawl starts an event loop inside the one the stage runs
\* in, which raises, and the error is only noted.
Retrieve ==
    /\ step = "retrieve"
    /\ \E got \in SUBSET Results \ {{}} : todo' = got
    /\ step' = "score"
    /\ UNCHANGED <<urls, texts, accepted, candidates, society>>

RetrieveNothing == step = "retrieve" /\ Fail

\* No snippet, or a page that was seen.
Skip(r) ==
    /\ r \in Blank \/ Url[r] \in urls
    /\ UNCHANGED <<urls, texts, accepted>>

SkipText(r) ==
    /\ r \notin Blank /\ Url[r] \notin urls /\ Text[r] \in texts
    /\ urls' = urls \cup {Url[r]}
    /\ UNCHANGED <<texts, accepted>>

\* Mutant of Judge: the page is not noted.
JudgeForgetful(r) ==
    /\ r \notin Blank /\ Url[r] \notin urls /\ Text[r] \notin texts
    /\ texts' = texts \cup {Text[r]} /\ UNCHANGED urls
    /\ accepted' = IF r \in Usable THEN accepted \cup {r} ELSE accepted

\* Page and snippet are noted before the result is judged.
Judge(r) ==
    /\ r \notin Blank /\ Url[r] \notin urls /\ Text[r] \notin texts
    /\ urls' = urls \cup {Url[r]} /\ texts' = texts \cup {Text[r]}
    /\ accepted' = IF r \in Usable THEN accepted \cup {r} ELSE accepted

Score ==
    /\ step = "score"
    /\ \E r \in todo :
           /\ todo' = todo \ {r}
           /\ Skip(r) \/ SkipText(r) \/ Judge(r)
    /\ UNCHANGED <<step, candidates, society>>

EnoughSignals == Cardinality(accepted) >= MinAccepted /\ Cardinality(Signals) >= MinSignals

Extract ==
    /\ step = "score" /\ todo = {} /\ EnoughSignals
    /\ step' = "widen" /\ todo' = accepted
    /\ UNCHANGED <<urls, texts, accepted, candidates, society>>

TooWeak == step = "score" /\ todo = {} /\ ~EnoughSignals /\ Fail

-----------------------------------------------------------------------------
(* The widener takes the signals of a source in the order of their          *)
(* confidence, and refuses one for what it has emitted before.              *)

SameObjection(s, e) == {o \in e : o.role = s.role /\ o.objection = s.objection}

Refused(s, e) ==
    \/ Cardinality(e) >= MaxPerSource
    \/ \E o \in e : o.role = s.role /\ o.excerpt = s.excerpt
    \/ Cardinality(SameObjection(s, e)) >= MaxPerObjection

\* Some order of equally sure signals emits e: what is in e was never refused
\* and what is left out was refused for what is as sure.
Emissions(r) ==
    {e \in SUBSET Found[r] :
        /\ \A s \in e : ~Refused(s, e \ {s})
        /\ \A s \in Found[r] \ e : Refused(s, {o \in e : o.sure \/ ~s.sure})}

Widen ==
    /\ step = "widen"
    /\ \E r \in todo :
           /\ todo' = todo \ {r}
           /\ \E e \in Emissions(r) : candidates' = candidates \cup ({r} \X e)
    /\ UNCHANGED <<step, urls, texts, accepted, society>>

EnoughCandidates == Cardinality(candidates) >= MinCount

BeginCompress ==
    /\ step = "widen" /\ todo = {} /\ EnoughCandidates
    /\ step' = "compress" /\ todo' = candidates
    /\ UNCHANGED <<urls, texts, accepted, candidates, society>>

TooFewCandidates == step = "widen" /\ todo = {} /\ ~EnoughCandidates /\ Fail

-----------------------------------------------------------------------------
(* _live_compress_simple: one pass over the candidates.                     *)

OfRole(role) == {c \in society : Role(c) = role}
CompetitorUsers == {c \in society : IsCompetitor(c)}

AtMost(a, b) == IF a <= b THEN a ELSE b
AtLeastOne(a) == IF a < 1 THEN 1 ELSE a
RoleMax == AtMost(MaxPerRole, AtLeastOne((Target * RoleShare) \div 100))

\* Mutant of ShareAllows: the share before the admission.
ShareBefore ==
    100 * Cardinality(CompetitorUsers) <= CompetitorShare * (Cardinality(society) + 1)

ShareAllows ==
    100 * (Cardinality(CompetitorUsers) + 1) <= CompetitorShare * (Cardinality(society) + 1)

Admissible(c) ==
    /\ Cardinality(OfRole(Role(c))) < RoleMax
    /\ IsCompetitor(c) => ShareAllows
    /\ \A d \in society : Excerpt(d) # Excerpt(c)

\* Mutant of InTurn: the candidates in the order of their quality alone.
AnyTurn(c) == TRUE

\* The users of competitors come after all others.
InTurn(c) == IsCompetitor(c) => \A d \in todo : IsCompetitor(d)

Admit ==
    /\ step = "compress" /\ Cardinality(society) < Target
    /\ \E c \in todo :
           /\ InTurn(c) /\ Admissible(c)
           /\ todo' = todo \ {c} /\ society' = society \cup {c}
    /\ UNCHANGED <<step, urls, texts, accepted, candidates>>

Refuse ==
    /\ step = "compress" /\ Cardinality(society) < Target
    /\ \E c \in todo :
           /\ InTurn(c) /\ ~Admissible(c)
           /\ todo' = todo \ {c}
    /\ UNCHANGED <<step, urls, texts, accepted, candidates, society>>

Compressed == step = "compress" /\ (todo = {} \/ Cardinality(society) = Target)
EnoughPersonas == Cardinality(society) >= MinCount

EndCompress ==
    /\ Compressed /\ EnoughPersonas
    /\ step' = "gates" /\ todo' = {}
    /\ UNCHANGED <<urls, texts, accepted, candidates, society>>

TooFewPersonas == Compressed /\ ~EnoughPersonas /\ Fail

-----------------------------------------------------------------------------
(* evaluate_persona_quality_gates.                                          *)

CountInRange == Cardinality(society) >= MinCount /\ Cardinality(society) <= MaxCount

RoleConcentrationOk ==
    \A role \in Roles : 100 * Cardinality(OfRole(role)) <= RoleShare * Cardinality(society)

DistinctRolesOk ==
    Cardinality({Role(c) : c \in society})
        >= AtMost(MinRoles, AtLeastOne(Cardinality(society) \div RolesDivisor))

CompetitorShareOk ==
    100 * Cardinality(CompetitorUsers) <= CompetitorShare * Cardinality(society)

NoDuplicates ==
    \A c, d \in society : c # d => <<Role(c), Excerpt(c)>> # <<Role(d), Excerpt(d)>>

DimensionsOk == Cardinality({c[2].dim : c \in society}) >= MinDimensions
RoleFormatOk == \A c \in society : Role(c) \notin Unwieldy

AllGatesPassed ==
    /\ CountInRange /\ RoleConcentrationOk /\ DistinctRolesOk
    /\ CompetitorShareOk /\ NoDuplicates /\ DimensionsOk /\ RoleFormatOk

Gates ==
    /\ step = "gates" /\ AllGatesPassed
    /\ step' = "persist"
    /\ UNCHANGED <<todo, urls, texts, accepted, candidates, society>>

GatesRefuse == step = "gates" /\ ~AllGatesPassed /\ Fail

\* One transaction, modelled in SocietyStore.
Persist ==
    /\ step = "persist" /\ step' = "persisted"
    /\ UNCHANGED <<todo, urls, texts, accepted, candidates, society>>

PersistFails == step = "persist" /\ Fail

Next ==
    \/ Retrieve \/ RetrieveNothing \/ Score \/ Extract \/ TooWeak
    \/ Widen \/ BeginCompress \/ TooFewCandidates
    \/ Admit \/ Refuse \/ EndCompress \/ TooFewPersonas
    \/ Gates \/ GatesRefuse \/ Persist \/ PersistFails

Spec == Init /\ [][Next]_vars

-----------------------------------------------------------------------------
(* Properties.                                                              *)

Settled == {"gates", "persist", "persisted"}

\* The compressor is to match the downstream gate "regardless of underfill"
\* (its docstring): above the floor, what it keeps fails no gate on size,
\* roles, competitors or duplicates, though each counts in its own way.
GatesAgree ==
    step = "gates" =>
        /\ CountInRange /\ RoleConcentrationOk /\ DistinctRolesOk
        /\ CompetitorShareOk /\ NoDuplicates

\* The pass never looks back, and need not: a society short of its target has
\* left out only candidates that it still could not admit.
NothingWasted ==
    step \in Settled =>
        \/ Cardinality(society) = Target
        \/ \A c \in candidates \ society : ~Admissible(c)

\* However often providers return a page, it speaks through no more than
\* MaxPerSource personas, and all of them quote one usable snippet of it.
PageSpeaksOnce ==
    \A c \in society :
        /\ c[1] \in Usable
        /\ LET page == {d \in society : Url[d[1]] = Url[c[1]]}
           IN  /\ \A d \in page : d[1] = c[1]
               /\ Cardinality(page) <= MaxPerSource

-----------------------------------------------------------------------------
(* The inductive invariant of LiveSocietyProofs.                            *)

TypeOK ==
    /\ step \in Steps
    /\ accepted \subseteq Results
    /\ candidates \subseteq Signals
    /\ society \subseteq candidates
    /\ step = "score" => todo \subseteq Results
    /\ step = "widen" => todo \subseteq accepted
    /\ step = "compress" => todo \subseteq candidates \ society

\* A page or a text is accepted once, and what is accepted was noted.
AcceptedOnce ==
    /\ accepted \subseteq Usable
    /\ \A r \in accepted : Url[r] \in urls
    /\ \A r, q \in accepted : Url[r] = Url[q] => r = q

OfSource(r) == {c \in candidates : c[1] = r}

\* The widener's limit, and the sources it has yet to come to.
EmittedFew ==
    /\ IsFiniteSet(candidates)
    /\ \A r \in Results : Cardinality(OfSource(r)) <= MaxPerSource
    /\ step = "widen" => \A c \in candidates : c[1] \notin todo
    /\ step \in {"retrieve", "score"} => candidates = {}
    /\ step \in {"retrieve", "score", "widen"} => society = {}

\* The compressor's limits hold at every admission, not only at the end.
Balanced ==
    /\ Cardinality(society) <= Target
    /\ \A role \in Roles : Cardinality(OfRole(role)) <= RoleMax
    /\ CompetitorShareOk
    /\ \A c, d \in society : c # d => Excerpt(c) # Excerpt(d)
    /\ step \in Settled => EnoughPersonas

\* Whom the pass has left out stays out, and once it has come to the
\* competitors nobody else is left.
LeftOut ==
    step = "compress" =>
        \A c \in candidates \ (society \cup todo) : ~Admissible(c) /\ InTurn(c)

IInv == TypeOK /\ AcceptedOnce /\ EmittedFew /\ Balanced /\ LeftOut /\ NothingWasted
=============================================================================
