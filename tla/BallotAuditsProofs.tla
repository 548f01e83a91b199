------------------------- MODULE BallotAuditsProofs -------------------------
(* Proofs about BallotAudits: for any set of ballots and turns, whatever     *)
(* their sentences say, the chain of repairs and classifiers keeps its       *)
(* promises.                                                                 *)
EXTENDS BallotAudits, TLAPS

Judged == {"forbidden", "speech", "done"}

\* Until the calibration a ballot holds only what was written, less its caveats.
FromWritten ==
  step \in {"leak", "calibrate"} =>
    /\ stance = committed
    /\ \A b \in Ballots : text[b] \subseteq written[b] \cup {Placeholder}

\* Who is resistant before the last classifier was so from the start.
ResistantFromStart ==
  \A b \in Ballots : step \notin Judged /\ stance[b] \in Resistant =>
    committed[b] \in Resistant \/ Has(written[b], "resistant")

\* Resistant words that are still there have kept their ballot from RECEPTIVE.
WordsHold ==
  \A b \in Ballots :
    committed[b] \in Resistant /\ Has(text[b], "resistant") => stance[b] \notin Receptive

\* What the later stages will read, against the table.
ContextIs ==
  \A b \in Ballots :
    /\ step \in Judged => ctx.stance[b] = stance[b]
    /\ step = "forbidden" => ctx.text[b] = text[b]
    /\ step \in {"speech", "done"} => text[b] = Reworded(ctx.text[b], {"forbidden"})

SpeechIs ==
  /\ step # "done" => ~speech.read
  /\ step = "speech" /\ speech.pass => \A r \in Turns : ~Has(text[r], "aware")

\* The flaws for whose sake a strip is still to drop sentences.
Pending == IF step \in {"leak", "calibrate", "price"} THEN {"caveat", "price", "aware"}
           ELSE {"aware"}

\* What keeps a persona from being silenced: no text goes blank, no turn is
\* marked, and a sentence that no strip is after leaves one behind.
WordsLeft ==
  \A r \in Rows :
    /\ r \in Turns => Marker \notin text[r]
    /\ Words(written[r]) # {} => text[r] # {}
    /\ (\E s \in Words(written[r]) : Says[s] \cap {"caveat", "price", "aware"} = {})
         => \E s \in Words(text[r]) : Says[s] \cap Pending = {}

IInv ==
  /\ TypeOK
  /\ WordsLeft
  /\ CaveatsDecideNothing
  /\ FromWritten
  /\ ResistantFromStart
  /\ WordsHold
  /\ ContextIs
  /\ GatedOnlyFromResistant
  /\ ResistanceHeld
  /\ SpeechIs
  /\ SpeechVerdictTrue

----------------------------------------------------------------------------
(* Lemmas about the operators *)

LEMMA CalibratedType ==
  ASSUME NEW st \in Stances, NEW t
  PROVE  /\ Calibrated(st, t) \in Stances
         /\ Calibrated(st, t) \in Receptive /\ st \in Resistant => ~Has(t, "resistant")
         /\ Calibrated(st, t) \in Resistant => st \in Resistant \/ Has(t, "resistant")
  BY DEF Calibrated, Stances, Receptive, Uncertain, Resistant

LEMMA StrictType ==
  ASSUME NEW st \in Stances, NEW t
  PROVE  /\ Strict(st, t) \in Stances
         /\ Strict(st, t) \in Receptive => st \in Receptive \/ ~Has(t, "resistant")
         /\ Strict(st, t) \in Resistant => st \in Resistant
  BY DEF Strict, Stances, Receptive, Uncertain, Resistant

LEMMA StrictV3Type ==
  ASSUME NEW st \in Stances, NEW t
  PROVE  /\ StrictV3(st, t) \in Stances
         /\ StrictV3(st, t) \in Receptive => st \in Receptive \/ ~Has(t, "resistant")
         /\ /\ StrictV3(st, t) \in Receptive
            /\ Has(t, "gate") \/ Has(t, "killer")
            => st \in Resistant
  BY DEF StrictV3, Stances, Receptive, Uncertain, Resistant

\* No repair makes a text voice what none of its sentences voiced.
LEMMA RepairsAddNothing ==
  ASSUME NEW t \in SUBSET Sentences, NEW flaws,
         NEW signal \in {"caveat", "aware", "resistant"}
  PROVE  /\ Dropped(t, flaws) \in SUBSET Sentences
         /\ Reworded(t, flaws) \in SUBSET Sentences
         /\ Uncaveated(t) \in SUBSET Sentences
         /\ Has(Dropped(t, flaws), signal) => Has(t, signal)
         /\ Has(Reworded(t, flaws), signal) => Has(t, signal)
         /\ Has(Uncaveated(t), signal) => Has(t, signal)
         /\ ~Has(Uncaveated(t), "caveat")
<1>1. Dropped(t, flaws) \subseteq t
  BY DEF Dropped
<1>2. \A s \in Reworded(t, flaws) : s \in t \/ \E u \in t : s = Rewording[u]
  BY DEF Reworded, Flawed
<1>3. \A u \in Sentences : Rewording[u] \in Sentences /\ signal \notin Says[Rewording[u]]
  BY RepairAssumption
<1>4. \A s \in Uncaveated(t) : s \in t \/ s = Placeholder
  BY DEF Uncaveated
<1>5. ~Has(Uncaveated(t), "caveat")
  BY RepairAssumption DEF Uncaveated, Flawed, Has
<1>6. Has(Reworded(t, flaws), signal) => Has(t, signal)
  BY <1>2, <1>3 DEF Has
<1>7. Has(Uncaveated(t), signal) => Has(t, signal)
  BY <1>4, RepairAssumption DEF Has
<1>8. Has(Dropped(t, flaws), signal) => Has(t, signal)
  BY <1>1 DEF Has
<1> QED
  BY <1>1, <1>2, <1>3, <1>4, <1>5, <1>6, <1>7, <1>8, RepairAssumption

\* A marker says nothing, so that no classifier and no repair sees it.
LEMMA MarksSayNothing ==
  ASSUME TypeOK, MarkMoved
  PROVE  /\ text' \in [Rows -> SUBSET Sentences]
         /\ \A r \in Rows : text[r] \subseteq text'[r]
         /\ \A r \in Rows : r \in Turns => text'[r] = text[r]
         /\ \A r \in Rows, signal \in Signals : Has(text'[r], signal) <=> Has(text[r], signal)
<1>1. PICK marked \in SUBSET Ballots :
        text' = [r \in Rows |-> IF r \in marked THEN text[r] \cup {Marker} ELSE text[r]]
  BY DEF MarkMoved
<1>2. ASSUME NEW r \in Rows
      PROVE  /\ text'[r] \in SUBSET Sentences
             /\ text[r] \subseteq text'[r] /\ text'[r] \subseteq text[r] \cup {Marker}
             /\ r \in Turns => text'[r] = text[r]
  BY <1>1, RepairAssumption, SentenceAssumption DEF TypeOK
<1>3. ASSUME NEW r \in Rows, NEW signal \in Signals
      PROVE  Has(text'[r], signal) <=> Has(text[r], signal)
  BY <1>2, RepairAssumption DEF Has
<1>4. text' = [r \in Rows |-> text'[r]]
  BY <1>1
<1> QED
  BY <1>2, <1>3, <1>4

----------------------------------------------------------------------------
(* No persona is silenced *)

LEMMA MarksKeepWords ==
  ASSUME TypeOK, WordsLeft, MarkMoved, Pending' = Pending, UNCHANGED written
  PROVE  WordsLeft'
<1> SUFFICES ASSUME NEW r \in Rows
             PROVE  /\ r \in Turns => Marker \notin text'[r]
                    /\ Words(written[r]) # {} => text'[r] # {}
                    /\ (\E s \in Words(written[r]) : Says[s] \cap {"caveat", "price", "aware"} = {})
                         => \E s \in Words(text'[r]) : Says[s] \cap Pending = {}
  BY DEF WordsLeft, Words
<1>1. /\ text[r] \subseteq text'[r]
      /\ r \in Turns => text'[r] = text[r]
  BY MarksSayNothing
<1>2. Words(text[r]) \subseteq Words(text'[r])
  BY <1>1 DEF Words
<1> QED
  BY <1>1, <1>2 DEF WordsLeft

\* What a repair makes of one text: it goes blank only if it was, it gets no
\* marker, and a sentence nobody is after stays, or stands for one that did.
Kept(new, old, before, after) ==
  /\ old # {} => new # {}
  /\ Marker \in new => Marker \in old
  /\ (\E s \in Words(old) : Says[s] \cap before = {})
       => \E s \in Words(new) : Says[s] \cap after = {}

LEMMA RepairsKeepWords ==
  ASSUME NEW t \in SUBSET Sentences, NEW flaws
  PROVE  /\ Kept(Uncaveated(t), t, {"caveat", "price", "aware"}, {"caveat", "price", "aware"})
         /\ Kept(Dropped(t, {"price"}), t, {"caveat", "price", "aware"}, {"aware"})
         /\ Kept(Dropped(t, {"aware"}), t, {"aware"}, {"aware"})
         /\ Kept(Reworded(t, flaws), t, {"aware"}, {"aware"})
<1>1. Kept(Uncaveated(t), t, {"caveat", "price", "aware"}, {"caveat", "price", "aware"})
  BY RepairAssumption DEF Kept, Uncaveated, Flawed, Words
<1>2. Kept(Dropped(t, {"price"}), t, {"caveat", "price", "aware"}, {"aware"})
  BY DEF Kept, Dropped, Flawed, Words
<1>3. Kept(Dropped(t, {"aware"}), t, {"aware"}, {"aware"})
  BY DEF Kept, Dropped, Flawed, Words
<1>4. Kept(Reworded(t, flaws), t, {"aware"}, {"aware"})
  <2>1. t # {} => Reworded(t, flaws) # {}
    BY DEF Reworded, Flawed
  <2>2. Marker \in Reworded(t, flaws) => Marker \in t
    BY RepairAssumption DEF Reworded, Flawed
  <2>3. ASSUME NEW s \in Words(t), Says[s] \cap {"aware"} = {}
        PROVE  \E u \in Words(Reworded(t, flaws)) : Says[u] \cap {"aware"} = {}
    <3>1. CASE s \in Flawed(t, flaws)
      <4>1. Rewording[s] \in Words(Reworded(t, flaws)) /\ Says[Rewording[s]] \cap {"aware"} = {}
        BY <2>3, <3>1, RepairAssumption DEF Reworded, Flawed, Words
      <4> QED
        BY <4>1
    <3>2. CASE s \notin Flawed(t, flaws)
      BY <2>3, <3>2 DEF Reworded, Words
    <3> QED
      BY <3>1, <3>2
  <2> QED
    BY <2>1, <2>2, <2>3 DEF Kept
<1> QED
  BY <1>1, <1>2, <1>3, <1>4

LEMMA KeptWords ==
  ASSUME WordsLeft, UNCHANGED written,
         \A r \in Rows : Kept(text'[r], text[r], Pending, Pending')
  PROVE  WordsLeft'
<1> SUFFICES ASSUME NEW r \in Rows
             PROVE  /\ r \in Turns => Marker \notin text'[r]
                    /\ Words(written[r]) # {} => text'[r] # {}
                    /\ (\E s \in Words(written[r]) : Says[s] \cap {"caveat", "price", "aware"} = {})
                         => \E s \in Words(text'[r]) : Says[s] \cap Pending' = {}
  BY DEF WordsLeft, Words
<1> QED
  BY DEF WordsLeft, Kept

----------------------------------------------------------------------------
(* The invariant *)

LEMMA InitInv == Init => IInv
<1> SUFFICES ASSUME Init PROVE IInv
  OBVIOUS
<1>1. TypeOK
  BY SentenceAssumption DEF Init, TypeOK, Rows
<1>2. WordsLeft
  BY DEF Init, WordsLeft, Words, Pending
<1> QED
  BY <1>1, <1>2 DEF Init, IInv, TypeOK, CaveatsDecideNothing, FromWritten, ResistantFromStart, WordsHold, ContextIs,
     GatedOnlyFromResistant, ResistanceHeld, SpeechIs, SpeechVerdictTrue, Judged, Has, Rows,
     Stances, Receptive, Uncertain, Resistant

\* The invariant's parts that a repair which moves no stance can disturb.
LEMMA RepairInv ==
  ASSUME IInv, NEW next \in {"calibrate", "factLock", "realism", "strict", "v3"},
         step # "leak" \/ next = "calibrate", step \notin Judged \cup {"calibrate"},
         step' = next, UNCHANGED <<stance, ctx, speech, committed, written>>,
         text' \in [Rows -> SUBSET Sentences], WordsLeft',
         \A r \in Rows, signal \in {"caveat", "resistant"} :
           Has(text'[r], signal) => Has(text[r], signal),
         next = "calibrate" =>
           step = "leak" /\ \A b \in Ballots : /\ ~Has(text'[b], "caveat")
                                            /\ text'[b] \subseteq text[b] \cup {Placeholder}
  PROVE  IInv'
<1> Ballots \subseteq Rows
  BY DEF Rows
<1>1. TypeOK'
  BY DEF IInv, TypeOK
<1>2. CaveatsDecideNothing'
  BY DEF IInv, CaveatsDecideNothing, Judged
<1>3. FromWritten'
  BY DEF IInv, FromWritten
<1>4. ResistantFromStart' /\ WordsHold'
  BY DEF IInv, ResistantFromStart, WordsHold, Judged
<1>5. /\ ContextIs' /\ GatedOnlyFromResistant' /\ ResistanceHeld'
      /\ SpeechIs' /\ SpeechVerdictTrue'
  BY DEF IInv, ContextIs, GatedOnlyFromResistant, ResistanceHeld, SpeechIs, SpeechVerdictTrue, Judged
<1> QED
  BY <1>1, <1>2, <1>3, <1>4, <1>5 DEF IInv

LEMMA StripLeaksInv == IInv /\ StripLeaks => IInv'
<1> SUFFICES ASSUME IInv, StripLeaks PROVE IInv'
  OBVIOUS
<1>1. \A r \in Rows : text[r] \in SUBSET Sentences
  BY DEF IInv, TypeOK
<1>2. \A r \in Rows, signal \in {"caveat", "resistant"} :
        Has(text'[r], signal) => Has(text[r], signal)
  BY <1>1, RepairsAddNothing DEF StripLeaks, Rows
<1>3. text' \in [Rows -> SUBSET Sentences]
  BY <1>1, RepairsAddNothing DEF StripLeaks, Rows
<1>4. \A b \in Ballots : ~Has(text'[b], "caveat") /\ text'[b] \subseteq text[b] \cup {Placeholder}
  <2> SUFFICES ASSUME NEW b \in Ballots
               PROVE  ~Has(text'[b], "caveat") /\ text'[b] \subseteq text[b] \cup {Placeholder}
    OBVIOUS
  <2>1. text'[b] = Uncaveated(text[b]) /\ text[b] \in SUBSET Sentences
    BY <1>1 DEF StripLeaks, Rows
  <2>2. Uncaveated(text[b]) \subseteq text[b] \cup {Placeholder}
    BY DEF Uncaveated
  <2> QED
    BY <2>1, <2>2, RepairsAddNothing
<1>5. WordsLeft'
  <2>1. ASSUME NEW r \in Rows PROVE Kept(text'[r], text[r], Pending, Pending')
    BY <1>1, RepairsKeepWords DEF StripLeaks, At, Pending, Kept
  <2> QED
    BY <2>1, KeptWords DEF IInv, StripLeaks, At
<1> QED
  BY <1>2, <1>3, <1>4, <1>5, RepairInv DEF StripLeaks, At, Judged

LEMMA RepairedTexts ==
  ASSUME TypeOK, NEW flaws,
         \/ text' = [r \in Rows |-> Dropped(text[r], flaws)]
         \/ text' = [r \in Rows |-> Reworded(text[r], flaws)]
  PROVE  /\ text' \in [Rows -> SUBSET Sentences]
         /\ \A r \in Rows, signal \in {"caveat", "resistant"} :
              Has(text'[r], signal) => Has(text[r], signal)
<1>1. ASSUME NEW r \in Rows
      PROVE  /\ text[r] \in SUBSET Sentences
             /\ text'[r] = Dropped(text[r], flaws) \/ text'[r] = Reworded(text[r], flaws)
  BY DEF TypeOK
<1>2. ASSUME NEW r \in Rows, NEW signal \in {"caveat", "resistant"}
      PROVE  /\ text'[r] \in SUBSET Sentences
             /\ Has(text'[r], signal) => Has(text[r], signal)
  BY <1>1, RepairsAddNothing
<1>3. text' = [r \in Rows |-> text'[r]]
  OBVIOUS
<1> QED
  BY <1>2, <1>3

LEMMA RepairPricesInv == IInv /\ RepairPrices => IInv'
<1> SUFFICES ASSUME IInv, RepairPrices PROVE IInv'
  OBVIOUS
<1>1. WordsLeft'
  <2>1. ASSUME NEW r \in Rows PROVE Kept(text'[r], text[r], Pending, Pending')
    BY RepairsKeepWords DEF RepairPrices, At, Pending, IInv, TypeOK
  <2> QED
    BY <2>1, KeptWords DEF IInv, RepairPrices, At
<1> QED
  BY <1>1, RepairedTexts, RepairInv DEF RepairPrices, At, Judged, IInv

LEMMA LockFactsInv == IInv /\ LockFacts => IInv'
<1> SUFFICES ASSUME IInv, LockFacts PROVE IInv'
  OBVIOUS
<1>1. WordsLeft'
  <2>1. ASSUME NEW r \in Rows PROVE Kept(text'[r], text[r], Pending, Pending')
    BY RepairsKeepWords DEF LockFacts, At, Pending, IInv, TypeOK
  <2> QED
    BY <2>1, KeptWords DEF IInv, LockFacts, At
<1> QED
  BY <1>1, RepairedTexts, RepairInv DEF LockFacts, At, Judged, IInv

LEMMA StripSelfAwarenessInv == IInv /\ StripSelfAwareness => IInv'
<1> SUFFICES ASSUME IInv, StripSelfAwareness PROVE IInv'
  OBVIOUS
<1>1. WordsLeft'
  <2>1. ASSUME NEW r \in Rows PROVE Kept(text'[r], text[r], Pending, Pending')
    BY RepairsKeepWords DEF StripSelfAwareness, At, Pending, IInv, TypeOK
  <2> QED
    BY <2>1, KeptWords DEF IInv, StripSelfAwareness, At
<1> QED
  BY <1>1, RepairedTexts, RepairInv DEF StripSelfAwareness, At, Judged, IInv

LEMMA RepairNegationsInv == IInv /\ RepairNegations => IInv'
<1> SUFFICES ASSUME IInv, RepairNegations PROVE IInv'
  OBVIOUS
<1>1. WordsLeft'
  <2>1. ASSUME NEW r \in Rows PROVE Kept(text'[r], text[r], Pending, Pending')
    BY RepairsKeepWords DEF RepairNegations, At, Pending, IInv, TypeOK
  <2> QED
    BY <2>1, KeptWords DEF IInv, RepairNegations, At
<1> QED
  BY <1>1, RepairedTexts, RepairInv DEF RepairNegations, At, Judged, IInv

\* A classifier whose table lies in Stances, and which resistant words stop.
LEMMA CalibrateInv == IInv /\ Calibrate => IInv'
<1> SUFFICES ASSUME IInv, Calibrate PROVE IInv'
  OBVIOUS
<1> USE DEF Calibrate, At
<1>m. /\ text' \in [Rows -> SUBSET Sentences] /\ Ballots \subseteq Rows /\ Turns \subseteq Rows
      /\ \A r \in Rows, signal \in {"caveat", "resistant", "gate", "killer"} :
           Has(text'[r], signal) <=> Has(text[r], signal)
      /\ WordsLeft'
  BY MarksSayNothing, MarksKeepWords DEF IInv, Rows, Pending, Signals, Intents, Flaws
<1>0. \A b \in Ballots : stance[b] \in Stances /\ stance'[b] = Calibrated(stance[b], text[b])
  BY DEF IInv, TypeOK
<1>1. \A b \in Ballots : stance'[b] \in Stances
  BY <1>0, CalibratedType
<1>2. TypeOK'
  BY <1>m, <1>1 DEF IInv, TypeOK, Reload
<1>3. ResistantFromStart'
  <2> SUFFICES ASSUME NEW b \in Ballots, stance'[b] \in Resistant
               PROVE  committed[b] \in Resistant \/ Has(written[b], "resistant")
    BY DEF ResistantFromStart
  <2>1. stance[b] \in Resistant \/ Has(text[b], "resistant")
    BY <1>0, CalibratedType
  <2>2. Has(text[b], "resistant") => Has(written[b], "resistant")
    BY RepairAssumption DEF IInv, FromWritten, Has
  <2> QED
    BY <2>1, <2>2 DEF IInv, FromWritten
<1>4. WordsHold'
  <2> SUFFICES ASSUME NEW b \in Ballots, committed[b] \in Resistant, Has(text[b], "resistant")
               PROVE  stance'[b] \notin Receptive
    BY <1>m DEF WordsHold
  <2> QED
    BY <1>0, CalibratedType DEF IInv, FromWritten
<1>5. CaveatsDecideNothing'
  BY <1>m DEF IInv, CaveatsDecideNothing
<1>6. /\ ContextIs' /\ GatedOnlyFromResistant' /\ ResistanceHeld' /\ FromWritten'
      /\ SpeechIs' /\ SpeechVerdictTrue'
  BY DEF IInv, ContextIs, GatedOnlyFromResistant, ResistanceHeld, SpeechIs, SpeechVerdictTrue,
     FromWritten, Judged
<1> QED
  BY <1>m, <1>2, <1>3, <1>4, <1>5, <1>6 DEF IInv

LEMMA StrictnessInv == IInv /\ Strictness => IInv'
<1> SUFFICES ASSUME IInv, Strictness PROVE IInv'
  OBVIOUS
<1> USE DEF Strictness, At
<1>m. /\ text' \in [Rows -> SUBSET Sentences] /\ Ballots \subseteq Rows /\ Turns \subseteq Rows
      /\ \A r \in Rows, signal \in {"caveat", "resistant", "gate", "killer"} :
           Has(text'[r], signal) <=> Has(text[r], signal)
      /\ WordsLeft'
  BY MarksSayNothing, MarksKeepWords DEF IInv, Rows, Pending, Signals, Intents, Flaws
<1>0. \A b \in Ballots : stance[b] \in Stances /\ stance'[b] = Strict(stance[b], text[b])
  BY DEF IInv, TypeOK
<1>1. \A b \in Ballots : stance'[b] \in Stances
  BY <1>0, StrictType
<1>2. TypeOK'
  BY <1>m, <1>1 DEF IInv, TypeOK, Reload
<1>3. ResistantFromStart'
  BY <1>0, StrictType DEF IInv, ResistantFromStart, Judged
<1>4. WordsHold'
  BY <1>m, <1>0, StrictType DEF IInv, WordsHold
<1>5. CaveatsDecideNothing'
  BY <1>m DEF IInv, CaveatsDecideNothing
<1>6. /\ ContextIs' /\ GatedOnlyFromResistant' /\ ResistanceHeld' /\ FromWritten'
      /\ SpeechIs' /\ SpeechVerdictTrue'
  BY DEF IInv, ContextIs, GatedOnlyFromResistant, ResistanceHeld, SpeechIs, SpeechVerdictTrue,
     FromWritten, Judged
<1> QED
  BY <1>m, <1>2, <1>3, <1>4, <1>5, <1>6 DEF IInv

LEMMA StrictnessV3Inv == IInv /\ StrictnessV3 => IInv'
<1> SUFFICES ASSUME IInv, StrictnessV3 PROVE IInv'
  OBVIOUS
<1> USE DEF StrictnessV3, At
<1>m. /\ text' \in [Rows -> SUBSET Sentences] /\ Ballots \subseteq Rows /\ Turns \subseteq Rows
      /\ \A r \in Rows, signal \in {"caveat", "resistant", "gate", "killer"} :
           Has(text'[r], signal) <=> Has(text[r], signal)
      /\ WordsLeft'
  BY MarksSayNothing, MarksKeepWords DEF IInv, Rows, Pending, Signals, Intents, Flaws
<1>0. \A b \in Ballots : stance[b] \in Stances /\ stance'[b] = StrictV3(stance[b], text[b])
  BY DEF IInv, TypeOK
<1>1. \A b \in Ballots : stance'[b] \in Stances
  BY <1>0, StrictV3Type
<1>2. TypeOK'
  BY <1>m, <1>1 DEF IInv, TypeOK, Reload
<1>3. ContextIs' /\ \A b \in Ballots : ctx'.stance[b] = stance'[b] /\ ctx'.text[b] = text'[b]
  BY DEF Reload, ContextIs
<1>4. WordsHold'
  BY <1>m, <1>0, StrictV3Type DEF IInv, WordsHold
<1>5. ResistanceHeld'
  BY <1>m, <1>3, <1>4 DEF WordsHold, ResistanceHeld
<1>6. GatedOnlyFromResistant'
  <2> SUFFICES ASSUME NEW b \in Ballots, stance'[b] \in Receptive,
                      Has(text[b], "gate") \/ Has(text[b], "killer")
               PROVE  committed[b] \in Resistant \/ Has(written[b], "resistant")
    BY <1>m, <1>3 DEF GatedOnlyFromResistant
  <2>1. stance[b] \in Resistant
    BY <1>0, StrictV3Type
  <2> QED
    BY <2>1 DEF IInv, ResistantFromStart, Judged
<1>7. /\ CaveatsDecideNothing' /\ FromWritten' /\ ResistantFromStart'
      /\ SpeechIs' /\ SpeechVerdictTrue'
  BY <1>m DEF IInv, CaveatsDecideNothing, FromWritten, ResistantFromStart, SpeechIs, SpeechVerdictTrue, Judged
<1> QED
  BY <1>m, <1>2, <1>3, <1>4, <1>5, <1>6, <1>7 DEF IInv

LEMMA RepairForbiddenInv == IInv /\ RepairForbidden => IInv'
<1> SUFFICES ASSUME IInv, RepairForbidden PROVE IInv'
  OBVIOUS
<1> USE DEF RepairForbidden, At
<1>0. /\ \A r \in Rows : text[r] \in SUBSET Sentences /\ text'[r] = Reworded(text[r], {"forbidden"})
      /\ Ballots \subseteq Rows /\ Turns \subseteq Rows
  BY DEF IInv, TypeOK, Rows
<1>1. /\ text' \in [Rows -> SUBSET Sentences]
      /\ \A r \in Rows, signal \in {"caveat", "resistant"} :
           Has(text'[r], signal) => Has(text[r], signal)
  BY RepairedTexts DEF IInv
<1>2. TypeOK'
  BY <1>1 DEF IInv, TypeOK
<1>3. CaveatsDecideNothing' /\ WordsHold'
  BY <1>0, <1>1 DEF IInv, CaveatsDecideNothing, WordsHold
<1>4. ContextIs'
  BY <1>0 DEF IInv, ContextIs, Judged
<1>5. GatedOnlyFromResistant' /\ ResistanceHeld'
  BY DEF IInv, GatedOnlyFromResistant, ResistanceHeld
<1>6. SpeechIs' /\ SpeechVerdictTrue'
  <2>1. ASSUME speech'.pass, NEW r \in Turns PROVE ~Has(text'[r], "aware")
    <3>1. ~Has(text[r], "aware")
      BY <2>1 DEF IInv, TypeOK
    <3> QED
      BY <3>1, <1>0, RepairsAddNothing
  <2> QED
    BY <2>1 DEF IInv, SpeechIs, SpeechVerdictTrue, TypeOK
<1>7. FromWritten' /\ ResistantFromStart'
  BY DEF FromWritten, ResistantFromStart, Judged
<1>8. WordsLeft'
  <2>1. ASSUME NEW r \in Rows PROVE Kept(text'[r], text[r], Pending, Pending')
    BY <1>0, RepairsKeepWords DEF Pending
  <2> QED
    BY <2>1, KeptWords DEF IInv
<1> QED
  BY <1>2, <1>3, <1>4, <1>5, <1>6, <1>7, <1>8 DEF IInv

LEMMA JudgeSpeechInv == IInv /\ JudgeSpeech => IInv'
<1> SUFFICES ASSUME IInv, JudgeSpeech PROVE IInv'
  OBVIOUS
<1> USE DEF JudgeSpeech, At
<1>1. TypeOK'
  BY DEF IInv, TypeOK
<1>2. ContextIs' /\ GatedOnlyFromResistant' /\ ResistanceHeld'
  BY DEF IInv, ContextIs, GatedOnlyFromResistant, ResistanceHeld, Judged
<1>3. CaveatsDecideNothing' /\ WordsHold' /\ FromWritten' /\ ResistantFromStart'
  BY DEF IInv, CaveatsDecideNothing, WordsHold, FromWritten, ResistantFromStart, Judged
<1>4. SpeechIs' /\ SpeechVerdictTrue'
  <2>1. ASSUME speech'.pass, NEW r \in Rows PROVE ~Has(text[r], "aware")
    <3>1. CASE r \in Turns
      BY <2>1, <3>1 DEF IInv, SpeechIs
    <3>2. CASE r \in Ballots
      <4>1. ~Has(ctx.text[r], "aware") /\ ctx.text[r] \in SUBSET Sentences
        BY <2>1, <3>2 DEF IInv, TypeOK
      <4>2. text[r] = Reworded(ctx.text[r], {"forbidden"})
        BY <3>2 DEF IInv, ContextIs
      <4> QED
        BY <4>1, <4>2, RepairsAddNothing
    <3> QED
      BY <3>1, <3>2 DEF Rows
  <2> QED
    BY <2>1 DEF SpeechIs, SpeechVerdictTrue
<1>5. WordsLeft'
  BY DEF IInv, WordsLeft, Words, Pending
<1> QED
  BY <1>1, <1>2, <1>3, <1>4, <1>5 DEF IInv

LEMMA StutterInv == IInv /\ UNCHANGED vars => IInv'
  BY DEF IInv, vars, TypeOK, CaveatsDecideNothing, FromWritten, ResistantFromStart, WordsHold,
     ContextIs, GatedOnlyFromResistant, ResistanceHeld, SpeechIs, SpeechVerdictTrue,
     WordsLeft, Words, Pending

\* The strengthened invariant holds in every state of every session.
THEOREM Invariance == Spec => []IInv
<1>1. IInv /\ [Next]_vars => IInv'
  BY StripLeaksInv, CalibrateInv, RepairPricesInv, LockFactsInv, StripSelfAwarenessInv,
     StrictnessInv, RepairNegationsInv, StrictnessV3Inv, RepairForbiddenInv, JudgeSpeechInv,
     StutterInv DEF Next
<1> QED
  BY <1>1, InitInv, PTL DEF Spec

\* Types hold for any set of ballots, turns and sentences.
THEOREM TypeCorrect == Spec => []TypeOK
  BY Invariance, PTL DEF IInv

\* No classifier of any session ever reads a caveat of the system.
THEOREM CleanReading == Spec => []CaveatsDecideNothing
  BY Invariance, PTL DEF IInv

\* Whatever a brief and its personas say, only a ballot that was resistant in
\* stance or in words can end RECEPTIVE behind a proof gate.
THEOREM GatesHold == Spec => []GatedOnlyFromResistant
  BY Invariance, PTL DEF IInv

\* Resistant words keep a resistant ballot from RECEPTIVE through all classifiers.
THEOREM ResistanceStands == Spec => []ResistanceHeld
  BY Invariance, PTL DEF IInv

\* The last audit's verdict, drawn from stale rows, is true of the table.
THEOREM VerdictSound == Spec => []SpeechVerdictTrue
  BY Invariance, PTL DEF IInv

\* The stages after the audits and the endpoints agree on every ballot.
THEOREM ReportAgrees == Spec => []ReportSeesLedger
<1>1. ASSUME NEW t, ~Has(t, "forbidden") PROVE Reworded(t, {"forbidden"}) = t
  <2>1. Flawed(t, {"forbidden"}) = {}
    BY <1>1 DEF Flawed, Has
  <2> QED
    BY <2>1 DEF Reworded
<1>2. IInv => ReportSeesLedger
  BY <1>1 DEF IInv, ReportSeesLedger, ContextIs, Judged
<1> QED
  BY <1>2, Invariance, PTL

\* Who said something that no strip is after is heard in the end, every turn is,
\* and what is left of any other ballot is a marker.
THEOREM NobodySilenced == Spec => []NeverSilenced
<1>1. ASSUME IInv, NEW r \in Rows, Words(written[r]) # {}, Words(text[r]) = {}
      PROVE  /\ r \in Ballots /\ Marker \in text[r]
             /\ \A s \in Words(written[r]) : Says[s] \cap {"caveat", "price", "aware"} # {}
  <2>1. text[r] # {} /\ Marker \in text[r]
    BY <1>1 DEF IInv, WordsLeft, Words
  <2>2. r \notin Turns
    BY <1>1, <2>1 DEF IInv, WordsLeft
  <2>3. \A s \in Words(written[r]) : Says[s] \cap {"caveat", "price", "aware"} # {}
    BY <1>1 DEF IInv, WordsLeft
  <2> QED
    BY <2>1, <2>2, <2>3 DEF Rows
<1>2. IInv => NeverSilenced
  BY <1>1 DEF NeverSilenced
<1> QED
  BY <1>2, Invariance, PTL
=============================================================================
