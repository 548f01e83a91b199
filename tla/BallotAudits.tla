---------------------------- MODULE BallotAudits ----------------------------
(***************************************************************************)
(* The rule-based audits that rewrite committed ballots and turns between  *)
(* the final-ballot repair and the cohort stage of a live founder-brief    *)
(* run: _run_phase_10b1_audits of orchestration/live_founder_brief.py.     *)
(* Five repairs drop or reword sentences, three classifiers move stances,  *)
(* and each reads what the ones before it left.                            *)
(*                                                                         *)
(* A text is the set of its sentences, and Says[s] is what the regular     *)
(* expressions of sources/product_grounding find in sentence s.            *)
(***************************************************************************)
EXTENDS Naturals, FiniteSets

CONSTANTS
  Ballots,      \* rows of discussion_private_ballots of the session
  Turns,        \* rows of discussion_turns of the session
  Sentences,
  Says,         \* Says[s]: the signals found in sentence s
  Facts,        \* categories of facts that the brief states
  Rewording,    \* Rewording[s]: what a repair writes in place of s
  Placeholder,  \* "(persona reasoning was reduced to a system caveat ...)"
  Marker,       \* "[stance_calibration:...]" and its kin, a sentence of its own
  Written       \* the texts that personas can have written

Intents == {"positive", "driver", "useCase", "proof", "conditional",
            "killer", "gate", "resistant"}
Flaws   == {"caveat", "price", "aware", "negation", "forbidden"}
Signals == Intents \cup Flaws \cup Facts

Rows == Ballots \cup Turns

Has(t, signal) == \E s \in t : signal \in Says[s]

\* What of a text is not a marker that the program put there.
Words(t) == t \ {Marker}

ASSUME SentenceAssumption ==
  /\ Says \in [Sentences -> SUBSET Signals]
  /\ Facts \cap (Intents \cup Flaws) = {}
  /\ Ballots \cap Turns = {}
  /\ Written \subseteq SUBSET Sentences

\* What a repair writes speaks of no caveat, of no simulation and of no refusal,
\* and no regular expression finds anything in a marker.
ASSUME RepairAssumption ==
  /\ Placeholder \in Sentences
  /\ Rewording \in [Sentences -> Sentences]
  /\ Marker \in Sentences \ {Placeholder}
  /\ Says[Placeholder] = {} /\ Says[Marker] = {}
  /\ \A s \in Sentences :
       Rewording[s] # Marker /\ Says[Rewording[s]] \cap {"caveat", "aware", "resistant"} = {}

VARIABLES
  step,       \* the audit that runs next
  text,       \* public_text or private_reasoning of each row
  stance,     \* private_stance of each ballot
  ctx,        \* ctx["ballots"]: what the later stages of the run read
  speech,     \* human_speech_quality.json: [read, pass]
  committed,  \* history: the ballots as the discussion committed them
  written     \* history: their texts then

vars == <<step, text, stance, ctx, speech, committed, written>>

----------------------------------------------------------------------------
(* Stances and what the classifiers make of them *)

Receptive == {"interested_if_proven"}
Uncertain == {"curious_but_unconvinced", "needs_more_information"}
Resistant == {"skeptical", "likely_reject"}
Stances   == Receptive \cup Uncertain \cup Resistant

\* calibrate_stance: the first classifier, on positive, proof and resistant.
Calibrated(st, t) ==
  IF st \in Receptive /\ Has(t, "proof") /\ ~Has(t, "positive")
  THEN "curious_but_unconvinced"
  ELSE IF \/ st \in Resistant /\ Has(t, "positive") /\ ~Has(t, "resistant")
          \/ st \in Uncertain /\ Has(t, "positive") /\ ~Has(t, "proof")
  THEN "interested_if_proven"
  ELSE IF st \in Uncertain /\ Has(t, "resistant") /\ ~Has(t, "positive")
  THEN "skeptical"
  ELSE st

\* classify_stance_strictness: RECEPTIVE is earned and not gated.
Strict(st, t) ==
  IF st \in Receptive /\ (Has(t, "gate") \/ ~(Has(t, "positive") \/ Has(t, "useCase")))
  THEN "curious_but_unconvinced"
  ELSE IF /\ st \in Resistant \/ (st \in Uncertain /\ ~Has(t, "gate"))
          /\ Has(t, "positive") /\ Has(t, "useCase") /\ ~Has(t, "resistant")
  THEN "interested_if_proven"
  ELSE st

Drivers(t) == {s \in t : "driver" \in Says[s]}
Demands(t) == {s \in t \ Drivers(t) : Says[s] \cap {"conditional", "proof"} # {}}

MostlyObjecting(t) ==
  /\ Cardinality(Demands(t)) > Cardinality(Drivers(t))
  /\ Cardinality(Demands(t)) >= 2

Unearned(t) == ~Has(t, "positive") /\ ~Has(t, "useCase") /\ Drivers(t) = {}

\* Mutant of StrictV3: `not has_major_gate` is dropped for UNCERTAIN ballots.
V3Ungated(st, t) ==
  IF st \notin Receptive /\ Drivers(t) # {} /\ Has(t, "useCase") /\ ~Has(t, "resistant")
  THEN "interested_if_proven" ELSE st

\* Mutant of StrictV3: `not has_resistant` is dropped from the upgrade.
V3Overruled(st, t) ==
  IF st \in Resistant /\ Drivers(t) # {} THEN "interested_if_proven" ELSE st

\* classify_stance_strictness_v3: the same boundary by counting sentences.
StrictV3(st, t) ==
  IF /\ st \in Receptive
     /\ Has(t, "killer") \/ Has(t, "gate") \/ MostlyObjecting(t) \/ Unearned(t)
  THEN "curious_but_unconvinced"
  ELSE IF /\ \/ st \in Resistant
             \/ st \in Uncertain /\ ~Has(t, "gate") /\ ~Has(t, "killer")
          /\ Drivers(t) # {} /\ Has(t, "useCase") /\ ~Has(t, "resistant")
  THEN "interested_if_proven"
  ELSE st

----------------------------------------------------------------------------
(* Repairs of one text *)

Flawed(t, flaws) == {s \in t : Says[s] \cap flaws # {}}

\* Mutant of Dropped: `if removed > 0` without `and cleaned`.
DroppedWhole(t, flaws) == t \ Flawed(t, flaws)

\* strip_*, repair_price_confusion: the row is written only if something is left.
Dropped(t, flaws) ==
  LET cleaned == t \ Flawed(t, flaws) IN IF cleaned = {} THEN t ELSE cleaned

\* repair_known_fact_reask and its kin: each flawed sentence gets its rewording.
Reworded(t, flaws) ==
  (t \ Flawed(t, flaws)) \cup {Rewording[s] : s \in Flawed(t, flaws)}

\* The caveat strip of a ballot never leaves it empty: a placeholder stands in.
Uncaveated(t) ==
  LET cleaned == t \ Flawed(t, {"caveat"})
  IN  IF cleaned = {} /\ t # {} THEN {Placeholder} ELSE cleaned

\* A classifier appends its marker to each ballot it moves.  The marker stands
\* as a sentence of its own, or is part of the last one if no stop ends that.
MarkMoved ==
  \E marked \in SUBSET {b \in Ballots : stance'[b] # stance[b]} :
    /\ \A b \in Ballots : stance'[b] # stance[b] /\ text[b] = {} => b \in marked
    /\ text' = [r \in Rows |-> IF r \in marked THEN text[r] \cup {Marker} ELSE text[r]]

Reload == [stance |-> stance', text |-> [b \in Ballots |-> text'[b]]]

----------------------------------------------------------------------------
(* One action per audit that writes, each one transaction *)

Init ==
  /\ step = "leak"
  /\ stance \in [Ballots -> Stances]
  /\ text \in [Rows -> Written] /\ \A t \in Turns : Marker \notin text[t]
  /\ ctx = [stance |-> stance, text |-> [b \in Ballots |-> text[b]]]
  /\ speech = [read |-> FALSE, pass |-> FALSE]
  /\ committed = stance
  /\ written = text

At(here, next) == step = here /\ step' = next /\ UNCHANGED <<committed, written>>

\* Mutant of StripLeaks: the calibration reads what was loaded before the strip.
StripNothing ==
  /\ At("leak", "calibrate")
  /\ UNCHANGED <<text, stance, ctx, speech>>

\* 1. Caveat leaks are stripped from the ballots; turns keep theirs.
StripLeaks ==
  /\ At("leak", "calibrate")
  /\ text' = [r \in Rows |-> IF r \in Ballots THEN Uncaveated(text[r]) ELSE text[r]]
  /\ UNCHANGED <<stance, ctx, speech>>

\* 2. Stance calibration on the stripped texts, and ctx["ballots"] reloaded.
Calibrate ==
  /\ At("calibrate", "price")
  /\ stance' = [b \in Ballots |-> Calibrated(stance[b], text[b])]
  /\ MarkMoved
  /\ UNCHANGED speech
  /\ ctx' = Reload

\* 5. Sentences that confuse an accessory's price with the product's go.
RepairPrices ==
  /\ At("price", "factLock")
  /\ text' = [r \in Rows |-> Dropped(text[r], {"price"})]
  /\ UNCHANGED <<stance, ctx, speech>>

\* 7. Questions about facts that the brief states become demands for proof.
LockFacts ==
  /\ At("factLock", "realism")
  /\ text' = [r \in Rows |-> Reworded(text[r], Facts)]
  /\ UNCHANGED <<stance, ctx, speech>>

\* 8. Sentences in which the persona knows that it is simulated go.
StripSelfAwareness ==
  /\ At("realism", "strict")
  /\ text' = [r \in Rows |-> Dropped(text[r], {"aware"})]
  /\ UNCHANGED <<stance, ctx, speech>>

\* 9. RECEPTIVE is taken from who did not earn it, and ctx["ballots"] reloaded.
Strictness ==
  /\ At("strict", "negation")
  /\ stance' = [b \in Ballots |-> Strict(stance[b], text[b])]
  /\ MarkMoved
  /\ UNCHANGED speech
  /\ ctx' = Reload

\* 11. Inverted facts ("no camera") are restated.
RepairNegations ==
  /\ At("negation", "v3")
  /\ text' = [r \in Rows |-> Reworded(text[r], {"negation"})]
  /\ UNCHANGED <<stance, ctx, speech>>

\* Mutant of StrictnessV3: ctx["ballots"] keeps the rows of the second reload.
V3Unreloaded ==
  /\ At("v3", "forbidden")
  /\ stance' = [b \in Ballots |-> StrictV3(stance[b], text[b])]
  /\ MarkMoved
  /\ UNCHANGED <<speech, ctx>>

\* 13. The sentence-counting classifier, and ctx["ballots"] reloaded.
StrictnessV3 ==
  /\ At("v3", "forbidden")
  /\ stance' = [b \in Ballots |-> StrictV3(stance[b], text[b])]
  /\ MarkMoved
  /\ UNCHANGED speech
  /\ ctx' = Reload

\* 13b. Features that the brief denies are restated; ctx is not reloaded.
RepairForbidden ==
  /\ At("forbidden", "speech")
  /\ text' = [r \in Rows |-> Reworded(text[r], {"forbidden"})]
  /\ UNCHANGED <<stance, ctx>>
  /\ speech' = [speech EXCEPT !.pass = \A r \in Turns : ~Has(text[r], "aware")]

\* Mutant of JudgeSpeech: the turns are forgotten.
JudgeBallotsOnly ==
  /\ At("speech", "done")
  /\ speech' = [read |-> TRUE, pass |-> \A b \in Ballots : ~Has(ctx.text[b], "aware")]
  /\ UNCHANGED <<text, stance, ctx>>

\* 14. The last audit reads the turns loaded before 13b and ctx's ballots.
JudgeSpeech ==
  /\ At("speech", "done")
  /\ speech' = [read |-> TRUE,
                pass |-> speech.pass /\ \A b \in Ballots : ~Has(ctx.text[b], "aware")]
  /\ UNCHANGED <<text, stance, ctx>>

Next ==
  \/ StripLeaks \/ Calibrate \/ RepairPrices \/ LockFacts \/ StripSelfAwareness
  \/ Strictness \/ RepairNegations \/ StrictnessV3 \/ RepairForbidden \/ JudgeSpeech

Spec == Init /\ [][Next]_vars

----------------------------------------------------------------------------
(* Properties *)

TypeOK ==
  /\ step \in {"leak", "calibrate", "price", "factLock", "realism", "strict",
               "negation", "v3", "forbidden", "speech", "done"}
  /\ text \in [Rows -> SUBSET Sentences]
  /\ stance \in [Ballots -> Stances]
  /\ ctx \in [stance : [Ballots -> Stances], text : [Ballots -> SUBSET Sentences]]
  /\ speech \in [read : BOOLEAN, pass : BOOLEAN]
  /\ committed \in [Ballots -> Stances]
  /\ written \in [Rows -> SUBSET Sentences]

\* A strip removes the flawed sentences "while preserving the rest": a turn never
\* loses its last word, and neither does a ballot that says one thing which is
\* no caveat, no confused price and no talk of being simulated.  A ballot whose
\* every sentence is one of those can end as a bare marker, never blank: the
\* marker of a classifier or of the final-ballot repair is what is left of the
\* text when the strip looks whether anything is.
NeverSilenced ==
  \A r \in Rows :
    Words(written[r]) # {} /\ Words(text[r]) = {} =>
      /\ r \in Ballots /\ Marker \in text[r]
      /\ \A s \in Words(written[r]) : Says[s] \cap {"caveat", "price", "aware"} # {}

\* No stance is ever decided by a sentence that only repeats the system's
\* caveat: "caveat-leak repair first (so the calibration operates on cleaned
\* reasoning)", and no later repair brings such a sentence back.
CaveatsDecideNothing ==
  step # "leak" => \A b \in Ballots : ~Has(text[b], "caveat")

\* Three classifiers in a row decide who is RECEPTIVE.  A ballot that they end
\* on RECEPTIVE although it sets a proof gate, or dismisses the product with a
\* killer sentence, was resistant before any of them read it, by its stance or
\* by its words: nobody else slips past the gates.
GatedOnlyFromResistant ==
  \A b \in Ballots :
    /\ step \in {"forbidden", "speech", "done"}
    /\ ctx.stance[b] \in Receptive
    /\ Has(ctx.text[b], "gate") \/ Has(ctx.text[b], "killer")
    => committed[b] \in Resistant \/ Has(written[b], "resistant")

\* A ballot that was committed as resistant and still voices resistance when
\* the last classifier has read it is not counted as RECEPTIVE.
ResistanceHeld ==
  \A b \in Ballots :
    /\ step \in {"forbidden", "speech", "done"}
    /\ committed[b] \in Resistant
    /\ Has(ctx.text[b], "resistant")
    => ctx.stance[b] \notin Receptive

\* The cohort, intent and report stages read ctx["ballots"], the endpoints read
\* the table: both show the same stance, and the same words but for those that
\* the last repair restated.
ReportSeesLedger ==
  step = "done" =>
    \A b \in Ballots :
      /\ ctx.stance[b] = stance[b]
      /\ ctx.text[b] = text[b] \/ Has(ctx.text[b], "forbidden")

\* When human_speech_quality.json passes, no committed text of the session
\* shows that its speaker knows to be simulated, although the audit reads
\* turns and ballots that were loaded before the last repair.
SpeechVerdictTrue ==
  speech.read /\ speech.pass => \A r \in Rows : ~Has(text[r], "aware")

=============================================================================
