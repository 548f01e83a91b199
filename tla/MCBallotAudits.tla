--------------------------- MODULE MCBallotAudits ---------------------------
(* One ballot of at most three sentences of every kind the audits tell      *)
(* apart, and one turn of at most two flawed ones.                          *)
EXTENDS BallotAudits, TLC

MCSays ==
  "buy"         :> {"positive", "driver"} @@
  "buyIf"       :> {"positive", "driver", "conditional"} @@
  "wouldUse"    :> {"driver", "useCase"} @@
  "inIf"        :> {"conditional"} @@
  "needProof"   :> {"proof"} @@
  "needReviews" :> {"proof"} @@
  "certified"   :> {"gate"} @@
  "onlyMagnet"  :> {"killer"} @@
  "notForMe"    :> {"resistant"} @@
  "dockPrice"   :> {"price", "resistant"} @@
  "asPersona"   :> {"aware"} @@
  "directional" :> {"caveat"} @@
  "whichFabric" :> {"materials"} @@
  "howLong"     :> {"runtime"} @@
  "noCamera"    :> {"negation"} @@
  "itsCamera"   :> {"forbidden", "driver"} @@
  "askCertificate" :> {"gate"} @@
  "restated"    :> {} @@
  "marker"      :> {}

MCSentences == DOMAIN MCSays

\* "materials" is reworded into a demand for a certificate, which is a gate.
MCRewording ==
  [s \in MCSentences |-> IF s = "whichFabric" THEN "askCertificate" ELSE "restated"]

Spoken  == MCSentences \ {"askCertificate", "restated", "marker"}
Short   == {"asPersona", "howLong", "itsCamera"}

\* What was said, what the final-ballot repair said and marked, or nothing.
MCWritten ==
  {{a, b, c} : a, b, c \in Spoken} \cup {{a, b, "marker"} : a, b \in Spoken} \cup {{}}

\* The turn is shorter than the ballot: its words decide no stance.
MCInit == Init /\ \A r \in Turns : text[r] \subseteq Short /\ text[r] # Short

MCSpec == MCInit /\ [][Next]_vars
=============================================================================
