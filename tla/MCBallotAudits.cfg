CONSTANTS
  Ballots = {b1}
  Turns = {t1}
  Sentences <- MCSentences
  Says <- MCSays
  Facts = {"materials", "runtime"}
  Rewording <- MCRewording
  Placeholder = "restated"
  Marker = "marker"
  Written <- MCWritten
SPECIFICATION MCSpec
INVARIANTS
  CaveatsDecideNothing
  GatedOnlyFromResistant
  ResistanceHeld
  ReportSeesLedger
  SpeechVerdictTrue
  
CHECK_DEADLOCK FALSE
