CONSTANTS
  Results <- MCResults
  Url <- MCUrl
  Text <- MCText
  Blank = {"r8"}
  Usable = {"r1", "r2", "r3", "r4", "r6", "r7"}
  Found <- MCFound
  Roles = {"k1", "k2", "price_skeptic", "trust_seeker", "objection_focused"}
  Competitors = {"k1", "k2"}
  Unwieldy = {"k2"}
  MinAccepted = 2
  MinSignals = 3
  MinCount = 4
  Target = 5
  MaxCount = 6
  MaxPerSource = 3
  MaxPerObjection = 1
  MaxPerRole = 2
  RoleShare = 50
  CompetitorShare = 60
  MinRoles = 3
  RolesDivisor = 2
  MinDimensions = 2
SPECIFICATION Spec
INVARIANTS
  GatesAgree
  NothingWasted
  PageSpeaksOnce
CHECK_DEADLOCK FALSE
