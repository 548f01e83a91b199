CONSTANTS
  Runs = {"x", "y", "z"}
  Contents = {"a", "b", "c"}
  Needs <- MCNeeds
SPECIFICATION FairSpec
INVARIANTS
  SomeoneWins
PROPERTIES
  ImplementsSerialStore
  EveryRunEnds
CHECK_DEADLOCK FALSE
