CONSTANTS
  Runs = {"x", "y", "z"}
  Contents = {"a", "b", "c"}
  Needs <- MCNeeds
SPECIFICATION FairSpec
INVARIANT SharedSourceIsNoFailure
CHECK_DEADLOCK FALSE
