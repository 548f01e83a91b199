CONSTANTS
  Agents = {"p", "q", "r"}
  Stances = {"curious", "keen"}
  Objections = {"price"}
  None = None
  Anchor = "curious"
  LastRound = 4
  DebateRound = 3
  PeersPerAgent = 2
  Networks <- MCNetworks
  Answers <- MCAnswers
  ShiftLists <- MCShiftLists
  Misread = {"p"}
SPECIFICATION FlowSpec
INVARIANTS
  MemoryMatchesTable
  MoveBacked
  MovesReported
CHECK_DEADLOCK FALSE
