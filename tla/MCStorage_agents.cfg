SPECIFICATION Spec
CONSTANTS
  AgentName = {"a1", "a2", "a3"}
  TaskId = {"t1", "t2", "t3"}
  Topic = {"rust", "prompting"}
  Session = {"x", "y", "z"}
  Strategy = {"s1", "s2"}
  Blank = "blank"
  None = None
  Via = {"tcp"}
  MaxAgents = 2
  EventsPerAgent = 2
  RecentEvents = 4
  SessionsPerAgent = 1
  MaxTasks = 1
  MaxLessons = 1
  MaxSeq = 5
  Inputs <- AgentInputs
  Times <- TwoTimes
INVARIANTS
  TypeOK
  CachesStayBounded
  RecentIsLatestWindow
  AgentsForgottenOnlyForOthers
  RingsHaveNoGaps
  SnapshotReplaysRing
