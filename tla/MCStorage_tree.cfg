SPECIFICATION Spec
CONSTANTS
  AgentName = {"a1", "a2", "a3"}
  TaskId = {"t1", "t2", "t3"}
  Topic = {"rust", "prompting"}
  Session = {"x", "y", "z"}
  Strategy = {"s1", "s2"}
  Blank = "blank"
  None = None
  Via = {"tcp"}
  MaxAgents = 2
  EventsPerAgent = 1
  RecentEvents = 6
  SessionsPerAgent = 1
  MaxTasks = 2
  MaxLessons = 1
  MaxSeq = 6
  Inputs <- TaskInputs
  Times <- OneTime
INVARIANTS
  EveryTaskIsInATree
