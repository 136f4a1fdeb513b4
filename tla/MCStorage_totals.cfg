SPECIFICATION Spec
CONSTANTS
  AgentName = {"a1", "a2", "a3"}
  TaskId = {"t1", "t2", "t3"}
  Topic = {"rust", "prompting"}
  Session = {"x", "y", "z"}
  Strategy = {"s1", "s2"}
  Blank = "blank"
  None = None
  Via = {"tcp"}
  MaxAgents = 1
  EventsPerAgent = 2
  RecentEvents = 3
  SessionsPerAgent = 1
  MaxTasks = 1
  MaxLessons = 1
  MaxSeq = 3
  Inputs <- AgentInputs
  Times <- OneTime
INVARIANTS
  TotalsCountEveryEvent
