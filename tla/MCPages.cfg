SPECIFICATION PagesSpec
CONSTANTS
  AgentName = {"a1", "a2", "a3"}
  TaskId = {}
  Topic = {}
  Session = {}
  Strategy = {"s1"}
  Blank = "blank"
  None = None
  Via = {"tcp"}
  MaxAgents = 2
  EventsPerAgent = 4
  RecentEvents = 3
  SessionsPerAgent = 1
  MaxTasks = 1
  MaxLessons = 1
  MaxSeq = 4
  Inputs <- PagesInputs
  Times <- ThreeTimes
  Browsers = {"b1"}
  DashboardRows = 2
  TimelineEvents = 3
INVARIANTS
  DashboardMissesNoOldAgent
  TimelineBearsTheHeaderOut
  ChartFitsTheAgent
