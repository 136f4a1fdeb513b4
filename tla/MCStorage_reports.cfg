SPECIFICATION Spec
CONSTANTS
  AgentName = {"a1", "a2", "a3"}
  TaskId = {"t1", "t2", "t3"}
  Topic = {"rust", "prompting"}
  Session = {"x", "y", "z"}
  Strategy = {"s1", "s2"}
  Blank = "blank"
  None = None
  Via = {"tcp"}
  MaxAgents = 1
  EventsPerAgent = 4
  RecentEvents = 5
  SessionsPerAgent = 2
  MaxTasks = 2
  MaxLessons = 0
  MaxSeq = 5
  Inputs <- ReportInputs
  Times <- TwoTimes
ACTION_CONSTRAINT OneSubject
INVARIANTS
  SessionsForgottenOnlyForOthers
  LessonsAreTheLatest
  ListsFollowTheLog
  TaskPageEnds
  OnlyCyclesAreHidden
  TasksForgottenOnlyForOthers
PROPERTIES
  SharedTasksStayMeta
