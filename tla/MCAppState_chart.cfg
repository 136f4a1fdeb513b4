SPECIFICATION AppSpec
CONSTANTS
  AgentName = {"a1", "a2"}
  TaskId = {"t1"}
  Topic = {}
  Session = {}
  Strategy = {}
  Blank = "blank"
  None = None
  Malformed = Malformed
  Via = {"http", "tcp"}
  MaxAgents = 2
  EventsPerAgent = 2
  RecentEvents = 2
  SessionsPerAgent = 1
  MaxTasks = 1
  MaxLessons = 1
  MaxSeq = 2
  Inputs <- BeatInputs
  Payloads <- BeatPayloads
  Times <- Clock
  Workers = {"conn1", "conn2"}
  TransportOf <- HttpAndTcp
  MaxBatch = 1
  MaxRequests = 2
  MaxClock = 1
CHECK_DEADLOCK FALSE
INVARIANTS
  RingsAreChronological
