SPECIFICATION AppSpec
CONSTANTS
  AgentName = {"a1", "a2"}
  TaskId = {"t1"}
  Topic = {}
  Session = {}
  Strategy = {}
  Blank = "blank"
  None = None
  Malformed = Malformed
  Via = {"http", "tcp"}
  MaxAgents = 2
  EventsPerAgent = 2
  RecentEvents = 2
  SessionsPerAgent = 1
  MaxTasks = 1
  MaxLessons = 1
  MaxSeq = 4
  Inputs <- MixedInputs
  Payloads <- MixedPayloads
  Times <- Clock
  Workers = {"api", "conn"}
  TransportOf <- HttpAndTcp
  MaxBatch = 2
  MaxRequests = 2
  MaxClock = 1
CHECK_DEADLOCK FALSE
INVARIANTS
  AnswersAreTrue
  FeedKeepsRequestOrder
  FeedMatchesStore
  EveryNumberIsOneEvent
PROPERTIES
  ImplementsEventLog
  EveryRequestIsAnswered
