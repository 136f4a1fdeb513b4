--------------------------- MODULE Storage_proofs ----------------------------
(***************************************************************************)
(* Theorems about the store, for every configuration, clock and input.     *)
(***************************************************************************)
EXTENDS Storage, Lru_proofs

\* A capacity is at least one.
LEMMA CapIsPositive ==
  ASSUME NEW n \in Nat
  PROVE  cap(n) \in Nat \ {0}
BY DEF cap

\* The fields of an event that passed validation.
LEMMA ValidatedEvent ==
  ASSUME NEW e \in Event, validated(e)
  PROVE  /\ e.agent \in AgentName
         /\ e.type = "register" =>
              e.provider \in Provider /\ e.session \in Session \cup {None}
         /\ e.type = "metacognition" =>
              e.confidence \in Confidence /\ e.strategy \in Strategy \cup {None}
         /\ e.type = "task" =>
              /\ e.task_id \in TaskId /\ e.parent_id \in AnyTask \cup {None}
              /\ e.percent \in Percent /\ e.meta \in BOOLEAN
         /\ e.type = "learning" => e.topic \in Topic
PROOF
<1>1. e.agent \in AnyName
  BY DEF Event, Register, Introspection, Metacognition, TaskReport, Learning,
         Heartbeat
<1>2. e.agent \in AgentName
  BY <1>1 DEF validated, agent_name, AnyName
<1>3. e.type = "register" => e \in Register
  BY DEF Event, Register, Introspection, Metacognition, TaskReport, Learning,
         Heartbeat
<1>4. e.type = "metacognition" => e \in Metacognition
  BY DEF Event, Register, Introspection, Metacognition, TaskReport, Learning,
         Heartbeat
<1>5. e.type = "task" => e \in TaskReport
  BY DEF Event, Register, Introspection, Metacognition, TaskReport, Learning,
         Heartbeat
<1>6. e.type = "learning" => e \in Learning
  BY DEF Event, Register, Introspection, Metacognition, TaskReport, Learning,
         Heartbeat
<1>7. e.type = "task" => e.task_id \in TaskId
  BY <1>5 DEF TaskReport, validated, AnyTask
<1>8. e.type = "learning" => e.topic \in Topic
  BY <1>6 DEF Learning, validated
<1> QED
  BY <1>2, <1>3, <1>4, <1>5, <1>7, <1>8 DEF Register, Metacognition, TaskReport

\* The stored form of an accepted event is a stored event with the next number.
LEMMA StoredIsTyped ==
  ASSUME StorageAssumption, seq \in 0 .. MaxSeq, seq < MaxSeq,
         NEW transport \in Via, NEW e \in Inputs, NEW now \in Times
  PROVE  /\ Stored(transport, e, now) \in StoredEvent
         /\ Stored(transport, e, now).event = e
         /\ Stored(transport, e, now).received_at_ms = now
         /\ Stored(transport, e, now).seq = seq + 1
         /\ seq + 1 \in 1 .. MaxSeq
         /\ now \in Nat
BY DEF StorageAssumption, Stored, StoredEvent

-----------------------------------------------------------------------------
(***************************************************************************)
(* Type correctness.                                                       *)
(***************************************************************************)

\* The record of an agent keeps its type when an event of the agent is recorded.
LEMMA UpdatedAgentIsTyped ==
  ASSUME NEW r, IsAgentRecord(r), NEW s \in StoredEvent, s.seq \in 1 .. MaxSeq,
         validated(s.event)
  PROVE  IsAgentRecord(UpdatedAgent(r, s))
PROOF
<1> DEFINE u == UpdatedAgent(r, s)
<1>1. s.event \in Event /\ s.received_at_ms \in Nat /\ s.seq \in Nat
  BY DEF StoredEvent
<1>2. UpdatedSnapshot(r.snapshot, s) \in AgentSnapshot
  BY <1>1, ValidatedEvent DEF UpdatedSnapshot, AgentSnapshot, IsAgentRecord
<1>3. /\ IsCache(Put(r.events, s.seq, s, s.seq, cap(EventsPerAgent)), 1 .. MaxSeq)
      /\ Values(Put(r.events, s.seq, s, s.seq, cap(EventsPerAgent)))
           \subseteq StoredEvent
  <2>1. IsCache(r.events, 1 .. MaxSeq) /\ Values(r.events) \subseteq StoredEvent
    BY DEF IsAgentRecord
  <2>2. /\ IsCache(Put(r.events, s.seq, s, s.seq, cap(EventsPerAgent)), 1 .. MaxSeq)
        /\ Values(Put(r.events, s.seq, s, s.seq, cap(EventsPerAgent)))
             \subseteq Values(r.events) \cup {s}
    BY <1>1, <2>1, PutIsCache
  <2> QED
    BY <2>1, <2>2
<1>4. /\ IsCache(UpdatedSessions(r.sessions, s), Session)
      /\ Values(UpdatedSessions(r.sessions, s)) \subseteq Nat
  <2>1. CASE s.event.type = "register" /\ s.event.session # None
    <3>1. s.event.session \in Session
      BY <1>1, <2>1, ValidatedEvent
    <3>2. UpdatedSessions(r.sessions, s)
            = Put(r.sessions, s.event.session, s.received_at_ms, s.seq,
                  cap(SessionsPerAgent))
      BY <2>1 DEF UpdatedSessions
    <3>3. IsCache(r.sessions, Session) /\ Values(r.sessions) \subseteq Nat
      BY DEF IsAgentRecord
    <3> DEFINE at == s.received_at_ms
               p == Put(r.sessions, s.event.session, at, s.seq,
                        cap(SessionsPerAgent))
    <3> HIDE DEF at
    <3>4. /\ IsCache(p, Session)
          /\ Values(p) \subseteq Values(r.sessions) \cup {at}
      BY <1>1, <3>1, <3>3, PutIsCache
    <3> QED
      BY <1>1, <3>2, <3>3, <3>4 DEF at
  <2>2. CASE ~(s.event.type = "register" /\ s.event.session # None)
    BY <2>2 DEF UpdatedSessions, IsAgentRecord
  <2> QED
    BY <2>1, <2>2
<1> QED
  BY <1>2, <1>3, <1>4 DEF UpdatedAgent, IsAgentRecord

\* So does the record the bookkeeping starts from, known or new.
LEMMA KnownAgentIsTyped ==
  ASSUME TypeOK, NEW name, NEW now \in Nat
  PROVE  IsAgentRecord(KnownAgent(name, now))
PROOF
<1>1. CASE name \in DOMAIN agents
  BY <1>1 DEF KnownAgent, TypeOK, Values
<1>2. CASE name \notin DOMAIN agents
  <2>1. NewAgent(now).snapshot \in AgentSnapshot
    BY DEF NewAgent, AgentSnapshot, Provider, Confidence
  <2>2. IsAgentRecord(NewAgent(now))
    <3>1. /\ NewAgent(now).events = EmptyCache
          /\ NewAgent(now).sessions = EmptyCache
          /\ NewAgent(now) = [snapshot |-> NewAgent(now).snapshot,
                              events |-> NewAgent(now).events,
                              sessions |-> NewAgent(now).sessions]
      BY DEF NewAgent
    <3> QED
      BY <2>1, <3>1, EmptyCacheIsCache DEF IsAgentRecord
  <2> QED
    BY <1>2, <2>2 DEF KnownAgent
<1> QED
  BY <1>1, <1>2

\* A task report leaves a task record behind.
LEMMA UpdatedTaskIsTyped ==
  ASSUME TypeOK, NEW s \in StoredEvent, validated(s.event), s.event.type = "task"
  PROVE  UpdatedTask(s) \in TaskRecord
PROOF
<1>1. s.event \in Event /\ s.received_at_ms \in Nat
  BY DEF StoredEvent
<1>2. /\ s.event.agent \in AgentName
      /\ s.event.parent_id \in AnyTask \cup {None}
      /\ s.event.percent \in Percent
      /\ s.event.meta \in BOOLEAN
  BY <1>1, ValidatedEvent
<1>3. s.event.task_id \in DOMAIN tasks =>
        tasks[s.event.task_id].val \in TaskRecord
  BY DEF TypeOK, Values
<1>4. UpdatedTask(s).agents \in SUBSET AgentName
  BY <1>2, <1>3 DEF UpdatedTask, TaskRecord
<1>5. UpdatedTask(s).meta \in BOOLEAN
  BY <1>2, <1>3 DEF UpdatedTask, TaskRecord
<1> QED
  BY <1>1, <1>2, <1>4, <1>5 DEF UpdatedTask, TaskRecord

\* One stored event keeps every cache typed (storage.rs:185-289).
LEMMA IngestKeepsTypes ==
  ASSUME StorageAssumption, TypeOK,
         NEW transport \in Via, NEW e \in Inputs, NEW now \in Times,
         Ingest(transport, e, now)
  PROVE  TypeOK'
PROOF
<1> DEFINE s == Stored(transport, e, now)
<1>1. /\ seq < MaxSeq /\ validated(e) /\ seq' = s.seq
      /\ RecordAgent(s) /\ RecordTask(s) /\ RecordLesson(s) /\ RecordRecent(s)
  BY DEF Ingest
<1>2. /\ s \in StoredEvent /\ s.event = e /\ s.received_at_ms = now
      /\ s.seq = seq + 1 /\ s.seq \in 1 .. MaxSeq /\ now \in Nat
      /\ s.seq \in Nat
  <2>1. seq \in 0 .. MaxSeq /\ seq \in Nat
    BY DEF TypeOK
  <2>2. /\ s \in StoredEvent /\ s.event = e /\ s.received_at_ms = now
        /\ s.seq = seq + 1 /\ seq + 1 \in 1 .. MaxSeq /\ now \in Nat
    BY <1>1, <2>1, StoredIsTyped
  <2> QED
    BY <2>1, <2>2
<1>3. e \in Event
  BY DEF StorageAssumption
<1> HIDE DEF s
<1>4. seq' \in 0 .. MaxSeq
  BY <1>1, <1>2
<1>5. IsCache(agents', AgentName) /\ \A r \in Values(agents') : IsAgentRecord(r)
  <2>1. e.agent \in AgentName
    BY <1>1, <1>3, ValidatedEvent
  <2>2. IsAgentRecord(UpdatedAgent(KnownAgent(e.agent, now), s))
    BY <1>1, <1>2, KnownAgentIsTyped, UpdatedAgentIsTyped
  <2>3. agents' = Put(agents, e.agent, UpdatedAgent(KnownAgent(e.agent, now), s),
                      s.seq, cap(MaxAgents))
    BY <1>1, <1>2 DEF RecordAgent, agent_name
  <2>4. /\ IsCache(agents', AgentName)
        /\ Values(agents') \subseteq
             Values(agents) \cup {UpdatedAgent(KnownAgent(e.agent, now), s)}
    <3>1. IsCache(agents, AgentName)
      BY DEF TypeOK
    <3> DEFINE u == UpdatedAgent(KnownAgent(e.agent, now), s)
               p == Put(agents, e.agent, u, s.seq, cap(MaxAgents))
    <3> HIDE DEF u
    <3>2. IsCache(p, AgentName) /\ Values(p) \subseteq Values(agents) \cup {u}
      BY <1>2, <2>1, <3>1, PutIsCache
    <3> QED
      BY <2>3, <3>2 DEF u
  <2>5. \A r \in Values(agents) : IsAgentRecord(r)
    BY DEF TypeOK
  <2> QED
    BY <2>2, <2>4, <2>5
<1>6. IsCache(recent', 1 .. MaxSeq) /\ Values(recent') \subseteq StoredEvent
  <2>1. IsCache(recent, 1 .. MaxSeq) /\ Values(recent) \subseteq StoredEvent
    BY DEF TypeOK
  <2>2. recent' = Put(recent, s.seq, s, s.seq, cap(RecentEvents))
    BY <1>1 DEF RecordRecent
  <2>3. /\ IsCache(recent', 1 .. MaxSeq)
        /\ Values(recent') \subseteq Values(recent) \cup {s}
    BY <1>2, <2>1, <2>2, PutIsCache, ZenonT(30)
  <2> QED
    BY <1>2, <2>1, <2>3
<1>7. IsCache(tasks', TaskId) /\ Values(tasks') \subseteq TaskRecord
  <2>1. CASE e.type = "task"
    <3>1. e.task_id \in TaskId
      BY <1>1, <1>3, <2>1, ValidatedEvent
    <3>2. UpdatedTask(s) \in TaskRecord
      BY <1>1, <1>2, <2>1, UpdatedTaskIsTyped
    <3>3. tasks' = Put(tasks, e.task_id, UpdatedTask(s), s.seq, cap(MaxTasks))
      BY <1>1, <1>2, <2>1 DEF RecordTask
    <3>4. IsCache(tasks, TaskId) /\ Values(tasks) \subseteq TaskRecord
      BY DEF TypeOK
    <3>5. /\ IsCache(tasks', TaskId)
          /\ Values(tasks') \subseteq Values(tasks) \cup {UpdatedTask(s)}
      BY <1>2, <3>1, <3>3, <3>4, PutIsCache, ZenonT(30)
    <3> QED
      BY <3>2, <3>4, <3>5
  <2>2. CASE e.type # "task"
    BY <1>1, <1>2, <2>2 DEF RecordTask, TypeOK
  <2> QED
    BY <2>1, <2>2
<1>8. IsCache(lessons', 1 .. MaxSeq) /\ Values(lessons') \subseteq Lesson
  <2>1. CASE e.type = "learning"
    <3>1. NewLesson(s) \in Lesson
      BY <1>1, <1>2, <1>3, <2>1, ValidatedEvent DEF NewLesson, Lesson
    <3>2. lessons' = Put(lessons, s.seq, NewLesson(s), s.seq, cap(MaxLessons))
      BY <1>1, <1>2, <2>1 DEF RecordLesson
    <3>3. IsCache(lessons, 1 .. MaxSeq) /\ Values(lessons) \subseteq Lesson
      BY DEF TypeOK
    <3>4. /\ IsCache(lessons', 1 .. MaxSeq)
          /\ Values(lessons') \subseteq Values(lessons) \cup {NewLesson(s)}
      BY <1>2, <3>2, <3>3, PutIsCache, ZenonT(30)
    <3> QED
      BY <3>1, <3>3, <3>4
  <2>2. CASE e.type # "learning"
    BY <1>1, <1>2, <2>2 DEF RecordLesson, TypeOK
  <2> QED
    BY <2>1, <2>2
<1> QED
  BY <1>4, <1>5, <1>6, <1>7, <1>8 DEF TypeOK

\* Every cache of the store always holds what it is declared to hold.
THEOREM TypeCorrect == Spec => []TypeOK
PROOF
<1>1. Init => TypeOK
  BY StorageAssumption, EmptyCacheIsCache DEF StorageAssumption, Init, TypeOK
<1>2. TypeOK /\ [Next]_storageVars => TypeOK'
  <2> SUFFICES ASSUME TypeOK, [Next]_storageVars PROVE TypeOK'
    OBVIOUS
  <2>1. ASSUME NEW transport \in Via, NEW e \in Inputs, NEW now \in Times,
               Ingest(transport, e, now)
        PROVE  TypeOK'
    BY <2>1, StorageAssumption, IngestKeepsTypes
  <2>2. ASSUME NEW name \in AgentName, Query(name)
        PROVE  TypeOK'
    BY <2>2 DEF Query, Peek, TypeOK, Values
  <2>3. CASE UNCHANGED storageVars
    BY <2>3 DEF storageVars, TypeOK
  <2> QED
    BY <2>1, <2>2, <2>3 DEF Next
<1> QED
  BY <1>1, <1>2, PTL DEF Spec

-----------------------------------------------------------------------------
(***************************************************************************)
(* The memory bound.                                                       *)
(***************************************************************************)

\* The caches an agent owns stay within their capacities.
AgentBounded(r) ==
  /\ Bounded(r.events, cap(EventsPerAgent))
  /\ Bounded(r.sessions, cap(SessionsPerAgent))

LEMMA UpdatedAgentIsBounded ==
  ASSUME StorageAssumption, NEW r, IsAgentRecord(r), AgentBounded(r), NEW s
  PROVE  AgentBounded(UpdatedAgent(r, s))
PROOF
<1>1. /\ cap(EventsPerAgent) \in Nat \ {0}
      /\ cap(SessionsPerAgent) \in Nat \ {0}
  BY CapIsPositive DEF StorageAssumption
<1>2. IsCache(r.events, 1 .. MaxSeq) /\ IsCache(r.sessions, Session)
  BY DEF IsAgentRecord
<1>3. Bounded(Put(r.events, s.seq, s, s.seq, cap(EventsPerAgent)),
              cap(EventsPerAgent))
  BY <1>1, <1>2, PutBounded DEF AgentBounded
<1>4. Bounded(UpdatedSessions(r.sessions, s), cap(SessionsPerAgent))
  <2>1. CASE s.event.type = "register" /\ s.event.session # None
    <3> DEFINE at == s.received_at_ms
    <3> HIDE DEF at
    <3>1. Bounded(Put(r.sessions, s.event.session, at, s.seq,
                      cap(SessionsPerAgent)), cap(SessionsPerAgent))
      BY <1>1, <1>2, PutBounded DEF AgentBounded
    <3> QED
      BY <2>1, <3>1 DEF UpdatedSessions, at
  <2>2. CASE ~(s.event.type = "register" /\ s.event.session # None)
    BY <2>2 DEF UpdatedSessions, AgentBounded
  <2> QED
    BY <2>1, <2>2
<1> QED
  BY <1>3, <1>4 DEF UpdatedAgent, AgentBounded

LEMMA KnownAgentIsBounded ==
  ASSUME StorageAssumption, CachesStayBounded, NEW name, NEW now
  PROVE  AgentBounded(KnownAgent(name, now))
PROOF
<1>1. CASE name \in DOMAIN agents
  BY <1>1 DEF KnownAgent, CachesStayBounded, AgentBounded
<1>2. CASE name \notin DOMAIN agents
  <2>1. /\ KnownAgent(name, now).events = EmptyCache
        /\ KnownAgent(name, now).sessions = EmptyCache
    BY <1>2 DEF KnownAgent, NewAgent
  <2>2. cap(EventsPerAgent) \in Nat /\ cap(SessionsPerAgent) \in Nat
    BY CapIsPositive DEF StorageAssumption
  <2> QED
    BY <2>1, <2>2, EmptyCacheIsCache DEF AgentBounded
<1> QED
  BY <1>1, <1>2

LEMMA IngestKeepsBounds ==
  ASSUME StorageAssumption, TypeOK, CachesStayBounded,
         NEW transport \in Via, NEW e \in Inputs, NEW now \in Times,
         Ingest(transport, e, now)
  PROVE  CachesStayBounded'
PROOF
<1> DEFINE s == Stored(transport, e, now)
<1>1. RecordAgent(s) /\ RecordTask(s) /\ RecordLesson(s) /\ RecordRecent(s)
  BY DEF Ingest
<1>2. /\ cap(MaxAgents) \in Nat \ {0} /\ cap(RecentEvents) \in Nat \ {0}
      /\ cap(MaxTasks) \in Nat \ {0} /\ cap(MaxLessons) \in Nat \ {0}
  BY CapIsPositive DEF StorageAssumption
<1>3. s.event = e /\ s.received_at_ms = now /\ now \in Nat
  BY DEF Stored, StorageAssumption
<1>4. /\ IsCache(agents, AgentName) /\ IsCache(recent, 1 .. MaxSeq)
      /\ IsCache(tasks, TaskId) /\ IsCache(lessons, 1 .. MaxSeq)
  BY DEF TypeOK
<1> HIDE DEF s
<1> DEFINE u == UpdatedAgent(KnownAgent(e.agent, now), s)
<1>5. agents' = Put(agents, e.agent, u, s.seq, cap(MaxAgents))
  BY <1>1, <1>3 DEF RecordAgent, agent_name
<1>6. AgentBounded(u)
  <2>1. IsAgentRecord(KnownAgent(e.agent, now))
    BY <1>3, KnownAgentIsTyped
  <2> QED
    BY <2>1, KnownAgentIsBounded, UpdatedAgentIsBounded
<1> HIDE DEF u
<1>7. Bounded(agents', cap(MaxAgents))
  BY <1>2, <1>4, <1>5, PutBounded DEF CachesStayBounded
<1>8. \A name \in DOMAIN agents' : AgentBounded(agents'[name].val)
  <2> SUFFICES ASSUME NEW name \in DOMAIN agents'
               PROVE  AgentBounded(agents'[name].val)
    OBVIOUS
  <2> DEFINE size == cap(MaxAgents)
             number == s.seq
             sender == e.agent
             p == Put(agents, sender, u, number, size)
  <2> HIDE DEF size, number, sender
  <2>0. /\ p[sender] = [val |-> u, used |-> number]
        /\ \A j \in DOMAIN p : j # sender => j \in DOMAIN agents /\ p[j] = agents[j]
    BY PutDomain, SMTT(30)
  <2> HIDE DEF p
  <2>1. CASE name = e.agent
    BY <1>5, <1>6, <2>0, <2>1 DEF p, size, number, sender
  <2>2. CASE name # e.agent
    <3>1. name \in DOMAIN agents /\ agents'[name] = agents[name]
      BY <1>5, <2>0, <2>2 DEF p, size, number, sender
    <3> QED
      BY <3>1 DEF CachesStayBounded, AgentBounded
  <2> QED
    BY <2>1, <2>2
<1>9. Bounded(recent', cap(RecentEvents))
  BY <1>1, <1>2, <1>4, PutBounded DEF RecordRecent, CachesStayBounded
<1>10. Bounded(tasks', cap(MaxTasks))
  BY <1>1, <1>2, <1>4, PutBounded DEF RecordTask, CachesStayBounded
<1>11. Bounded(lessons', cap(MaxLessons))
  BY <1>1, <1>2, <1>4, PutBounded DEF RecordLesson, CachesStayBounded
<1> QED
  BY <1>7, <1>8, <1>9, <1>10, <1>11 DEF CachesStayBounded, AgentBounded

\* Memory stays bounded for ever, whatever is configured and whatever is sent
\* (storage.rs:89-102, 130-131): no cache outgrows its capacity.
THEOREM BoundedForEver == Spec => []CachesStayBounded
PROOF
<1>1. Init => CachesStayBounded
  <2>1. /\ cap(MaxAgents) \in Nat /\ cap(RecentEvents) \in Nat
        /\ cap(MaxTasks) \in Nat /\ cap(MaxLessons) \in Nat
    BY StorageAssumption, CapIsPositive DEF StorageAssumption
  <2> QED
    BY <2>1, EmptyCacheIsCache DEF Init, CachesStayBounded
<1>2. TypeOK /\ CachesStayBounded /\ [Next]_storageVars => CachesStayBounded'
  <2> SUFFICES ASSUME TypeOK, CachesStayBounded, [Next]_storageVars
               PROVE  CachesStayBounded'
    OBVIOUS
  <2>1. ASSUME NEW transport \in Via, NEW e \in Inputs, NEW now \in Times,
               Ingest(transport, e, now)
        PROVE  CachesStayBounded'
    BY <2>1, StorageAssumption, IngestKeepsBounds
  <2>2. ASSUME NEW name \in AgentName, Query(name)
        PROVE  CachesStayBounded'
    BY <2>2 DEF Query, Peek, CachesStayBounded
  <2>3. CASE UNCHANGED storageVars
    BY <2>3 DEF storageVars, CachesStayBounded
  <2> QED
    BY <2>1, <2>2, <2>3 DEF Next
<1> QED
  BY <1>1, <1>2, TypeCorrect, PTL DEF Spec

-----------------------------------------------------------------------------
(***************************************************************************)
(* The global ring.                                                        *)
(***************************************************************************)

\* The inductive form of RecentIsLatestWindow: in the ring of recent events the
\* order of use is the order of the numbers, so the entry evicted is the one
\* with the least number.
RecentInv ==
  /\ RecentIsLatestWindow
  /\ \A i \in DOMAIN recent : recent[i].used = i

\* The numbers of the window that ends at n, and how many they are.
LEMMA WindowSize ==
  ASSUME NEW n \in Nat, NEW C \in Nat \ {0}
  PROVE  /\ IsFiniteSet({i \in 1 .. n : i > n - C})
         /\ Cardinality({i \in 1 .. n : i > n - C}) = IF n < C THEN n ELSE C
PROOF
<1> DEFINE D == {i \in 1 .. n : i > n - C}
<1>1. CASE n < C
  <2>1. D = 1 .. n
    BY <1>1
  <2>2. IsFiniteSet(1 .. n) /\ Cardinality(1 .. n) = n
    BY FS_Interval
  <2> HIDE DEF D
  <2>3. IsFiniteSet(D) /\ Cardinality(D) = IF n < C THEN n ELSE C
    BY <1>1, <2>1, <2>2
  <2> QED
    BY <2>3 DEF D
<1>2. CASE n >= C
  <2>1. D = (n - C + 1) .. n
    BY <1>2
  <2>2. IsFiniteSet((n - C + 1) .. n) /\ Cardinality((n - C + 1) .. n) = C
    BY <1>2, FS_Interval
  <2> HIDE DEF D
  <2>3. IsFiniteSet(D) /\ Cardinality(D) = IF n < C THEN n ELSE C
    BY <1>2, <2>1, <2>2
  <2> QED
    BY <2>3 DEF D
<1> QED
  BY <1>1, <1>2

LEMMA IngestKeepsWindow ==
  ASSUME StorageAssumption, TypeOK, RecentInv,
         NEW transport \in Via, NEW e \in Inputs, NEW now \in Times,
         Ingest(transport, e, now)
  PROVE  RecentInv'
PROOF
<1> DEFINE C == cap(RecentEvents)
           D == DOMAIN recent
           n == seq + 1
           s == Stored(transport, e, now)
<1>1. C \in Nat \ {0}
  BY CapIsPositive DEF StorageAssumption
<1>2. seq \in Nat /\ seq' = n /\ s.seq = n
  BY DEF TypeOK, Ingest, Stored
<1>3. recent' = Put(recent, n, s, n, C)
  BY <1>2 DEF Ingest, RecordRecent
<1>4. D = {i \in 1 .. seq : i > seq - C} /\ n \notin D
  BY <1>2 DEF RecentInv, RecentIsLatestWindow
<1>5. IsFiniteSet(D) /\ Cardinality(D) = IF seq < C THEN seq ELSE C
  <2> HIDE DEF C, D
  <2>1. /\ IsFiniteSet({i \in 1 .. seq : i > seq - C})
        /\ Cardinality({i \in 1 .. seq : i > seq - C}) = IF seq < C THEN seq ELSE C
    BY <1>1, <1>2, WindowSize
  <2> QED
    BY <1>4, <2>1
<1> HIDE DEF C, s
<1>6. DOMAIN recent' = {i \in 1 .. n : i > n - C}
  <2>1. DOMAIN recent' = Kept(recent, n, C) \cup {n}
    BY <1>3 DEF Put
  <2>2. CASE seq < C
    <3>1. Kept(recent, n, C) = D
      BY <1>2, <1>5, <2>2 DEF Kept
    <3> QED
      BY <1>1, <1>2, <1>4, <2>1, <2>2, <3>1
  <2>3. CASE ~(seq < C)
    <3>1. Kept(recent, n, C) = D \ {Oldest(recent)}
      BY <1>1, <1>2, <1>4, <1>5, <2>3 DEF Kept
    <3>2. seq - C + 1 \in D
      BY <1>1, <1>2, <1>4, <2>3
    <3>3. /\ Oldest(recent) \in D
          /\ \A j \in D : recent[Oldest(recent)].used <= recent[j].used
      BY <3>2, OldestIsLeastUsed DEF TypeOK
    <3>4. Oldest(recent) <= seq - C + 1
      BY <3>2, <3>3 DEF RecentInv
    <3>5. Oldest(recent) = seq - C + 1
      BY <1>1, <1>2, <1>4, <3>3, <3>4
    <3> QED
      BY <1>1, <1>2, <1>4, <2>1, <2>3, <3>1, <3>5
  <2> QED
    BY <2>2, <2>3
<1>7. /\ recent'[n] = [val |-> s, used |-> n]
      /\ \A j \in DOMAIN recent' : j # n => j \in D /\ recent'[j] = recent[j]
  BY <1>3, PutDomain
<1>8. \A i \in DOMAIN recent' : recent'[i].used = i /\ recent'[i].val.seq = i
  <2> SUFFICES ASSUME NEW i \in DOMAIN recent'
               PROVE  recent'[i].used = i /\ recent'[i].val.seq = i
    OBVIOUS
  <2>1. CASE i = n
    BY <1>2, <1>7, <2>1
  <2>2. CASE i # n
    BY <1>7, <2>2 DEF RecentInv, RecentIsLatestWindow
  <2> QED
    BY <2>1, <2>2
<1> QED
  BY <1>2, <1>6, <1>8 DEF RecentInv, RecentIsLatestWindow, C

\* What the other invariants of the store build on.
StoreBase == TypeOK /\ CachesStayBounded /\ RecentInv

LEMMA StoreBaseHolds == Spec => []StoreBase
PROOF
<1>1. Init => RecentInv
  BY EmptyCacheIsCache DEF Init, RecentInv, RecentIsLatestWindow
<1>2. TypeOK /\ RecentInv /\ [Next]_storageVars => RecentInv'
  <2> SUFFICES ASSUME TypeOK, RecentInv, [Next]_storageVars PROVE RecentInv'
    OBVIOUS
  <2>1. ASSUME NEW transport \in Via, NEW e \in Inputs, NEW now \in Times,
               Ingest(transport, e, now)
        PROVE  RecentInv'
    BY <2>1, StorageAssumption, IngestKeepsWindow
  <2>2. ASSUME NEW name \in AgentName, Query(name)
        PROVE  RecentInv'
    BY <2>2 DEF Query, RecentInv, RecentIsLatestWindow
  <2>3. CASE UNCHANGED storageVars
    BY <2>3 DEF storageVars, RecentInv, RecentIsLatestWindow
  <2> QED
    BY <2>1, <2>2, <2>3 DEF Next
<1>3. TypeOK /\ CachesStayBounded /\ RecentInv => StoreBase
  BY DEF StoreBase
<1> QED
  BY <1>1, <1>2, <1>3, TypeCorrect, BoundedForEver, PTL DEF Spec

\* What the dashboard and /api/events read is always the exact window of the
\* last events, in any configuration (storage.rs:287, 329-337).
THEOREM RecentIsAlwaysTheWindow == Spec => []RecentIsLatestWindow
PROOF
<1>1. StoreBase => RecentIsLatestWindow
  BY DEF StoreBase, RecentInv
<1> QED
  BY <1>1, StoreBaseHolds, PTL

-----------------------------------------------------------------------------
(***************************************************************************)
(* What is forgotten.  The global ring is the history that the caches of   *)
(* agents, tasks and lessons are compared with: each follows it.           *)
(***************************************************************************)

\* A step of `ingest`, taken apart once for the lemmas below.
Step(s) ==
  /\ s \in StoredEvent /\ s.seq = seq + 1 /\ seq' = seq + 1 /\ seq \in Nat
  /\ s.event \in Event /\ validated(s.event) /\ s.event.agent \in AgentName
  /\ s.received_at_ms \in Nat /\ s.seq \in 1 .. MaxSeq
  /\ RecordAgent(s) /\ RecordTask(s) /\ RecordLesson(s)
  /\ recent' = Put(recent, s.seq, s, s.seq, cap(RecentEvents))

LEMMA IngestIsStep ==
  ASSUME StorageAssumption, TypeOK,
         NEW transport \in Via, NEW e \in Inputs, NEW now \in Times,
         Ingest(transport, e, now)
  PROVE  Step(Stored(transport, e, now))
PROOF
<1> DEFINE s == Stored(transport, e, now)
<1>1. /\ seq < MaxSeq /\ validated(e) /\ seq' = s.seq
      /\ RecordAgent(s) /\ RecordTask(s) /\ RecordLesson(s) /\ RecordRecent(s)
  BY DEF Ingest
<1>2. seq \in 0 .. MaxSeq /\ seq \in Nat
  BY DEF TypeOK
<1>3. /\ s \in StoredEvent /\ s.event = e /\ s.received_at_ms = now
      /\ s.seq = seq + 1 /\ seq + 1 \in 1 .. MaxSeq /\ now \in Nat
  BY <1>1, <1>2, StoredIsTyped
<1>4. e \in Event
  BY DEF StorageAssumption
<1>5. e.agent \in AgentName
  BY <1>1, <1>4, ValidatedEvent
<1> HIDE DEF s
<1>6. recent' = Put(recent, s.seq, s, s.seq, cap(RecentEvents))
  BY <1>1 DEF RecordRecent
<1>7. s.event \in Event /\ validated(s.event) /\ s.event.agent \in AgentName
  BY <1>1, <1>3, <1>4, <1>5
<1>8. Step(s)
  BY <1>1, <1>2, <1>3, <1>6, <1>7 DEF Step
<1> QED
  BY <1>8 DEF s

\* The history gets one event longer and may lose its beginning.
LEMMA WindowMoves ==
  ASSUME StorageAssumption, TypeOK, RecentInv, RecentInv', NEW s, Step(s)
  PROVE  /\ DOMAIN recent \subseteq Nat /\ \A i \in DOMAIN recent : i <= seq
         /\ DOMAIN recent' \subseteq DOMAIN recent \cup {seq + 1}
         /\ seq + 1 \in DOMAIN recent' /\ seq + 1 \notin DOMAIN recent
         /\ recent'[seq + 1].val = s
         /\ \A i \in DOMAIN recent' : i # seq + 1 => recent'[i] = recent[i]
         /\ \A i \in DOMAIN recent', j \in DOMAIN recent : i <= j => j \in DOMAIN recent'
PROOF
<1> DEFINE C == cap(RecentEvents)
<1>1. C \in Nat \ {0} /\ seq \in Nat /\ seq' = seq + 1 /\ s.seq = seq + 1
  BY CapIsPositive DEF StorageAssumption, Step
<1>2. /\ DOMAIN recent = {i \in 1 .. seq : i > seq - C}
      /\ DOMAIN recent' = {i \in 1 .. seq + 1 : i > seq + 1 - C}
  BY <1>1 DEF RecentInv, RecentIsLatestWindow
<1> DEFINE n == s.seq
           size == C
<1>3. /\ recent'[n] = [val |-> s, used |-> n]
      /\ \A j \in DOMAIN recent' : j # n => j \in DOMAIN recent /\ recent'[j] = recent[j]
  <2>1. recent' = Put(recent, n, s, n, size)
    BY DEF Step
  <2> HIDE DEF n, size
  <2> QED
    BY <2>1, PutDomain
<1>4. recent'[seq + 1].val = s
  BY <1>1, <1>3
<1>5. \A i \in DOMAIN recent' : i # seq + 1 => i \in DOMAIN recent /\ recent'[i] = recent[i]
  BY <1>1, <1>3
<1> HIDE DEF C, n, size
<1>6. /\ DOMAIN recent \subseteq Nat /\ \A i \in DOMAIN recent : i <= seq
      /\ seq + 1 \in DOMAIN recent' /\ seq + 1 \notin DOMAIN recent
      /\ \A i \in DOMAIN recent', j \in DOMAIN recent : i <= j => j \in DOMAIN recent'
  BY <1>1, <1>2
<1> QED
  BY <1>4, <1>5, <1>6

\* A step of the store stores an event, or changes nothing.
LEMMA NextIsStep ==
  ASSUME StorageAssumption, TypeOK, [Next]_storageVars
  PROVE  (\E s \in StoredEvent : Step(s)) \/ UNCHANGED storageVars
PROOF
<1>1. ASSUME NEW transport \in Via, NEW e \in Inputs, NEW now \in Times,
             Ingest(transport, e, now)
      PROVE  \E s \in StoredEvent : Step(s)
  <2>1. Step(Stored(transport, e, now))
    BY <1>1, IngestIsStep
  <2>2. Stored(transport, e, now) \in StoredEvent
    BY <2>1 DEF Step
  <2> QED
    BY <2>1, <2>2
<1>2. ASSUME NEW name \in AgentName, Query(name)
      PROVE  UNCHANGED storageVars
  BY <1>2 DEF Query, Peek, storageVars
<1> QED
  BY <1>1, <1>2 DEF Next

\* No entry of a cache is ahead of the store.
UsedUpTo(c, n) == \A k \in DOMAIN c : c[k].used <= n

LEMMA PutUsedUpTo ==
  ASSUME NEW K, NEW c, IsCache(c, K), NEW n \in Nat, UsedUpTo(c, n),
         NEW k, NEW v, NEW C
  PROVE  UsedUpTo(Put(c, k, v, n + 1, C), n + 1)
PROOF
<1>1. PICK p : p = Put(c, k, v, n + 1, C)
  OBVIOUS
<1>2. /\ k \in DOMAIN p /\ p[k] = [val |-> v, used |-> n + 1]
      /\ \A j \in DOMAIN p : j # k => j \in DOMAIN c /\ p[j] = c[j]
  <2> DEFINE m == n + 1
  <2> HIDE DEF m
  <2>1. /\ k \in DOMAIN Put(c, k, v, m, C) /\ Put(c, k, v, m, C)[k] = [val |-> v, used |-> m]
        /\ \A j \in DOMAIN Put(c, k, v, m, C) :
             j # k => j \in DOMAIN c /\ Put(c, k, v, m, C)[j] = c[j]
    BY PutDomain
  <2> QED
    BY <1>1, <2>1 DEF m
<1>3. \A j \in DOMAIN c : c[j].used \in Nat /\ c[j].used <= n
  BY DEF IsCache, UsedUpTo
<1>4. ASSUME NEW j \in DOMAIN p PROVE p[j].used <= n + 1
  <2>1. CASE j = k
    BY <1>2, <2>1
  <2>2. CASE j # k
    BY <1>2, <1>3, <2>2
  <2> QED
    BY <2>1, <2>2
<1> QED
  BY <1>1, <1>4 DEF UsedUpTo

-----------------------------------------------------------------------------
\* The agents heard, as a history; the cache of agents follows it.
AgentLog == [i \in DOMAIN recent |-> RecentEvent(i).agent]

AgentsInv == Follows(agents, AgentLog, cap(MaxAgents)) /\ UsedUpTo(agents, seq)

LEMMA StepKeepsAgents ==
  ASSUME StorageAssumption, StoreBase, StoreBase', AgentsInv,
         NEW s \in StoredEvent, Step(s)
  PROVE  AgentsInv'
PROOF
<1> DEFINE C == cap(MaxAgents)
           name == s.event.agent
           u == UpdatedAgent(KnownAgent(name, s.received_at_ms), s)
           n == seq + 1
<1>1. C \in Nat \ {0} /\ seq \in Nat /\ n \in Nat /\ s.seq = n /\ seq' = n
  BY CapIsPositive DEF StorageAssumption, Step
<1>2. agents' = Put(agents, name, u, n, C)
  BY <1>1 DEF Step, RecordAgent, agent_name
<1>3. IsCache(agents, AgentName) /\ Bounded(agents, C)
  BY DEF StoreBase, TypeOK, CachesStayBounded
<1>4. PICK f, h : f = AgentLog /\ h = AgentLog'
  OBVIOUS
<1>5. DOMAIN f = DOMAIN recent /\ \A i \in DOMAIN recent : f[i] = recent[i].val.event.agent
  BY <1>4 DEF AgentLog, RecentEvent
<1>6. DOMAIN h = DOMAIN recent' /\ \A i \in DOMAIN recent' : h[i] = recent'[i].val.event.agent
  BY <1>4 DEF AgentLog, RecentEvent
<1>7. /\ DOMAIN recent \subseteq Nat /\ \A i \in DOMAIN recent : i <= seq
      /\ DOMAIN recent' \subseteq DOMAIN recent \cup {n} /\ n \in DOMAIN recent'
      /\ recent'[n].val = s
      /\ \A i \in DOMAIN recent' : i # n => recent'[i] = recent[i]
      /\ \A i \in DOMAIN recent', j \in DOMAIN recent : i <= j => j \in DOMAIN recent'
  BY WindowMoves DEF StoreBase
<1>8. Follows(agents, f, C) /\ UsedUpTo(agents, seq)
  BY <1>4 DEF AgentsInv
<1>9. \A j \in DOMAIN agents : agents[j].used < n
  <2>1. \A j \in DOMAIN agents : agents[j].used \in Nat /\ agents[j].used <= seq
    BY <1>3, <1>8 DEF IsCache, UsedUpTo
  <2> QED
    BY <1>1, <2>1
<1>10. /\ DOMAIN f \subseteq Nat /\ \A i \in DOMAIN f : i < n
       /\ n \in DOMAIN h /\ h[n] = name
       /\ \A i \in DOMAIN h : i # n => i \in DOMAIN f /\ h[i] = f[i]
       /\ \A i \in DOMAIN h, j \in DOMAIN f : i <= j => j \in DOMAIN h
  BY <1>1, <1>5, <1>6, <1>7
<1> HIDE DEF C, name, u, n
<1>11. Follows(agents', h, C)
  BY <1>1, <1>2, <1>3, <1>8, <1>9, <1>10, PutFollowsOn
<1>12. UsedUpTo(agents', seq')
  BY <1>1, <1>2, <1>3, <1>8, PutUsedUpTo DEF n
<1> QED
  BY <1>4, <1>11, <1>12 DEF AgentsInv, C

LEMMA AgentsInvHolds == Spec => []AgentsInv
PROOF
<1>1. Init => AgentsInv
  BY EmptyCacheIsCache DEF Init, AgentsInv, Follows, UsedUpTo, AgentLog
<1>2. StoreBase /\ StoreBase' /\ AgentsInv /\ [Next]_storageVars => AgentsInv'
  <2> SUFFICES ASSUME StoreBase, StoreBase', AgentsInv, [Next]_storageVars
               PROVE  AgentsInv'
    OBVIOUS
  <2>1. ASSUME NEW s \in StoredEvent, Step(s) PROVE AgentsInv'
    BY <2>1, StorageAssumption, StepKeepsAgents
  <2>2. CASE UNCHANGED storageVars
    BY <2>2 DEF storageVars, AgentsInv, AgentLog, RecentEvent
  <2> QED
    BY <2>1, <2>2, StorageAssumption, NextIsStep DEF StoreBase
<1> QED
  BY <1>1, <1>2, StoreBaseHolds, PTL DEF Spec

\* An agent is forgotten only when as many others as there are places were heard
\* from after it, whatever it or they sent (storage.rs:115-136, 316-320).
THEOREM AgentsAlwaysForgottenForOthers == Spec => []AgentsForgottenOnlyForOthers
PROOF
<1>1. StoreBase /\ AgentsInv => AgentsForgottenOnlyForOthers
  <2> SUFFICES ASSUME StoreBase, AgentsInv, NEW i \in DOMAIN recent,
                      RecentEvent(i).agent \notin DOMAIN agents
               PROVE  Cardinality({RecentEvent(j).agent : j \in After(i)}
                                    \ {RecentEvent(i).agent}) >= cap(MaxAgents)
    BY DEF AgentsForgottenOnlyForOthers
  <2> DEFINE f == AgentLog
  <2>1. DOMAIN f = DOMAIN recent /\ \A j \in DOMAIN recent : f[j] = RecentEvent(j).agent
    BY DEF AgentLog
  <2>2. /\ IsCache(agents, AgentName) /\ cap(MaxAgents) \in Nat
        /\ Follows(agents, f, cap(MaxAgents))
        /\ DOMAIN recent \subseteq Nat /\ IsFiniteSet(DOMAIN recent)
    BY StorageAssumption, CapIsPositive
       DEF StoreBase, TypeOK, AgentsInv, StorageAssumption, CachesStayBounded, Bounded, IsCache
  <2> HIDE DEF f
  <2>3. Cardinality({f[j] : j \in {m \in DOMAIN f : m > i}} \ {f[i]}) >= cap(MaxAgents)
    BY <2>1, <2>2, ForgottenForOthers
  <2>4. {f[j] : j \in {m \in DOMAIN f : m > i}} = {RecentEvent(j).agent : j \in After(i)}
    BY <2>1 DEF After
  <2> QED
    BY <2>1, <2>3, <2>4
<1> QED
  BY <1>1, StoreBaseHolds, AgentsInvHolds, PTL

-----------------------------------------------------------------------------
\* The tasks reported on, as a history; the cache of tasks follows it.
TaskLog == [i \in {j \in DOMAIN recent : RecentEvent(j).type = "task"} |->
              RecentEvent(i).task_id]

\* A node shows a report, and shows it as the last one.
Shows(node, s) == s.event.agent \in node.agents /\ (s.event.meta => node.meta)
ShowsLast(node, s) ==
  /\ node.parent_id = s.event.parent_id /\ node.percent = s.event.percent
  /\ node.updated_at_ms = s.received_at_ms

\* Report i, in a history f of reports on tasks kept in tk: many others were
\* reported on since, or its task shows it.
ReportKept(f, tk, i, s) ==
  \/ Cardinality({f[j] : j \in {m \in DOMAIN f : m > i}} \ {f[i]}) >= cap(MaxTasks)
  \/ /\ f[i] \in DOMAIN tk
     /\ Shows(tk[f[i]].val, s)
     /\ (\A j \in DOMAIN f : j > i => f[j] # f[i]) => ShowsLast(tk[f[i]].val, s)

TasksInv ==
  /\ Follows(tasks, TaskLog, cap(MaxTasks))
  /\ UsedUpTo(tasks, seq)
  /\ \A i \in DOMAIN TaskLog : ReportKept(TaskLog, tasks, i, recent[i].val)

\* The node a report leaves behind shows it.
LEMMA UpdatedTaskShows ==
  ASSUME NEW s \in StoredEvent, validated(s.event), s.event.type = "task"
  PROVE  Shows(UpdatedTask(s), s) /\ ShowsLast(UpdatedTask(s), s)
PROOF
<1>1. s.event.meta \in BOOLEAN
  BY ValidatedEvent DEF StoredEvent
<1>2. s.event.agent \in UpdatedTask(s).agents
  BY DEF UpdatedTask
<1>3. s.event.meta => UpdatedTask(s).meta
  BY <1>1 DEF UpdatedTask
<1>4. ShowsLast(UpdatedTask(s), s)
  BY DEF UpdatedTask, ShowsLast
<1> QED
  BY <1>2, <1>3, <1>4 DEF Shows

\* What a report does to the node it is about, if the node is known: it adds the
\* reporter, and never clears the flag.
LEMMA ReportKeepsNode ==
  ASSUME NEW s
  PROVE  /\ Cardinality(UpdatedTask(s).agents) > 1 => UpdatedTask(s).meta
         /\ s.event.task_id \in DOMAIN tasks =>
              /\ tasks[s.event.task_id].val.agents \subseteq UpdatedTask(s).agents
              /\ tasks[s.event.task_id].val.meta => UpdatedTask(s).meta
PROOF
<1>1. CASE s.event.task_id \in DOMAIN tasks
  BY <1>1 DEF UpdatedTask
<1>2. CASE s.event.task_id \notin DOMAIN tasks
  <2>1. UpdatedTask(s).agents = {s.event.agent}
    BY <1>2 DEF UpdatedTask
  <2>2. Cardinality({s.event.agent}) = 1
    BY FS_Singleton
  <2> QED
    BY <1>2, <2>1, <2>2
<1> QED
  BY <1>1, <1>2

\* A report kept stays kept when another report is stored.
LEMMA ReportStaysKept ==
  ASSUME StorageAssumption, NEW f, NEW h, NEW n \in Nat, NEW s, NEW old,
         NEW i \in DOMAIN f \cap DOMAIN h, i \in Nat, i < n, ReportKept(f, tasks, i, old),
         IsCache(tasks', TaskId), Follows(tasks', h, cap(MaxTasks)),
         DOMAIN h \subseteq Nat, IsFiniteSet(DOMAIN h),
         n \in DOMAIN h, h[n] = s.event.task_id,
         \A j \in DOMAIN f : j > i => j \in DOMAIN h,
         \A j \in DOMAIN f \cap DOMAIN h : h[j] = f[j],
         tasks' = Put(tasks, s.event.task_id, UpdatedTask(s), n, cap(MaxTasks))
  PROVE  ReportKept(h, tasks', i, old)
PROOF
<1> DEFINE t0 == s.event.task_id
           u == UpdatedTask(s)
           oldOthers == {f[j] : j \in {m \in DOMAIN f : m > i}} \ {f[i]}
           others == {h[j] : j \in {m \in DOMAIN h : m > i}} \ {h[i]}
<1>1. cap(MaxTasks) \in Nat /\ h[i] = f[i]
  BY CapIsPositive DEF StorageAssumption
<1>2. /\ Cardinality(oldOthers) \in Nat /\ Cardinality(others) \in Nat
      /\ Cardinality(oldOthers) <= Cardinality(others)
  BY OthersGrow
<1>3. /\ t0 \in DOMAIN tasks'
      /\ tasks'[t0] = [val |-> u, used |-> n]
      /\ \A t \in DOMAIN tasks' : t # t0 => t \in DOMAIN tasks /\ tasks'[t] = tasks[t]
  <2> HIDE DEF t0, u
  <2>1. tasks' = Put(tasks, t0, u, n, cap(MaxTasks))
    BY DEF t0, u
  <2> QED
    BY <2>1, PutDomain
<1>4. t0 \in DOMAIN tasks =>
        tasks[t0].val.agents \subseteq u.agents /\ (tasks[t0].val.meta => u.meta)
  BY ReportKeepsNode
<1>5. h[i] \notin DOMAIN tasks' => Cardinality(others) >= cap(MaxTasks)
  BY <1>1, ForgottenForOthers
<1>6. tasks'[t0].val = u
  BY <1>3
<1> HIDE DEF u, oldOthers, others
<1>7. CASE Cardinality(oldOthers) >= cap(MaxTasks)
  BY <1>1, <1>2, <1>7 DEF ReportKept, others
<1>8. CASE /\ ~(Cardinality(oldOthers) >= cap(MaxTasks))
           /\ h[i] \in DOMAIN tasks'
  <2>1. /\ f[i] \in DOMAIN tasks /\ Shows(tasks[f[i]].val, old)
        /\ (\A j \in DOMAIN f : j > i => f[j] # f[i]) => ShowsLast(tasks[f[i]].val, old)
    BY <1>8 DEF ReportKept, oldOthers
  <2>2. CASE f[i] = t0
    <3>1. Shows(tasks'[h[i]].val, old)
      BY <1>1, <1>4, <1>6, <2>1, <2>2 DEF Shows
    <3>2. ~\A j \in DOMAIN h : j > i => h[j] # h[i]
      BY <1>1, <2>2
    <3> QED
      BY <1>8, <3>1, <3>2 DEF ReportKept
  <2>3. CASE f[i] # t0
    <3>1. tasks'[h[i]] = tasks[f[i]]
      BY <1>1, <1>3, <1>8, <2>3
    <3>2. (\A j \in DOMAIN h : j > i => h[j] # h[i]) =>
            \A j \in DOMAIN f : j > i => f[j] # f[i]
      BY <1>1
    <3> QED
      BY <1>8, <2>1, <3>1, <3>2 DEF ReportKept
  <2> QED
    BY <2>2, <2>3
<1> QED
  BY <1>5, <1>7, <1>8 DEF ReportKept, others

LEMMA StepKeepsTasks ==
  ASSUME StorageAssumption, StoreBase, StoreBase', TasksInv,
         NEW s \in StoredEvent, Step(s)
  PROVE  TasksInv'
PROOF
<1> DEFINE C == cap(MaxTasks)
           n == seq + 1
<1>1. C \in Nat \ {0} /\ seq \in Nat /\ n \in Nat /\ s.seq = n /\ seq' = n
  BY CapIsPositive DEF StorageAssumption, Step
<1>2. IsCache(tasks, TaskId) /\ Bounded(tasks, C) /\ IsCache(tasks', TaskId)
  BY DEF StoreBase, TypeOK, CachesStayBounded
<1>3. PICK f, h : f = TaskLog /\ h = TaskLog'
  OBVIOUS
<1>4. /\ DOMAIN f = {j \in DOMAIN recent : recent[j].val.event.type = "task"}
      /\ \A i \in DOMAIN f : f[i] = recent[i].val.event.task_id
  BY <1>3 DEF TaskLog, RecentEvent
<1>5. /\ DOMAIN h = {j \in DOMAIN recent' : recent'[j].val.event.type = "task"}
      /\ \A i \in DOMAIN h : h[i] = recent'[i].val.event.task_id
  BY <1>3 DEF TaskLog, RecentEvent
<1>6. /\ DOMAIN recent \subseteq Nat /\ \A i \in DOMAIN recent : i <= seq
      /\ DOMAIN recent' \subseteq DOMAIN recent \cup {n} /\ n \in DOMAIN recent'
      /\ recent'[n].val = s
      /\ \A i \in DOMAIN recent' : i # n => recent'[i] = recent[i]
      /\ \A i \in DOMAIN recent', j \in DOMAIN recent : i <= j => j \in DOMAIN recent'
  BY WindowMoves DEF StoreBase
<1>7. /\ Follows(tasks, f, C) /\ UsedUpTo(tasks, seq)
      /\ \A i \in DOMAIN f : ReportKept(f, tasks, i, recent[i].val)
  BY <1>3 DEF TasksInv
<1>8. IsFiniteSet(DOMAIN h) /\ DOMAIN h \subseteq Nat
  <2>1. IsFiniteSet(DOMAIN recent') /\ DOMAIN recent' \subseteq Nat
    BY DEF StoreBase, CachesStayBounded, Bounded, TypeOK, IsCache
  <2> QED
    BY <1>5, <2>1, FS_Subset
<1> HIDE DEF C
<1>9. /\ DOMAIN f \subseteq Nat /\ \A i \in DOMAIN f : i < n
      /\ \A i \in DOMAIN h : i # n => i \in DOMAIN f /\ h[i] = f[i]
      /\ \A i \in DOMAIN h, j \in DOMAIN f : i <= j => j \in DOMAIN h
      /\ \A i \in DOMAIN h : i # n => recent'[i].val = recent[i].val
  <2>1. n \notin DOMAIN recent
    BY <1>1, <1>6
  <2>2. DOMAIN f \subseteq Nat /\ \A i \in DOMAIN f : i < n
    BY <1>1, <1>4, <1>6
  <2>3. \A i \in DOMAIN h : i # n => i \in DOMAIN f /\ h[i] = f[i]
    BY <1>4, <1>5, <1>6
  <2>4. \A i \in DOMAIN h, j \in DOMAIN f : i <= j => j \in DOMAIN h
    <3> HIDE DEF n
    <3> SUFFICES ASSUME NEW i \in DOMAIN h, NEW j \in DOMAIN f, i <= j PROVE j \in DOMAIN h
      OBVIOUS
    <3>1. j \in DOMAIN recent /\ j \in DOMAIN recent' /\ j # n
      BY <1>4, <1>5, <1>6, <2>1
    <3> QED
      BY <1>4, <1>5, <1>6, <3>1
  <2> QED
    BY <1>5, <1>6, <2>2, <2>3, <2>4
<1>10. CASE s.event.type # "task"
  <2>1. tasks' = tasks
    BY <1>10 DEF Step, RecordTask
  <2>2. n \notin DOMAIN h
    BY <1>5, <1>6, <1>10
  <2>3. EndOf(h, f)
    BY <1>9, <2>2 DEF EndOf
  <2>4. Follows(tasks, h, C)
    BY <1>2, <1>7, <2>3, EndIsFollowed
  <2>5. UsedUpTo(tasks, n)
    <3>1. \A k \in DOMAIN tasks : tasks[k].used \in Nat /\ tasks[k].used <= seq
      BY <1>2, <1>7 DEF IsCache, UsedUpTo
    <3> QED
      BY <1>1, <3>1 DEF UsedUpTo
  <2>6. ASSUME NEW i \in DOMAIN h PROVE ReportKept(h, tasks, i, recent'[i].val)
    <3>1. i # n /\ i \in DOMAIN f /\ recent'[i].val = recent[i].val /\ i \in Nat
      BY <1>8, <1>9, <2>2
    <3>2. \A j \in DOMAIN f : j > i => j \in DOMAIN h /\ h[j] = f[j]
      BY <1>9, <2>2, <3>1
    <3>3. {m \in DOMAIN f : m > i} = {m \in DOMAIN h : m > i}
      BY <1>9, <2>2, <3>2
    <3>4. {f[j] : j \in {m \in DOMAIN f : m > i}} \ {f[i]}
            = {h[j] : j \in {m \in DOMAIN h : m > i}} \ {h[i]}
      BY <1>9, <2>2, <3>2, <3>3
    <3>5. (\A j \in DOMAIN h : j > i => h[j] # h[i]) =>
            \A j \in DOMAIN f : j > i => f[j] # f[i]
      BY <1>9, <2>2, <3>2
    <3>6. h[i] = f[i] /\ ReportKept(f, tasks, i, recent[i].val)
      BY <1>7, <1>9, <2>2, <3>1
    <3> QED
      BY <3>1, <3>4, <3>5, <3>6 DEF ReportKept
  <2> QED
    BY <1>1, <1>3, <2>1, <2>4, <2>5, <2>6 DEF TasksInv, C
<1>11. CASE s.event.type = "task"
  <2> DEFINE t0 == s.event.task_id
             u == UpdatedTask(s)
  <2>1. tasks' = Put(tasks, t0, u, n, C)
    BY <1>1, <1>11 DEF Step, RecordTask, C
  <2>2. n \in DOMAIN h /\ h[n] = t0
    BY <1>5, <1>6, <1>11
  <2>3. \A j \in DOMAIN tasks : tasks[j].used < n
    <3>1. \A j \in DOMAIN tasks : tasks[j].used \in Nat /\ tasks[j].used <= seq
      BY <1>2, <1>7 DEF IsCache, UsedUpTo
    <3> QED
      BY <1>1, <3>1
  <2>4. Follows(tasks', h, C)
    <3> HIDE DEF n, t0, u
    <3> QED
      BY <1>1, <1>2, <1>7, <1>9, <2>1, <2>2, <2>3, PutFollowsOn
  <2>5. UsedUpTo(tasks', n)
    <3> HIDE DEF t0, u
    <3> QED
      BY <1>1, <1>2, <1>7, <2>1, PutUsedUpTo
  <2>6. ASSUME NEW i \in DOMAIN h PROVE ReportKept(h, tasks', i, recent'[i].val)
    <3>1. CASE i = n
      <4>1. t0 \in DOMAIN tasks' /\ tasks'[t0].val = u
        <5> HIDE DEF t0, u, n
        <5>1. /\ t0 \in DOMAIN tasks' /\ tasks'[t0] = [val |-> u, used |-> n]
          BY <2>1, PutDomain
        <5> QED
          BY <5>1
      <4>2. Shows(u, s) /\ ShowsLast(u, s)
        BY <1>11, UpdatedTaskShows DEF Step
      <4> HIDE DEF u
      <4> QED
        BY <1>6, <2>2, <3>1, <4>1, <4>2 DEF ReportKept
    <3>2. CASE i # n
      <4>1. i \in DOMAIN f /\ i \in Nat /\ i < n /\ recent'[i].val = recent[i].val
        BY <1>9, <3>2
      <4> DEFINE old == recent[i].val
      <4>2. ReportKept(f, tasks, i, old)
        BY <1>7, <4>1
      <4>3. /\ \A j \in DOMAIN f : j > i => j \in DOMAIN h
            /\ \A j \in DOMAIN f \cap DOMAIN h : h[j] = f[j]
        BY <1>9, <4>1
      <4> HIDE DEF n, old, u
      <4>4. ReportKept(h, tasks', i, old)
        BY <1>1, <1>2, <1>8, <2>1, <2>2, <2>4, <4>1, <4>2, <4>3, ReportStaysKept DEF C, u
      <4> QED
        BY <4>1, <4>4 DEF old
    <3> QED
      BY <3>1, <3>2
  <2> QED
    BY <1>1, <1>3, <2>4, <2>5, <2>6 DEF TasksInv, C
<1> QED
  BY <1>10, <1>11

LEMMA TasksInvHolds == Spec => []TasksInv
PROOF
<1>1. Init => TasksInv
  BY EmptyCacheIsCache DEF Init, TasksInv, Follows, UsedUpTo, TaskLog
<1>2. StoreBase /\ StoreBase' /\ TasksInv /\ [Next]_storageVars => TasksInv'
  <2> SUFFICES ASSUME StoreBase, StoreBase', TasksInv, [Next]_storageVars
               PROVE  TasksInv'
    OBVIOUS
  <2>1. ASSUME NEW s \in StoredEvent, Step(s) PROVE TasksInv'
    BY <2>1, StorageAssumption, StepKeepsTasks
  <2>2. CASE UNCHANGED storageVars
    BY <2>2 DEF storageVars, TasksInv, TaskLog, RecentEvent
  <2> QED
    BY <2>1, <2>2, StorageAssumption, NextIsStep DEF StoreBase
<1> QED
  BY <1>1, <1>2, StoreBaseHolds, PTL DEF Spec

\* A recent report on a task is always in its node, and the last one displayed,
\* unless as many other tasks as there are places were reported on since
\* (storage.rs:232-271).
THEOREM TasksAlwaysForgottenForOthers == Spec => []TasksForgottenOnlyForOthers
PROOF
<1>1. TasksInv => TasksForgottenOnlyForOthers
  <2> DEFINE f == TaskLog
             R == {j \in DOMAIN recent : RecentEvent(j).type = "task"}
  <2> SUFFICES
        ASSUME TasksInv, NEW i \in R
        PROVE  LET e == RecentEvent(i)
                   later == {j \in After(i) : RecentEvent(j).type = "task"}
                   others == {RecentEvent(j).task_id : j \in later} \ {e.task_id}
               IN  \/ Cardinality(others) >= cap(MaxTasks)
                   \/ /\ e.task_id \in DOMAIN tasks
                      /\ Shows(tasks[e.task_id].val, recent[i].val)
                      /\ (\A j \in later : RecentEvent(j).task_id # e.task_id) =>
                           ShowsLast(tasks[e.task_id].val, recent[i].val)
    BY DEF TasksForgottenOnlyForOthers, Shows, ShowsLast, RecentEvent
  <2>1. DOMAIN f = R /\ \A j \in R : f[j] = RecentEvent(j).task_id
    BY DEF TaskLog
  <2> DEFINE later == {j \in After(i) : RecentEvent(j).type = "task"}
  <2>2. later = {m \in DOMAIN f : m > i}
    BY <2>1 DEF After
  <2>3. ReportKept(f, tasks, i, recent[i].val)
    BY <2>1 DEF TasksInv
  <2> HIDE DEF f
  <2>4. {RecentEvent(j).task_id : j \in later} \ {RecentEvent(i).task_id}
          = {f[j] : j \in {m \in DOMAIN f : m > i}} \ {f[i]}
    BY <2>1, <2>2
  <2>5. (\A j \in later : RecentEvent(j).task_id # RecentEvent(i).task_id) =>
          \A j \in DOMAIN f : j > i => f[j] # f[i]
    BY <2>1, <2>2
  <2> QED
    BY <2>1, <2>3, <2>4, <2>5 DEF ReportKept
<1> QED
  BY <1>1, TasksInvHolds, PTL

-----------------------------------------------------------------------------
\* The learning events, as a history: the key of a lesson is its own moment.
LessonLog == [i \in {j \in DOMAIN recent : RecentEvent(j).type = "learning"} |-> i]

\* A lesson is what the stored event s taught.
Taught(lesson, s) ==
  /\ s.event.type = "learning"
  /\ lesson.agent = s.event.agent /\ lesson.topic = s.event.topic

LessonsInv ==
  /\ Follows(lessons, LessonLog, cap(MaxLessons))
  /\ \A i \in DOMAIN lessons :
       /\ lessons[i].used = i /\ i <= seq
       /\ i \in DOMAIN recent => Taught(lessons[i].val, recent[i].val)

LEMMA StepKeepsLessons ==
  ASSUME StorageAssumption, StoreBase, StoreBase', LessonsInv,
         NEW s \in StoredEvent, Step(s)
  PROVE  LessonsInv'
PROOF
<1> DEFINE C == cap(MaxLessons)
           n == seq + 1
<1>1. C \in Nat \ {0} /\ seq \in Nat /\ n \in Nat /\ s.seq = n /\ seq' = n
  BY CapIsPositive DEF StorageAssumption, Step
<1>2. IsCache(lessons, 1 .. MaxSeq) /\ Bounded(lessons, C)
  BY DEF StoreBase, TypeOK, CachesStayBounded
<1>3. PICK f, h : f = LessonLog /\ h = LessonLog'
  OBVIOUS
<1>4. /\ DOMAIN f = {j \in DOMAIN recent : recent[j].val.event.type = "learning"}
      /\ \A i \in DOMAIN f : f[i] = i
  BY <1>3 DEF LessonLog, RecentEvent
<1>5. /\ DOMAIN h = {j \in DOMAIN recent' : recent'[j].val.event.type = "learning"}
      /\ \A i \in DOMAIN h : h[i] = i
  BY <1>3 DEF LessonLog, RecentEvent
<1>6. /\ DOMAIN recent \subseteq Nat /\ \A i \in DOMAIN recent : i <= seq
      /\ DOMAIN recent' \subseteq DOMAIN recent \cup {n} /\ n \in DOMAIN recent'
      /\ recent'[n].val = s
      /\ \A i \in DOMAIN recent' : i # n => recent'[i] = recent[i]
      /\ \A i \in DOMAIN recent', j \in DOMAIN recent : i <= j => j \in DOMAIN recent'
  BY WindowMoves DEF StoreBase
<1>7. /\ Follows(lessons, f, C)
      /\ \A i \in DOMAIN lessons :
           /\ i \in Nat /\ i < n /\ lessons[i].used = i
           /\ i \in DOMAIN recent => Taught(lessons[i].val, recent[i].val)
  <2>1. \A i \in DOMAIN lessons : i \in Nat
    BY <1>2 DEF IsCache
  <2> QED
    BY <1>1, <1>3, <2>1 DEF LessonsInv
<1> HIDE DEF C
<1>8. /\ DOMAIN f \subseteq Nat /\ \A i \in DOMAIN f : i < n
      /\ \A i \in DOMAIN h : i # n => i \in DOMAIN f /\ h[i] = f[i]
      /\ \A i \in DOMAIN h, j \in DOMAIN f : i <= j => j \in DOMAIN h
  <2>1. n \notin DOMAIN recent
    BY <1>1, <1>6
  <2>2. DOMAIN f \subseteq Nat /\ \A i \in DOMAIN f : i < n
    BY <1>1, <1>4, <1>6
  <2>3. \A i \in DOMAIN h : i # n => i \in DOMAIN f /\ h[i] = f[i]
    BY <1>4, <1>5, <1>6
  <2>4. \A i \in DOMAIN h, j \in DOMAIN f : i <= j => j \in DOMAIN h
    <3> HIDE DEF n
    <3> SUFFICES ASSUME NEW i \in DOMAIN h, NEW j \in DOMAIN f, i <= j PROVE j \in DOMAIN h
      OBVIOUS
    <3>1. j \in DOMAIN recent /\ j \in DOMAIN recent' /\ j # n
      BY <1>4, <1>5, <1>6, <2>1
    <3> QED
      BY <1>4, <1>5, <1>6, <3>1
  <2> QED
    BY <2>2, <2>3, <2>4
<1>9. \A i \in DOMAIN lessons :
        i \in DOMAIN recent' => Taught(lessons[i].val, recent'[i].val)
  <2> SUFFICES ASSUME NEW i \in DOMAIN lessons, i \in DOMAIN recent'
               PROVE  Taught(lessons[i].val, recent'[i].val)
    OBVIOUS
  <2>1. i # n
    BY <1>1, <1>7
  <2>2. i \in DOMAIN recent /\ recent'[i] = recent[i]
    BY <1>6, <2>1
  <2> QED
    BY <1>7, <2>2
<1>10. CASE s.event.type # "learning"
  <2>1. lessons' = lessons
    BY <1>10 DEF Step, RecordLesson
  <2>2. n \notin DOMAIN h
    BY <1>5, <1>6, <1>10
  <2>3. EndOf(h, f)
    BY <1>8, <2>2 DEF EndOf
  <2>4. Follows(lessons, h, C)
    BY <1>2, <1>7, <2>3, EndIsFollowed
  <2>5. \A i \in DOMAIN lessons : i <= n
    BY <1>1, <1>7
  <2> QED
    BY <1>1, <1>3, <1>7, <1>9, <2>1, <2>4, <2>5 DEF LessonsInv, C
<1>11. CASE s.event.type = "learning"
  <2> DEFINE u == NewLesson(s)
  <2>1. lessons' = Put(lessons, n, u, n, C)
    BY <1>1, <1>11 DEF Step, RecordLesson, C
  <2>2. n \in DOMAIN h /\ h[n] = n
    BY <1>5, <1>6, <1>11
  <2>3. \A j \in DOMAIN lessons : lessons[j].used < n
    BY <1>7
  <2>4. Taught(u, s)
    BY <1>11 DEF Taught, NewLesson
  <2> HIDE DEF n, u
  <2>5. Follows(lessons', h, C)
    BY <1>1, <1>2, <1>7, <1>8, <2>1, <2>2, <2>3, PutFollowsOn
  <2>6. /\ lessons'[n] = [val |-> u, used |-> n]
        /\ \A j \in DOMAIN lessons' : j # n => j \in DOMAIN lessons /\ lessons'[j] = lessons[j]
    BY <2>1, PutDomain, SMTT(30)
  <2>7. ASSUME NEW i \in DOMAIN lessons'
        PROVE  /\ lessons'[i].used = i /\ i <= n
               /\ i \in DOMAIN recent' => Taught(lessons'[i].val, recent'[i].val)
    <3>1. CASE i = n
      BY <1>1, <1>6, <2>4, <2>6, <3>1
    <3>2. CASE i # n
      BY <1>1, <1>7, <1>9, <2>6, <3>2
    <3> QED
      BY <3>1, <3>2
  <2> QED
    BY <1>1, <1>3, <2>5, <2>7 DEF LessonsInv, C
<1> QED
  BY <1>10, <1>11

LEMMA LessonsInvHolds == Spec => []LessonsInv
PROOF
<1>1. Init => LessonsInv
  BY EmptyCacheIsCache DEF Init, LessonsInv, Follows, LessonLog
<1>2. StoreBase /\ StoreBase' /\ LessonsInv /\ [Next]_storageVars => LessonsInv'
  <2> SUFFICES ASSUME StoreBase, StoreBase', LessonsInv, [Next]_storageVars
               PROVE  LessonsInv'
    OBVIOUS
  <2>1. ASSUME NEW s \in StoredEvent, Step(s) PROVE LessonsInv'
    BY <2>1, StorageAssumption, StepKeepsLessons
  <2>2. CASE UNCHANGED storageVars
    BY <2>2 DEF storageVars, LessonsInv, LessonLog, RecentEvent
  <2> QED
    BY <2>1, <2>2, StorageAssumption, NextIsStep DEF StoreBase
<1> QED
  BY <1>1, <1>2, StoreBaseHolds, PTL DEF Spec

\* The lessons kept are always those of the latest learning events, as many as
\* there are places (storage.rs:274-285).
THEOREM LessonsAreAlwaysTheLatest == Spec => []LessonsAreTheLatest
PROOF
<1>1. StoreBase /\ LessonsInv => LessonsAreTheLatest
  <2> DEFINE f == LessonLog
             C == cap(MaxLessons)
             D == DOMAIN lessons
             L == {j \in DOMAIN recent : RecentEvent(j).type = "learning"}
  <2> SUFFICES
        ASSUME StoreBase, LessonsInv, NEW i \in L
        PROVE  LET later == {j \in After(i) : RecentEvent(j).type = "learning"}
               IN  IF Cardinality(later) >= C
                     THEN i \notin D
                     ELSE /\ i \in D
                          /\ lessons[i].val.agent = RecentEvent(i).agent
                          /\ lessons[i].val.topic = RecentEvent(i).topic
    BY DEF LessonsAreTheLatest
  <2> DEFINE later == {j \in After(i) : RecentEvent(j).type = "learning"}
  <2>1. DOMAIN f = L /\ \A j \in L : f[j] = j
    BY DEF LessonLog
  <2>2. later = {j \in L : j > i}
    BY DEF After
  <2>3. /\ IsFiniteSet(D) /\ Cardinality(D) <= C /\ C \in Nat \ {0}
        /\ L \subseteq Nat /\ IsFiniteSet(DOMAIN recent) /\ Follows(lessons, f, C)
        /\ \A k \in D : lessons[k].used = k /\ k \in Nat
    <3>1. C \in Nat \ {0}
      BY StorageAssumption, CapIsPositive DEF StorageAssumption
    <3> HIDE DEF C
    <3> QED
      BY <3>1 DEF StoreBase, TypeOK, LessonsInv, CachesStayBounded, Bounded, IsCache, C
  <2>4. IsFiniteSet(later) /\ Cardinality(later) \in Nat /\ Cardinality(D) \in Nat
    <3>1. later \subseteq DOMAIN recent
      BY <2>2
    <3> QED
      BY <2>3, <3>1, FS_Subset, FS_CardinalityType
  <2> HIDE DEF later, C, f
  <2>5. CASE i \notin D
    <3>1. Cardinality(D) >= C /\ \A k \in D : i < k
      BY <2>1, <2>3, <2>5 DEF Follows
    <3>2. D \subseteq later
      <4> SUFFICES ASSUME NEW k \in D PROVE k \in later
        OBVIOUS
      <4>1. i <= k /\ k > i
        BY <2>3, <3>1
      <4>2. k \in DOMAIN f
        BY <2>1, <2>3, <4>1 DEF Follows
      <4> QED
        BY <2>1, <2>2, <4>1, <4>2
    <3>3. Cardinality(D) <= Cardinality(later)
      BY <2>4, <3>2, FS_Subset
    <3>4. Cardinality(later) >= C
      BY <2>3, <2>4, <3>1, <3>3
    <3> QED
      BY <2>5, <3>4 DEF later
  <2>6. CASE i \in D
    <3>1. later \cup {i} \subseteq D
      <4> SUFFICES ASSUME NEW j \in later, j \notin D PROVE FALSE
        BY <2>6
      <4>1. j \in DOMAIN f /\ f[j] = j /\ j > i
        BY <2>1, <2>2
      <4>2. j < i
        BY <2>3, <2>6, <4>1 DEF Follows
      <4> QED
        BY <2>2, <2>3, <4>1, <4>2
    <3>2. i \notin later
      BY <2>2, <2>3
    <3>3. Cardinality(later \cup {i}) = Cardinality(later) + 1
      BY <2>4, <3>2, FS_AddElement
    <3>4. Cardinality(later \cup {i}) <= Cardinality(D)
      BY <2>3, <3>1, FS_Subset
    <3>5. ~(Cardinality(later) >= C)
      BY <2>3, <2>4, <3>3, <3>4
    <3>6. Taught(lessons[i].val, recent[i].val)
      BY <2>6 DEF LessonsInv
    <3> QED
      BY <2>6, <3>5, <3>6 DEF Taught, RecentEvent, later
  <2> QED
    BY <2>5, <2>6
<1> QED
  BY <1>1, StoreBaseHolds, LessonsInvHolds, PTL

-----------------------------------------------------------------------------
(***************************************************************************)
(* The record of an agent.  Each part of its invariant speaks of a record  *)
(* r, of the agent called name, in a store that has numbered n events.     *)
(***************************************************************************)

\* The ring is filled up to its capacity with events of the agent, in order.
RingIsFull(name, r, n) ==
  /\ \A i \in DOMAIN r.events :
       r.events[i].used = i /\ i <= n /\ r.events[i].val.event.agent = name
  /\ Cardinality(DOMAIN r.events) =
       IF r.snapshot.events_ingested < cap(EventsPerAgent)
         THEN r.snapshot.events_ingested ELSE cap(EventsPerAgent)

\* The ring agrees with the global ring g.
RingAgrees(name, ring, g) ==
  \A i \in {j \in DOMAIN g : g[j].val.event.agent = name} :
    IF i \in DOMAIN ring THEN ring[i].val = g[i].val ELSE \A j \in DOMAIN ring : j > i

\* The numbers in a ring of what each part of a snapshot is taken from.
Registers(ring) == {i \in DOMAIN ring : ring[i].val.event.type = "register"}
Rated(ring) == {i \in DOMAIN ring : /\ ring[i].val.event.type = "metacognition"
                                    /\ ring[i].val.event.confidence # None}
Shifts(ring) == {i \in DOMAIN ring : /\ ring[i].val.event.type = "metacognition"
                                     /\ ring[i].val.event.strategy # None}

\* i is the last of I.
LastOf(i, I) == i \in I /\ \A j \in I : j <= i

\* The snapshot is what the last events of the ring say.
Replayed(snap, ring) ==
  \A i \in DOMAIN ring :
    /\ LastOf(i, DOMAIN ring) => snap.last_seen_ms = ring[i].val.received_at_ms
    /\ LastOf(i, Registers(ring)) => snap.provider = ring[i].val.event.provider
    /\ LastOf(i, Rated(ring)) => snap.last_confidence = ring[i].val.event.confidence
    /\ LastOf(i, Shifts(ring)) => snap.current_strategy = ring[i].val.event.strategy

\* The sessions the ring shows, as a history; the cache of sessions follows it.
SessionLog(ring) ==
  [i \in {j \in Registers(ring) : ring[j].val.event.session # None} |->
     ring[i].val.event.session]

SessionsFollow(r, n) ==
  Follows(r.sessions, SessionLog(r.events), cap(SessionsPerAgent)) /\ UsedUpTo(r.sessions, n)

\* What no event in a ring that lacks none has said is as in a new record.
Unsaid(snap, ring) ==
  Cardinality(DOMAIN ring) = snap.events_ingested =>
    /\ Registers(ring) = {} => snap.provider = "other"
    /\ Rated(ring) = {} => snap.last_confidence = None
    /\ Shifts(ring) = {} => snap.current_strategy = None

RecordInv(name, r, n) ==
  /\ RingIsFull(name, r, n) /\ Replayed(r.snapshot, r.events)
  /\ Unsaid(r.snapshot, r.events) /\ SessionsFollow(r, n)

AgentRecordsInv ==
  \A name \in DOMAIN agents :
    /\ DOMAIN agents[name].val.events # {}
    /\ RecordInv(name, agents[name].val, seq)
    /\ RingAgrees(name, agents[name].val.events, recent)

\* What one more event does to the ring of its agent.
LEMMA UpdatedRing ==
  ASSUME StorageAssumption, NEW r, IsAgentRecord(r), AgentBounded(r),
         NEW name, NEW n \in Nat, RingIsFull(name, r, n),
         NEW s \in StoredEvent, s.seq = n + 1, s.event.agent = name
  PROVE  LET ring == r.events
             new == UpdatedAgent(r, s).events
         IN  /\ n + 1 \in DOMAIN new /\ new[n + 1].val = s
             /\ n + 1 \notin DOMAIN ring
             /\ \A i \in DOMAIN ring : i \in Nat /\ i <= n
             /\ \A i \in DOMAIN new : i # n + 1 => i \in DOMAIN ring /\ new[i] = ring[i]
             /\ \A i \in DOMAIN ring : i \notin DOMAIN new => \A j \in DOMAIN new : i < j
             /\ \A i \in DOMAIN new : i \in Nat
             /\ RingIsFull(name, UpdatedAgent(r, s), n + 1)
PROOF
<1> DEFINE ring == r.events
           m == n + 1
           C == cap(EventsPerAgent)
           new == Put(ring, m, s, m, C)
           count == r.snapshot.events_ingested
<1>1. C \in Nat \ {0}
  BY CapIsPositive DEF StorageAssumption
<1>2. IsCache(ring, 1 .. MaxSeq) /\ Bounded(ring, C) /\ count \in Nat
  BY DEF IsAgentRecord, AgentBounded, AgentSnapshot
<1>3. /\ UpdatedAgent(r, s).events = new
      /\ UpdatedAgent(r, s).snapshot.events_ingested = count + 1
  BY DEF UpdatedAgent, UpdatedSnapshot
<1>4. \A i \in DOMAIN ring : i \in Nat /\ i <= n /\ i < m /\ ring[i].used = i
                               /\ ring[i].val.event.agent = name
  <2>1. \A i \in DOMAIN ring : i \in Nat
    BY <1>2 DEF IsCache
  <2> QED
    BY <2>1 DEF RingIsFull
<1>5. Cardinality(DOMAIN ring) = IF count < C THEN count ELSE C
  BY DEF RingIsFull
<1> HIDE DEF ring, C, count
<1>6. /\ m \in DOMAIN new /\ new[m].val = s
      /\ \A i \in DOMAIN new : i # m => i \in DOMAIN ring /\ new[i] = ring[i]
      /\ \A i \in DOMAIN new : new[i].used = i /\ i \in Nat /\ i <= m
      /\ \A i \in DOMAIN ring : i \notin DOMAIN new => \A j \in DOMAIN new : i < j
      /\ Cardinality(DOMAIN new) =
           IF Cardinality(DOMAIN ring) < C THEN Cardinality(DOMAIN ring) + 1 ELSE C
  <2> HIDE DEF m
  <2>1. m \in Nat
    BY DEF m
  <2> QED
    BY <1>1, <1>2, <1>4, <2>1, RingPut
<1> HIDE DEF new
<1>7. Cardinality(DOMAIN new) = IF count + 1 < C THEN count + 1 ELSE C
  BY <1>1, <1>2, <1>5, <1>6
<1>8. \A i \in DOMAIN new : new[i].val.event.agent = name
  BY <1>4, <1>6
<1>9. RingIsFull(name, UpdatedAgent(r, s), m)
  BY <1>3, <1>6, <1>7, <1>8 DEF RingIsFull, C
<1>10. m \notin DOMAIN ring
  BY <1>4
<1> QED
  BY <1>3, <1>4, <1>6, <1>9, <1>10 DEF ring

\* The last of a set of numbers in the old ring is still the last of those that
\* are left in the new one, if any is left.
LEMMA LastStays ==
  ASSUME NEW ring, NEW new, NEW I, NEW J, I \subseteq DOMAIN ring,
         DOMAIN ring \subseteq Nat, DOMAIN new \subseteq Nat,
         \A i \in DOMAIN ring : i \notin DOMAIN new => \A j \in DOMAIN new : i < j,
         J \subseteq DOMAIN new, J = I \cap DOMAIN new, NEW i, LastOf(i, J)
  PROVE  LastOf(i, I)
PROOF
<1>1. i \in I /\ i \in DOMAIN new /\ i \in Nat
  BY DEF LastOf
<1>2. ASSUME NEW j \in I PROVE j <= i
  <2>1. j \in DOMAIN ring /\ j \in Nat
    OBVIOUS
  <2>2. CASE j \in DOMAIN new
    BY <2>2 DEF LastOf
  <2>3. CASE j \notin DOMAIN new
    <3>1. j < i
      BY <1>1, <2>1, <2>3
    <3> QED
      BY <1>1, <2>1, <3>1
  <2> QED
    BY <2>2, <2>3
<1> QED
  BY <1>1, <1>2 DEF LastOf

\* The snapshot keeps replaying the ring.
LEMMA UpdatedReplays ==
  ASSUME NEW r, NEW n \in Nat, NEW s, NEW new, Replayed(r.snapshot, r.events),
         n + 1 \in DOMAIN new, new[n + 1].val = s, n + 1 \notin DOMAIN r.events,
         \A i \in DOMAIN r.events : i \in Nat /\ i <= n,
         \A i \in DOMAIN new : i # n + 1 => i \in DOMAIN r.events /\ new[i] = r.events[i],
         \A i \in DOMAIN r.events : i \notin DOMAIN new => \A j \in DOMAIN new : i < j,
         \A i \in DOMAIN new : i \in Nat
  PROVE  Replayed(UpdatedSnapshot(r.snapshot, s), new)
PROOF
<1> DEFINE ring == r.events
           snap == r.snapshot
           m == n + 1
           u == UpdatedSnapshot(snap, s)
<1>1. DOMAIN ring \subseteq Nat /\ DOMAIN new \subseteq Nat /\ m \in Nat
  OBVIOUS
<1> HIDE DEF ring, m
<1>2. \A i \in DOMAIN new : i # m => i \in DOMAIN ring /\ new[i] = ring[i] /\ i < m
  BY DEF ring, m
<1>3. m \in DOMAIN new /\ new[m].val = s /\ m \notin DOMAIN ring
  BY DEF ring, m
<1>4. \A i \in DOMAIN ring : i \notin DOMAIN new => \A j \in DOMAIN new : i < j
  BY DEF ring
<1>5. \A i \in DOMAIN ring :
        /\ LastOf(i, DOMAIN ring) => snap.last_seen_ms = ring[i].val.received_at_ms
        /\ LastOf(i, Registers(ring)) => snap.provider = ring[i].val.event.provider
        /\ LastOf(i, Rated(ring)) => snap.last_confidence = ring[i].val.event.confidence
        /\ LastOf(i, Shifts(ring)) => snap.current_strategy = ring[i].val.event.strategy
  BY DEF Replayed, ring
<1>6. /\ u.last_seen_ms = s.received_at_ms
      /\ u.provider = IF s.event.type = "register" THEN s.event.provider ELSE snap.provider
      /\ u.last_confidence =
           IF s.event.type = "metacognition" /\ s.event.confidence # None
             THEN s.event.confidence ELSE snap.last_confidence
      /\ u.current_strategy =
           IF s.event.type = "metacognition" /\ s.event.strategy # None
             THEN s.event.strategy ELSE snap.current_strategy
  BY DEF UpdatedSnapshot
<1> HIDE DEF u, snap
<1>7. ASSUME NEW i \in DOMAIN new, NEW I, NEW J, I \subseteq DOMAIN ring,
             J \subseteq DOMAIN new, \A j \in DOMAIN ring \cap DOMAIN new : j \in I <=> j \in J,
             LastOf(i, J)
      PROVE  IF m \in J THEN i = m ELSE i \in DOMAIN ring /\ new[i] = ring[i] /\ LastOf(i, I)
  <2>1. CASE m \in J
    <3>1. m <= i /\ i \in Nat
      BY <1>1, <2>1, <1>7 DEF LastOf
    <3>2. ~(i # m)
      BY <1>1, <1>2, <3>1
    <3> QED
      BY <2>1, <3>2
  <2>2. CASE m \notin J
    <3>1. J = I \cap DOMAIN new
      BY <1>2, <1>3, <1>7, <2>2
    <3>2. LastOf(i, I)
      BY <1>1, <1>4, <1>7, <3>1, LastStays
    <3>3. i # m
      BY <1>7, <2>2 DEF LastOf
    <3> QED
      BY <1>2, <2>2, <3>2, <3>3
  <2> QED
    BY <2>1, <2>2
<1>8. ASSUME NEW i \in DOMAIN new, LastOf(i, DOMAIN new)
      PROVE  u.last_seen_ms = new[i].val.received_at_ms
  <2>1. IF m \in DOMAIN new THEN i = m
          ELSE i \in DOMAIN ring /\ new[i] = ring[i] /\ LastOf(i, DOMAIN ring)
    BY <1>7, <1>8
  <2> QED
    BY <1>3, <1>6, <2>1
<1>9. ASSUME NEW i \in DOMAIN new, LastOf(i, Registers(new))
      PROVE  u.provider = new[i].val.event.provider
  <2>1. /\ \A j \in DOMAIN ring \cap DOMAIN new : j \in Registers(ring) <=> j \in Registers(new)
        /\ Registers(ring) \subseteq DOMAIN ring /\ Registers(new) \subseteq DOMAIN new
    BY <1>2, <1>3 DEF Registers
  <2>2. IF m \in Registers(new) THEN i = m
          ELSE i \in DOMAIN ring /\ new[i] = ring[i] /\ LastOf(i, Registers(ring))
    BY <1>7, <1>9, <2>1
  <2>3. m \in Registers(new) <=> s.event.type = "register"
    BY <1>3 DEF Registers
  <2> QED
    BY <1>3, <1>5, <1>6, <2>2, <2>3
<1>10. ASSUME NEW i \in DOMAIN new, LastOf(i, Rated(new))
       PROVE  u.last_confidence = new[i].val.event.confidence
  <2>1. /\ \A j \in DOMAIN ring \cap DOMAIN new : j \in Rated(ring) <=> j \in Rated(new)
        /\ Rated(ring) \subseteq DOMAIN ring /\ Rated(new) \subseteq DOMAIN new
    BY <1>2, <1>3 DEF Rated
  <2>2. IF m \in Rated(new) THEN i = m
          ELSE i \in DOMAIN ring /\ new[i] = ring[i] /\ LastOf(i, Rated(ring))
    BY <1>7, <1>10, <2>1
  <2>3. m \in Rated(new) <=> s.event.type = "metacognition" /\ s.event.confidence # None
    BY <1>3 DEF Rated
  <2> QED
    BY <1>3, <1>5, <1>6, <2>2, <2>3
<1>11. ASSUME NEW i \in DOMAIN new, LastOf(i, Shifts(new))
       PROVE  u.current_strategy = new[i].val.event.strategy
  <2>1. /\ \A j \in DOMAIN ring \cap DOMAIN new : j \in Shifts(ring) <=> j \in Shifts(new)
        /\ Shifts(ring) \subseteq DOMAIN ring /\ Shifts(new) \subseteq DOMAIN new
    BY <1>2, <1>3 DEF Shifts
  <2>2. IF m \in Shifts(new) THEN i = m
          ELSE i \in DOMAIN ring /\ new[i] = ring[i] /\ LastOf(i, Shifts(ring))
    BY <1>7, <1>11, <2>1
  <2>3. m \in Shifts(new) <=> s.event.type = "metacognition" /\ s.event.strategy # None
    BY <1>3 DEF Shifts
  <2> QED
    BY <1>3, <1>5, <1>6, <2>2, <2>3
<1>12. Replayed(u, new)
  BY <1>8, <1>9, <1>10, <1>11 DEF Replayed
<1> QED
  BY <1>12 DEF u, snap

\* What has not been said stays so: a ring that lacks no event has lost none to
\* the last one.
LEMMA UpdatedUnsaid ==
  ASSUME StorageAssumption, NEW r, IsAgentRecord(r), AgentBounded(r),
         NEW name, NEW n \in Nat, RingIsFull(name, r, n), Unsaid(r.snapshot, r.events),
         NEW s \in StoredEvent, s.seq = n + 1, s.event.agent = name
  PROVE  Unsaid(UpdatedAgent(r, s).snapshot, UpdatedAgent(r, s).events)
PROOF
<1> DEFINE ring == r.events
           C == cap(EventsPerAgent)
           snap == r.snapshot
           new == Put(ring, n + 1, s, n + 1, C)
           u == UpdatedSnapshot(snap, s)
<1>1. UpdatedAgent(r, s).events = new /\ UpdatedAgent(r, s).snapshot = u
  BY DEF UpdatedAgent
<1>2. /\ u.events_ingested = snap.events_ingested + 1
      /\ u.provider = IF s.event.type = "register" THEN s.event.provider ELSE snap.provider
      /\ u.last_confidence =
           IF s.event.type = "metacognition" /\ s.event.confidence # None
             THEN s.event.confidence ELSE snap.last_confidence
      /\ u.current_strategy =
           IF s.event.type = "metacognition" /\ s.event.strategy # None
             THEN s.event.strategy ELSE snap.current_strategy
  BY DEF UpdatedSnapshot
<1>3. /\ n + 1 \in DOMAIN new /\ new[n + 1].val = s /\ n + 1 \notin DOMAIN ring
      /\ \A i \in DOMAIN new : i # n + 1 => i \in DOMAIN ring /\ new[i] = ring[i]
      /\ RingIsFull(name, UpdatedAgent(r, s), n + 1)
  <2> HIDE DEF new
  <2> QED
    BY <1>1, UpdatedRing
<1>4. SUFFICES ASSUME Cardinality(DOMAIN new) = u.events_ingested
               PROVE  /\ Registers(new) = {} => u.provider = "other"
                      /\ Rated(new) = {} => u.last_confidence = None
                      /\ Shifts(new) = {} => u.current_strategy = None
  BY <1>1 DEF Unsaid
<1>5. C \in Nat /\ snap.events_ingested \in Nat
  BY CapIsPositive DEF StorageAssumption, IsAgentRecord, AgentSnapshot
<1>6. /\ Cardinality(DOMAIN ring) =
           IF snap.events_ingested < C THEN snap.events_ingested ELSE C
      /\ Cardinality(DOMAIN new) = IF u.events_ingested < C THEN u.events_ingested ELSE C
  BY <1>1, <1>3 DEF RingIsFull
<1>7. Cardinality(DOMAIN ring) = snap.events_ingested /\ Cardinality(DOMAIN ring) < C
  <2> HIDE DEF C, new, u, snap, ring
  <2> QED
    BY <1>2, <1>4, <1>5, <1>6
<1>8. \A i \in DOMAIN ring : i \in DOMAIN new /\ new[i] = ring[i]
  <2>1. DOMAIN ring \subseteq DOMAIN new
    BY <1>7 DEF Put, Kept
  <2> HIDE DEF new, ring
  <2> QED
    BY <1>3, <2>1
<1>9. /\ Registers(ring) = {} => snap.provider = "other"
      /\ Rated(ring) = {} => snap.last_confidence = None
      /\ Shifts(ring) = {} => snap.current_strategy = None
  BY <1>7 DEF Unsaid
<1> HIDE DEF new, u, snap, ring
<1>10. Registers(new) = {} => u.provider = "other"
  BY <1>2, <1>3, <1>8, <1>9 DEF Registers
<1>11. Rated(new) = {} => u.last_confidence = None
  BY <1>2, <1>3, <1>8, <1>9 DEF Rated
<1>12. Shifts(new) = {} => u.current_strategy = None
  BY <1>2, <1>3, <1>8, <1>9 DEF Shifts
<1> QED
  BY <1>10, <1>11, <1>12

\* The sessions keep following the ring.
LEMMA UpdatedSessionsFollow ==
  ASSUME StorageAssumption, NEW r, IsAgentRecord(r), AgentBounded(r), NEW n \in Nat,
         SessionsFollow(r, n), NEW s \in StoredEvent, s.seq = n + 1, NEW new,
         n + 1 \in DOMAIN new, new[n + 1].val = s, n + 1 \notin DOMAIN r.events,
         \A i \in DOMAIN r.events : i \in Nat /\ i <= n,
         \A i \in DOMAIN new : i # n + 1 => i \in DOMAIN r.events /\ new[i] = r.events[i],
         \A i \in DOMAIN r.events : i \notin DOMAIN new => \A j \in DOMAIN new : i < j
  PROVE  /\ Follows(UpdatedSessions(r.sessions, s), SessionLog(new), cap(SessionsPerAgent))
         /\ UsedUpTo(UpdatedSessions(r.sessions, s), n + 1)
PROOF
<1> DEFINE ring == r.events
           c == r.sessions
           m == n + 1
           C == cap(SessionsPerAgent)
           p == UpdatedSessions(c, s)
<1>1. C \in Nat \ {0} /\ m \in Nat
  BY CapIsPositive DEF StorageAssumption
<1>2. IsCache(c, Session) /\ Bounded(c, C) /\ DOMAIN ring \subseteq Nat
  BY DEF IsAgentRecord, AgentBounded, IsCache
<1>3. PICK f, h : f = SessionLog(ring) /\ h = SessionLog(new)
  OBVIOUS
<1>4. /\ DOMAIN f = {j \in DOMAIN ring : /\ ring[j].val.event.type = "register"
                                         /\ ring[j].val.event.session # None}
      /\ \A i \in DOMAIN f : f[i] = ring[i].val.event.session
  BY <1>3 DEF SessionLog, Registers
<1>5. /\ DOMAIN h = {j \in DOMAIN new : /\ new[j].val.event.type = "register"
                                        /\ new[j].val.event.session # None}
      /\ \A i \in DOMAIN h : h[i] = new[i].val.event.session
  BY <1>3 DEF SessionLog, Registers
<1>6. Follows(c, f, C) /\ UsedUpTo(c, n)
  BY <1>3 DEF SessionsFollow
<1> HIDE DEF C
<1>7. /\ DOMAIN f \subseteq Nat /\ \A i \in DOMAIN f : i < m
      /\ \A i \in DOMAIN h : i # m => i \in DOMAIN f /\ h[i] = f[i]
      /\ \A i \in DOMAIN h, j \in DOMAIN f : i <= j => j \in DOMAIN h
  <2>1. DOMAIN f \subseteq Nat /\ \A i \in DOMAIN f : i < m
    <3>1. \A i \in DOMAIN ring : i \in Nat /\ i < m
      OBVIOUS
    <3>2. DOMAIN f \subseteq DOMAIN ring
      BY <1>4
    <3> HIDE DEF ring, m
    <3> QED
      BY <3>1, <3>2
  <2>2. \A i \in DOMAIN h : i # m => i \in DOMAIN f /\ h[i] = f[i]
    <3> SUFFICES ASSUME NEW i \in DOMAIN h, i # m PROVE i \in DOMAIN f /\ h[i] = f[i]
      OBVIOUS
    <3>1. /\ i \in DOMAIN new /\ h[i] = new[i].val.event.session
          /\ new[i].val.event.type = "register" /\ new[i].val.event.session # None
      BY <1>5
    <3>2. i \in DOMAIN ring /\ new[i] = ring[i]
      BY <3>1
    <3>3. i \in DOMAIN f
      BY <1>4, <3>1, <3>2
    <3> QED
      BY <1>4, <3>1, <3>2, <3>3
  <2>3. \A i \in DOMAIN h, j \in DOMAIN f : i <= j => j \in DOMAIN h
    <3> SUFFICES ASSUME NEW i \in DOMAIN h, NEW j \in DOMAIN f, i <= j PROVE j \in DOMAIN h
      OBVIOUS
    <3>1. j \in DOMAIN ring /\ j \in Nat /\ j # m /\ i \in DOMAIN new
      BY <1>2, <1>4, <1>5
    <3>2. i \in Nat
      <4>1. i # m => i \in DOMAIN ring
        BY <3>1
      <4> HIDE DEF m, ring
      <4> QED
        BY <1>1, <1>2, <4>1
    <3>3. j \in DOMAIN new
      BY <3>1, <3>2
    <3> QED
      BY <1>4, <1>5, <3>1, <3>3
  <2> QED
    BY <2>1, <2>2, <2>3
<1>8. \A j \in DOMAIN c : c[j].used \in Nat /\ c[j].used <= n /\ c[j].used < m
  <2>1. \A j \in DOMAIN c : c[j].used \in Nat /\ c[j].used <= n
    BY <1>2, <1>6 DEF IsCache, UsedUpTo
  <2> QED
    BY <2>1
<1>9. CASE ~(s.event.type = "register" /\ s.event.session # None)
  <2>1. p = c
    BY <1>9 DEF UpdatedSessions
  <2>2. m \notin DOMAIN h
    BY <1>5, <1>9
  <2>3. EndOf(h, f)
    BY <1>7, <2>2 DEF EndOf
  <2>4. Follows(c, h, C)
    BY <1>2, <1>6, <2>3, EndIsFollowed
  <2>5. UsedUpTo(c, m)
    BY <1>8 DEF UsedUpTo
  <2> QED
    BY <1>3, <2>1, <2>4, <2>5 DEF C
<1>10. CASE s.event.type = "register" /\ s.event.session # None
  <2> DEFINE k == s.event.session
             at == s.received_at_ms
  <2>1. p = Put(c, k, at, m, C)
    BY <1>10 DEF UpdatedSessions, C
  <2>2. m \in DOMAIN h /\ h[m] = k
    BY <1>5, <1>10
  <2>3. \A j \in DOMAIN c : c[j].used < m
    BY <1>8
  <2> HIDE DEF k, at, p
  <2>4. UsedUpTo(p, m)
    BY <1>2, <1>6, <2>1, PutUsedUpTo
  <2> HIDE DEF m, c
  <2>5. Follows(p, h, C)
    BY <1>1, <1>2, <1>6, <1>7, <2>1, <2>2, <2>3, PutFollowsOn
  <2> QED
    BY <1>3, <2>4, <2>5 DEF C, m, p, c
<1> QED
  BY <1>9, <1>10

\* The record of an agent keeps its invariant when an event of it is recorded.
LEMMA UpdatedAgentKeepsInv ==
  ASSUME StorageAssumption, NEW r, IsAgentRecord(r), AgentBounded(r),
         NEW name, NEW n \in Nat, RecordInv(name, r, n),
         NEW s \in StoredEvent, s.seq = n + 1, s.event.agent = name
  PROVE  RecordInv(name, UpdatedAgent(r, s), n + 1)
PROOF
<1>1. PICK u, new : u = UpdatedAgent(r, s) /\ new = u.events
  OBVIOUS
<1>2. /\ n + 1 \in DOMAIN new /\ new[n + 1].val = s /\ n + 1 \notin DOMAIN r.events
      /\ \A i \in DOMAIN r.events : i \in Nat /\ i <= n
      /\ \A i \in DOMAIN new : i # n + 1 => i \in DOMAIN r.events /\ new[i] = r.events[i]
      /\ \A i \in DOMAIN r.events : i \notin DOMAIN new => \A j \in DOMAIN new : i < j
      /\ \A i \in DOMAIN new : i \in Nat
      /\ RingIsFull(name, u, n + 1)
  BY <1>1, UpdatedRing DEF RecordInv
<1>3. Replayed(UpdatedSnapshot(r.snapshot, s), new)
  BY <1>2, UpdatedReplays DEF RecordInv
<1>4. /\ Follows(UpdatedSessions(r.sessions, s), SessionLog(new), cap(SessionsPerAgent))
      /\ UsedUpTo(UpdatedSessions(r.sessions, s), n + 1)
  BY <1>2, UpdatedSessionsFollow DEF RecordInv
<1>5. /\ u.snapshot = UpdatedSnapshot(r.snapshot, s)
      /\ u.sessions = UpdatedSessions(r.sessions, s)
  BY <1>1 DEF UpdatedAgent
<1>6. Replayed(u.snapshot, u.events) /\ SessionsFollow(u, n + 1)
  BY <1>1, <1>3, <1>4, <1>5 DEF SessionsFollow
<1>7. Unsaid(u.snapshot, u.events)
  BY <1>1, UpdatedUnsaid DEF RecordInv
<1> QED
  BY <1>1, <1>2, <1>6, <1>7 DEF RecordInv

\* A record that nothing is written to keeps its invariant while the store goes on.
LEMMA RecordInvLater ==
  ASSUME NEW r, IsAgentRecord(r), NEW name, NEW n \in Nat, RecordInv(name, r, n)
  PROVE  RecordInv(name, r, n + 1)
PROOF
<1>1. IsCache(r.events, 1 .. MaxSeq) /\ IsCache(r.sessions, Session)
  BY DEF IsAgentRecord
<1>2. /\ \A i \in DOMAIN r.events : i \in Nat
      /\ \A k \in DOMAIN r.sessions : r.sessions[k].used \in Nat
  BY <1>1 DEF IsCache
<1>3. RingIsFull(name, r, n + 1)
  BY <1>2 DEF RecordInv, RingIsFull
<1>4. UsedUpTo(r.sessions, n + 1)
  BY <1>2 DEF RecordInv, SessionsFollow, UsedUpTo
<1> QED
  BY <1>3, <1>4 DEF RecordInv, SessionsFollow

\* A new record has nothing to keep.
LEMMA NewAgentInv ==
  ASSUME StorageAssumption, NEW name, NEW now, NEW n \in Nat
  PROVE  RecordInv(name, NewAgent(now), n) /\ DOMAIN NewAgent(now).events = {}
PROOF
<1> DEFINE r == NewAgent(now)
<1>1. /\ r.events = EmptyCache /\ r.sessions = EmptyCache
      /\ r.snapshot.events_ingested = 0
  BY DEF NewAgent
<1>2. DOMAIN EmptyCache = {} /\ Cardinality({}) = 0
  BY FS_EmptySet DEF EmptyCache
<1>3. 0 < cap(EventsPerAgent)
  BY CapIsPositive DEF StorageAssumption
<1> HIDE DEF r
<1>4. RingIsFull(name, r, n)
  BY <1>1, <1>2, <1>3 DEF RingIsFull
<1>5. Replayed(r.snapshot, r.events)
  BY <1>1, <1>2 DEF Replayed
<1>6. Unsaid(r.snapshot, r.events)
  BY DEF Unsaid, NewAgent, r
<1>7. SessionsFollow(r, n)
  <2>1. DOMAIN SessionLog(EmptyCache) = {}
    BY <1>2 DEF SessionLog, Registers
  <2> QED
    BY <1>1, <1>2, <2>1 DEF SessionsFollow, Follows, UsedUpTo
<1> QED
  BY <1>1, <1>2, <1>4, <1>5, <1>6, <1>7 DEF RecordInv, r

LEMMA StepKeepsRecords ==
  ASSUME StorageAssumption, StoreBase, StoreBase', AgentRecordsInv,
         NEW s \in StoredEvent, Step(s)
  PROVE  AgentRecordsInv'
PROOF
<1> DEFINE name == s.event.agent
           known == KnownAgent(name, s.received_at_ms)
           u == UpdatedAgent(known, s)
           n == seq + 1
<1>1. seq \in Nat /\ n \in Nat /\ s.seq = n /\ seq' = n
  BY DEF Step
<1>2. /\ IsAgentRecord(known) /\ AgentBounded(known)
      /\ \A a \in DOMAIN agents : IsAgentRecord(agents[a].val)
  BY KnownAgentIsTyped, KnownAgentIsBounded DEF StoreBase, Step, TypeOK, Values
<1>3. RecordInv(name, known, seq)
  <2>1. CASE name \in DOMAIN agents
    BY <2>1 DEF AgentRecordsInv, KnownAgent
  <2>2. CASE name \notin DOMAIN agents
    BY <1>1, <2>2, NewAgentInv DEF KnownAgent
  <2> QED
    BY <2>1, <2>2
<1>4. RecordInv(name, u, n)
  <2> HIDE DEF known
  <2> QED
    BY <1>1, <1>2, <1>3, UpdatedAgentKeepsInv
<1>5. /\ n \in DOMAIN u.events /\ u.events[n].val = s
      /\ \A i \in DOMAIN u.events : i # n => i \in DOMAIN known.events
                                               /\ u.events[i] = known.events[i]
      /\ \A i \in DOMAIN known.events : i \notin DOMAIN u.events =>
           \A j \in DOMAIN u.events : i < j
  <2> HIDE DEF known
  <2>1. RingIsFull(name, known, seq)
    BY <1>3 DEF RecordInv
  <2> QED
    BY <1>1, <1>2, <2>1, UpdatedRing
<1>6. /\ DOMAIN recent \subseteq Nat /\ \A i \in DOMAIN recent : i <= seq
      /\ DOMAIN recent' \subseteq DOMAIN recent \cup {n} /\ n \in DOMAIN recent'
      /\ recent'[n].val = s
      /\ \A i \in DOMAIN recent' : i # n => recent'[i] = recent[i]
  BY WindowMoves DEF StoreBase
<1>7. RingAgrees(name, known.events, recent)
  <2>1. CASE name \in DOMAIN agents
    BY <2>1 DEF AgentRecordsInv, KnownAgent
  <2>2. CASE name \notin DOMAIN agents
    <3>1. DOMAIN known.events = {}
      BY <1>1, <2>2, NewAgentInv DEF KnownAgent
    <3> HIDE DEF known
    <3> QED
      BY <3>1 DEF RingAgrees
  <2> QED
    BY <2>1, <2>2
<1>8. RingAgrees(name, u.events, recent')
  <2> SUFFICES ASSUME NEW i \in DOMAIN recent', recent'[i].val.event.agent = name
               PROVE  IF i \in DOMAIN u.events THEN u.events[i].val = recent'[i].val
                                               ELSE \A j \in DOMAIN u.events : j > i
    BY DEF RingAgrees
  <2> HIDE DEF u, known
  <2>1. CASE i = n
    BY <1>5, <1>6, <2>1
  <2>2. CASE i # n
    <3>1. i \in DOMAIN recent /\ recent'[i] = recent[i] /\ i \in Nat /\ i <= seq
      BY <1>6, <2>2
    <3>2. IF i \in DOMAIN known.events THEN known.events[i].val = recent[i].val
                                       ELSE \A j \in DOMAIN known.events : j > i
      BY <1>7, <3>1 DEF RingAgrees
    <3>3. CASE i \in DOMAIN u.events
      BY <1>5, <2>2, <3>1, <3>2, <3>3
    <3>4. CASE i \notin DOMAIN u.events
      <4> SUFFICES ASSUME NEW j \in DOMAIN u.events PROVE j > i
        BY <3>4
      <4>1. CASE i \in DOMAIN known.events
        <5>1. j \in Nat /\ i < j
          <6>1. i < j
            BY <1>5, <3>4, <4>1
          <6>2. IsAgentRecord(u)
            BY <1>1, <1>2, UpdatedAgentIsTyped DEF u, Step
          <6>3. j \in Nat
            BY <6>2 DEF IsAgentRecord, IsCache
          <6> QED
            BY <6>1, <6>3
        <5> QED
          BY <3>1, <5>1
      <4>2. CASE i \notin DOMAIN known.events
        <5>1. CASE j = n
          BY <1>1, <3>1, <5>1
        <5>2. CASE j # n
          BY <1>5, <3>2, <4>2, <5>2
        <5> QED
          BY <5>1, <5>2
      <4> QED
        BY <4>1, <4>2
    <3> QED
      BY <3>3, <3>4
  <2> QED
    BY <2>1, <2>2
<1>9. /\ name \in DOMAIN agents' /\ agents'[name].val = u
      /\ \A a \in DOMAIN agents' : a # name => a \in DOMAIN agents /\ agents'[a] = agents[a]
  <2>1. agents' = Put(agents, name, u, n, cap(MaxAgents))
    BY <1>1 DEF Step, RecordAgent, agent_name
  <2> HIDE DEF name, u, n
  <2>2. /\ name \in DOMAIN agents' /\ agents'[name] = [val |-> u, used |-> n]
        /\ \A a \in DOMAIN agents' : a # name => a \in DOMAIN agents /\ agents'[a] = agents[a]
    BY <2>1, PutDomain
  <2> QED
    BY <2>2
<1> HIDE DEF u, known
<1>10. ASSUME NEW a \in DOMAIN agents'
       PROVE  /\ DOMAIN agents'[a].val.events # {}
              /\ RecordInv(a, agents'[a].val, n)
              /\ RingAgrees(a, agents'[a].val.events, recent')
  <2>1. CASE a = name
    BY <1>4, <1>5, <1>8, <1>9, <2>1
  <2>2. CASE a # name
    <3> DEFINE r == agents[a].val
    <3>1. a \in DOMAIN agents /\ agents'[a].val = r
      BY <1>9, <2>2
    <3>2. /\ DOMAIN r.events # {} /\ RecordInv(a, r, seq)
          /\ RingAgrees(a, r.events, recent) /\ IsAgentRecord(r)
      BY <1>2, <3>1 DEF AgentRecordsInv
    <3> HIDE DEF r
    <3>3. RecordInv(a, r, n)
      BY <1>1, <3>2, RecordInvLater
    <3>4. RingAgrees(a, r.events, recent')
      <4>1. \A i \in DOMAIN recent' : recent'[i].val.event.agent = a =>
              i \in DOMAIN recent /\ recent'[i] = recent[i]
        BY <1>6, <2>2
      <4> QED
        BY <3>2, <4>1 DEF RingAgrees
    <3> QED
      BY <3>1, <3>2, <3>3, <3>4
  <2> QED
    BY <2>1, <2>2
<1> QED
  BY <1>1, <1>10 DEF AgentRecordsInv

LEMMA AgentRecordsInvHolds == Spec => []AgentRecordsInv
PROOF
<1>1. Init => AgentRecordsInv
  BY EmptyCacheIsCache DEF Init, AgentRecordsInv
<1>2. StoreBase /\ StoreBase' /\ AgentRecordsInv /\ [Next]_storageVars => AgentRecordsInv'
  <2> SUFFICES ASSUME StoreBase, StoreBase', AgentRecordsInv, [Next]_storageVars
               PROVE  AgentRecordsInv'
    OBVIOUS
  <2>1. ASSUME NEW s \in StoredEvent, Step(s) PROVE AgentRecordsInv'
    BY <2>1, StorageAssumption, StepKeepsRecords
  <2>2. CASE UNCHANGED storageVars
    BY <2>2 DEF storageVars, AgentRecordsInv
  <2> QED
    BY <2>1, <2>2, StorageAssumption, NextIsStep DEF StoreBase
<1> QED
  BY <1>1, <1>2, StoreBaseHolds, PTL DEF Spec

\* The ring of an agent never has a hole: it is full of the agent's events, and
\* shows each recent one unless all it shows is newer (storage.rs:206, 228).
THEOREM RingsNeverHaveGaps == Spec => []RingsHaveNoGaps
PROOF
<1>1. AgentRecordsInv => RingsHaveNoGaps
  <2> SUFFICES ASSUME AgentRecordsInv, NEW name \in DOMAIN agents
               PROVE  LET r == agents[name].val
                          ring == r.events
                      IN  /\ RingIsFull(name, r, seq)
                          /\ RingAgrees(name, ring, recent)
    BY DEF RingsHaveNoGaps, RingIsFull, RingAgrees, RecentEvent
  <2> QED
    BY DEF AgentRecordsInv, RecordInv
<1> QED
  BY <1>1, AgentRecordsInvHolds, PTL

\* Latest reads the last of a set of numbers in a ring.
LEMMA LatestIsLast ==
  ASSUME NEW ring, NEW n \in Nat, NEW I, I # {}, I \subseteq Nat, \A i \in I : i <= n
  PROVE  \E i \in I : LastOf(i, I) /\ Latest(ring, I) = ring[i].val
PROOF
<1>1. \E m \in I : \A j \in I : j <= m
  BY LastMoment
<1> DEFINE i == CHOOSE m \in I : \A j \in I : j <= m
<1>2. i \in I /\ \A j \in I : j <= i
  BY <1>1
<1> QED
  BY <1>2 DEF LastOf, Latest

\* The summary of an agent is always what replaying its ring gives
\* (storage.rs:204-227).
THEOREM SnapshotsAlwaysReplay == Spec => []SnapshotReplaysRing
PROOF
<1>1. StoreBase /\ AgentRecordsInv => SnapshotReplaysRing
  <2> DEFINE
        Tells(snap, ring) ==
          /\ snap.last_seen_ms = Latest(ring, DOMAIN ring).received_at_ms
          /\ Registers(ring) # {} =>
               snap.provider = Latest(ring, Registers(ring)).event.provider
          /\ Rated(ring) # {} =>
               snap.last_confidence = Latest(ring, Rated(ring)).event.confidence
          /\ Shifts(ring) # {} =>
               snap.current_strategy = Latest(ring, Shifts(ring)).event.strategy
          /\ Unsaid(snap, ring)
        Replays(snap, ring) ==
          LET Of(type) == {i \in DOMAIN ring : ring[i].val.event.type = type}
              rated == {i \in Of("metacognition") : ring[i].val.event.confidence # None}
              shifts == {i \in Of("metacognition") : ring[i].val.event.strategy # None}
          IN  /\ snap.last_seen_ms = Latest(ring, DOMAIN ring).received_at_ms
              /\ Of("register") # {} =>
                   snap.provider = Latest(ring, Of("register")).event.provider
              /\ rated # {} => snap.last_confidence = Latest(ring, rated).event.confidence
              /\ shifts # {} => snap.current_strategy = Latest(ring, shifts).event.strategy
              /\ Cardinality(DOMAIN ring) = snap.events_ingested =>
                   /\ Of("register") = {} => snap.provider = "other"
                   /\ rated = {} => snap.last_confidence = None
                   /\ shifts = {} => snap.current_strategy = None
  <2>a. ASSUME NEW snap, NEW ring, Tells(snap, ring) PROVE Replays(snap, ring)
    <3>1. /\ {i \in DOMAIN ring : ring[i].val.event.type = "register"} = Registers(ring)
          /\ {i \in {j \in DOMAIN ring : ring[j].val.event.type = "metacognition"} :
                 ring[i].val.event.confidence # None} = Rated(ring)
          /\ {i \in {j \in DOMAIN ring : ring[j].val.event.type = "metacognition"} :
                 ring[i].val.event.strategy # None} = Shifts(ring)
      BY DEF Registers, Rated, Shifts
    <3> QED
      BY <2>a, <3>1, Zenon DEF Unsaid
  <2>b. (\A name \in DOMAIN agents :
           Replays(agents[name].val.snapshot, agents[name].val.events))
          => SnapshotReplaysRing
    BY Zenon DEF SnapshotReplaysRing
  <2> HIDE DEF Replays
  <2> SUFFICES ASSUME StoreBase, AgentRecordsInv, NEW name \in DOMAIN agents
               PROVE  Tells(agents[name].val.snapshot, agents[name].val.events)
    BY <2>a, <2>b
  <2>1. PICK ring, snap : ring = agents[name].val.events /\ snap = agents[name].val.snapshot
    OBVIOUS
  <2>2. /\ DOMAIN ring # {} /\ Replayed(snap, ring) /\ Unsaid(snap, ring)
        /\ \A i \in DOMAIN ring : i <= seq
    BY <2>1 DEF AgentRecordsInv, RecordInv, RingIsFull
  <2>3. DOMAIN ring \subseteq Nat /\ seq \in Nat
    <3>1. IsAgentRecord(agents[name].val) /\ seq \in Nat
      BY DEF StoreBase, TypeOK, Values
    <3> QED
      BY <2>1, <3>1 DEF IsAgentRecord, IsCache
  <2>4. /\ Registers(ring) \subseteq DOMAIN ring /\ Rated(ring) \subseteq DOMAIN ring
        /\ Shifts(ring) \subseteq DOMAIN ring
    BY DEF Registers, Rated, Shifts
  <2>5. ASSUME NEW I, I # {}, I \subseteq DOMAIN ring
        PROVE  \E i \in DOMAIN ring : LastOf(i, I) /\ Latest(ring, I) = ring[i].val
    <3>1. I \subseteq Nat /\ \A i \in I : i <= seq
      BY <2>2, <2>3, <2>5
    <3> QED
      BY <2>3, <2>5, <3>1, LatestIsLast
  <2>6. snap.last_seen_ms = Latest(ring, DOMAIN ring).received_at_ms
    BY <2>2, <2>5 DEF Replayed
  <2>7. Registers(ring) # {} =>
          snap.provider = Latest(ring, Registers(ring)).event.provider
    BY <2>2, <2>4, <2>5 DEF Replayed
  <2>8. Rated(ring) # {} =>
          snap.last_confidence = Latest(ring, Rated(ring)).event.confidence
    BY <2>2, <2>4, <2>5 DEF Replayed
  <2>9. Shifts(ring) # {} =>
          snap.current_strategy = Latest(ring, Shifts(ring)).event.strategy
    BY <2>2, <2>4, <2>5 DEF Replayed
  <2> QED
    BY <2>1, <2>2, <2>6, <2>7, <2>8, <2>9
<1> QED
  BY <1>1, StoreBaseHolds, AgentRecordsInvHolds, PTL

\* A session is always remembered until as many others of its agent as there are
\* places have registered (storage.rs:210-212).
THEOREM SessionsAlwaysForgottenForOthers == Spec => []SessionsForgottenOnlyForOthers
PROOF
<1>1. StoreBase /\ AgentRecordsInv => SessionsForgottenOnlyForOthers
  <2> SUFFICES
        ASSUME StoreBase, AgentRecordsInv, NEW name \in DOMAIN agents
        PROVE  LET r == agents[name].val
                   opened == {i \in DOMAIN r.events :
                                /\ r.events[i].val.event.type = "register"
                                /\ r.events[i].val.event.session # None}
                   SessionOf(i) == r.events[i].val.event.session
               IN  \A i \in opened :
                     \/ SessionOf(i) \in DOMAIN r.sessions
                     \/ Cardinality({SessionOf(j) : j \in {k \in opened : k > i}}
                                      \ {SessionOf(i)}) >= cap(SessionsPerAgent)
    BY DEF SessionsForgottenOnlyForOthers
  <2> DEFINE r == agents[name].val
             ring == r.events
             f == SessionLog(ring)
  <2> DEFINE opened == {i \in DOMAIN ring : /\ ring[i].val.event.type = "register"
                                            /\ ring[i].val.event.session # None}
             C == cap(SessionsPerAgent)
  <2>1. DOMAIN f = opened /\ \A i \in opened : f[i] = ring[i].val.event.session
    BY DEF SessionLog, Registers
  <2>2. /\ IsCache(r.sessions, Session) /\ Follows(r.sessions, f, C)
        /\ C \in Nat /\ DOMAIN ring \subseteq Nat /\ IsFiniteSet(DOMAIN ring)
    <3>1. IsAgentRecord(r) /\ Bounded(ring, cap(EventsPerAgent))
      BY DEF StoreBase, TypeOK, Values, CachesStayBounded
    <3>2. Follows(r.sessions, f, C)
      BY DEF AgentRecordsInv, RecordInv, SessionsFollow
    <3>3. C \in Nat
      BY StorageAssumption, CapIsPositive DEF StorageAssumption
    <3> HIDE DEF C
    <3> QED
      BY <3>1, <3>2, <3>3 DEF IsAgentRecord, IsCache, Bounded
  <2>3. DOMAIN f \subseteq Nat /\ IsFiniteSet(DOMAIN f)
    <3>1. opened \subseteq DOMAIN ring
      OBVIOUS
    <3> HIDE DEF opened
    <3> QED
      BY <2>1, <2>2, <3>1, FS_Subset
  <2> HIDE DEF C, f
  <2>4. ASSUME NEW i \in opened, f[i] \notin DOMAIN r.sessions
        PROVE  Cardinality({f[j] : j \in {k \in opened : k > i}} \ {f[i]}) >= C
    BY <2>1, <2>2, <2>3, <2>4, ForgottenForOthers
  <2>5. \A i \in opened :
          {f[j] : j \in {k \in opened : k > i}}
            = {ring[j].val.event.session : j \in {k \in opened : k > i}}
    <3>1. \A i \in opened : {k \in opened : k > i} \subseteq opened
      OBVIOUS
    <3> HIDE DEF opened, ring
    <3> QED
      BY <2>1, <3>1
  <2>6. \A i \in opened :
          \/ ring[i].val.event.session \in DOMAIN r.sessions
          \/ Cardinality({ring[j].val.event.session : j \in {k \in opened : k > i}}
                           \ {ring[i].val.event.session}) >= C
    BY <2>1, <2>4, <2>5
  <2> QED
    BY <2>6 DEF C
<1> QED
  BY <1>1, StoreBaseHolds, AgentRecordsInvHolds, PTL

-----------------------------------------------------------------------------
(***************************************************************************)
(* Tasks that several agents report on.                                    *)
(***************************************************************************)

\* A node that two agents reported on is flagged: what SharedTasksStayMeta says
\* of a step, said of a state.
SharedTasksAreMeta ==
  \A t \in DOMAIN tasks :
    Cardinality(tasks[t].val.agents) > 1 => tasks[t].val.meta

LEMMA IngestKeepsSharedTasks ==
  ASSUME SharedTasksAreMeta,
         NEW transport \in Via, NEW e \in Inputs, NEW now \in Times,
         Ingest(transport, e, now)
  PROVE  /\ SharedTasksAreMeta'
         /\ \A t \in DOMAIN tasks \cap DOMAIN tasks' :
              /\ tasks[t].val.agents \subseteq tasks'[t].val.agents
              /\ tasks[t].val.meta => tasks'[t].val.meta
PROOF
<1> DEFINE s == Stored(transport, e, now)
           u == UpdatedTask(s)
           t0 == s.event.task_id
<1>1. RecordTask(s)
  BY DEF Ingest
<1> HIDE DEF s
<1>2. CASE s.event.type = "task"
  <2>1. tasks' = Put(tasks, t0, u, s.seq, cap(MaxTasks))
    BY <1>1, <1>2 DEF RecordTask
  <2>2. /\ Cardinality(u.agents) > 1 => u.meta
        /\ t0 \in DOMAIN tasks =>
             /\ tasks[t0].val.agents \subseteq u.agents
             /\ tasks[t0].val.meta => u.meta
    BY ReportKeepsNode
  <2> HIDE DEF u, t0
  <2>3. /\ tasks'[t0] = [val |-> u, used |-> s.seq]
        /\ \A t \in DOMAIN tasks' : t # t0 => t \in DOMAIN tasks /\ tasks'[t] = tasks[t]
    BY <2>1, PutDomain
  <2>4. tasks'[t0].val = u
    BY <2>3
  <2>5. SharedTasksAreMeta'
    BY <2>2, <2>3, <2>4 DEF SharedTasksAreMeta
  <2>6. \A t \in DOMAIN tasks \cap DOMAIN tasks' :
          /\ tasks[t].val.agents \subseteq tasks'[t].val.agents
          /\ tasks[t].val.meta => tasks'[t].val.meta
    BY <2>2, <2>3, <2>4
  <2> QED
    BY <2>5, <2>6
<1>3. CASE s.event.type # "task"
  BY <1>1, <1>3 DEF RecordTask, SharedTasksAreMeta
<1> QED
  BY <1>2, <1>3

\* While a node is in the store its reporters and its meta flag only accumulate,
\* and a shared node is flagged (storage.rs:242-250).
THEOREM SharedTasksKeepTheirFlag == Spec => SharedTasksStayMeta
PROOF
<1>1. Init => SharedTasksAreMeta
  BY EmptyCacheIsCache DEF Init, SharedTasksAreMeta
<1>2. SharedTasksAreMeta /\ [Next]_storageVars =>
        /\ SharedTasksAreMeta'
        /\ \A t \in DOMAIN tasks \cap DOMAIN tasks' :
             /\ tasks[t].val.agents \subseteq tasks'[t].val.agents
             /\ tasks[t].val.meta => tasks'[t].val.meta
  <2> SUFFICES ASSUME SharedTasksAreMeta, [Next]_storageVars
               PROVE  /\ SharedTasksAreMeta'
                      /\ \A t \in DOMAIN tasks \cap DOMAIN tasks' :
                           /\ tasks[t].val.agents \subseteq tasks'[t].val.agents
                           /\ tasks[t].val.meta => tasks'[t].val.meta
    OBVIOUS
  <2>1. CASE \E transport \in Via, e \in Inputs, now \in Times :
               Ingest(transport, e, now)
    BY <2>1, IngestKeepsSharedTasks
  <2>2. CASE UNCHANGED tasks
    BY <2>2 DEF SharedTasksAreMeta
  <2> QED
    BY <2>1, <2>2 DEF Next, Query, storageVars
<1>3. SharedTasksAreMeta /\ [Next]_storageVars =>
        [\A t \in DOMAIN tasks \cap DOMAIN tasks' :
           /\ tasks[t].val.agents \subseteq tasks'[t].val.agents
           /\ tasks[t].val.meta => tasks'[t].val.meta
           /\ Cardinality(tasks'[t].val.agents) > 1 => tasks'[t].val.meta]_storageVars
  BY <1>2 DEF SharedTasksAreMeta
<1> QED
  BY <1>1, <1>2, <1>3, PTL DEF Spec, SharedTasksStayMeta
=============================================================================
