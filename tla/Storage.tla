------------------------------- MODULE Storage -------------------------------
(***************************************************************************)
(* LruStorage of src/storage.rs: the in-memory store behind every          *)
(* transport, the query API and the web UI.                                *)
(*                                                                         *)
(* All its state sits behind one Mutex, held from line 188 to the end of   *)
(* `ingest` and never across a wait, so a critical section is one action.  *)
(* The arrival time is read from the clock BEFORE the lock is taken        *)
(* (line 187): callers may get the lock in another order than they read    *)
(* the clock, and this module lets `now` be any member of Times.  AppState *)
(* says which times the callers really bring.                              *)
(***************************************************************************)
EXTENDS Events, Lru

CONSTANTS
  MaxAgents, EventsPerAgent, RecentEvents,      \* StorageConfig; 0 is allowed
  SessionsPerAgent, MaxTasks, MaxLessons,
  Inputs,      \* the events the clients send
  Via,         \* the transports they send them over
  Times,       \* the readings of the millisecond clock
  MaxSeq       \* bound: the number of events stored in a behaviour

ASSUME StorageAssumption ==
  /\ \A n \in {MaxAgents, EventsPerAgent, RecentEvents, SessionsPerAgent,
               MaxTasks, MaxLessons, MaxSeq} : n \in Nat
  /\ Inputs \subseteq Event
  /\ Via \subseteq Transport
  /\ Times \subseteq Nat

VARIABLES
  seq,      \* Inner::seq, the number of the last stored event
  agents,   \* Inner::agents, agent name -> AgentRecord
  recent,   \* Inner::recent, seq -> StoredEvent
  tasks,    \* Inner::tasks, task id -> TaskRecord
  lessons   \* Inner::lessons, seq -> Lesson

storageVars == <<seq, agents, recent, tasks, lessons>>

\* A capacity of 0 is raised to 1.
cap(n) == IF n < 1 THEN 1 ELSE n

AgentSnapshot ==
  [provider : Provider, first_seen_ms : Nat, last_seen_ms : Nat,
   events_ingested : Nat, last_confidence : Confidence,
   current_strategy : Strategy \cup {None}]

\* An agent owns two caches: its event ring and the sessions it registered.
IsAgentRecord(r) ==
  /\ r = [snapshot |-> r.snapshot, events |-> r.events, sessions |-> r.sessions]
  /\ r.snapshot \in AgentSnapshot
  /\ IsCache(r.events, 1 .. MaxSeq) /\ Values(r.events) \subseteq StoredEvent
  /\ IsCache(r.sessions, Session) /\ Values(r.sessions) \subseteq Nat

TaskRecord ==
  [parent_id : AnyTask \cup {None}, percent : Percent, meta : BOOLEAN,
   agents : SUBSET AgentName, updated_at_ms : Nat]

Lesson == [seq : Nat, agent : AgentName, topic : Topic, recorded_at_ms : Nat]

-----------------------------------------------------------------------------
\* LruStorage::new
Init ==
  /\ seq = 0
  /\ agents = EmptyCache
  /\ recent = EmptyCache
  /\ tasks = EmptyCache
  /\ lessons = EmptyCache

\* The record upsert_agent inserts for a name it does not know.
NewAgent(now) ==
  [snapshot |->
     [provider |-> "other", first_seen_ms |-> now, last_seen_ms |-> now,
      events_ingested |-> 0, last_confidence |-> None,
      current_strategy |-> None],
   events |-> EmptyCache, sessions |-> EmptyCache]

\* The record the agent bookkeeping of `ingest` starts from.
KnownAgent(name, now) ==
  IF name \in DOMAIN agents THEN agents[name].val ELSE NewAgent(now)

\* Faulty variant: a report without a confidence erases the last one.
UpdatedSnapshotErasing(snap, s) ==
  LET e == s.event
      rates == e.type = "metacognition"
      shifts == e.type = "metacognition" /\ e.strategy # None
  IN  [snap EXCEPT !.provider = IF e.type = "register" THEN e.provider ELSE @,
                   !.last_seen_ms = s.received_at_ms,
                   !.events_ingested = @ + 1,
                   !.last_confidence = IF rates THEN e.confidence ELSE @,
                   !.current_strategy = IF shifts THEN e.strategy ELSE @]

\* The agent bookkeeping of `ingest`, for the stored event s: the snapshot, the
\* sessions, the ring.
UpdatedSnapshot(snap, s) ==
  LET e == s.event
      registers == e.type = "register"
      rates == e.type = "metacognition" /\ e.confidence # None
      shifts == e.type = "metacognition" /\ e.strategy # None
  IN  [provider |-> IF registers THEN e.provider ELSE snap.provider,
       first_seen_ms |-> snap.first_seen_ms,
       last_seen_ms |-> s.received_at_ms,
       events_ingested |-> snap.events_ingested + 1,
       last_confidence |-> IF rates THEN e.confidence ELSE snap.last_confidence,
       current_strategy |-> IF shifts THEN e.strategy ELSE snap.current_strategy]

\* Faulty variant: a session that registers again keeps its place in the cache.
UpdatedSessionsInPlace(sessions, s) ==
  LET e == s.event
  IN  IF e.type = "register" /\ e.session # None
        THEN IF e.session \in DOMAIN sessions
               THEN [sessions EXCEPT ![e.session].val = s.received_at_ms]
               ELSE Put(sessions, e.session, s.received_at_ms, s.seq,
                        cap(SessionsPerAgent))
        ELSE sessions

UpdatedSessions(sessions, s) ==
  LET e == s.event
  IN  IF e.type = "register" /\ e.session # None
        THEN Put(sessions, e.session, s.received_at_ms, s.seq, cap(SessionsPerAgent))
        ELSE sessions

\* Faulty variant: the ring is sized by the wrong knob.
UpdatedAgentWrongRing(r, s) ==
  [snapshot |-> UpdatedSnapshot(r.snapshot, s),
   events |-> Put(r.events, s.seq, s, s.seq, cap(SessionsPerAgent)),
   sessions |-> UpdatedSessions(r.sessions, s)]

UpdatedAgent(r, s) ==
  [snapshot |-> UpdatedSnapshot(r.snapshot, s),
   events |-> Put(r.events, s.seq, s, s.seq, cap(EventsPerAgent)),
   sessions |-> UpdatedSessions(r.sessions, s)]

\* Faulty variant: the flag of the last report wins.
UpdatedTaskLastFlag(s) ==
  LET e == s.event
      known == e.task_id \in DOMAIN tasks
      reporters == IF known THEN tasks[e.task_id].val.agents \cup {e.agent}
                            ELSE {e.agent}
  IN  [parent_id |-> e.parent_id, percent |-> e.percent, meta |-> e.meta,
       agents |-> reporters, updated_at_ms |-> s.received_at_ms]

\* The task bookkeeping of `ingest`: update the node, or create it.
UpdatedTask(s) ==
  LET e == s.event
      known == e.task_id \in DOMAIN tasks
      old == tasks[e.task_id].val
      reporters == IF known THEN old.agents \cup {e.agent} ELSE {e.agent}
  IN  [parent_id |-> e.parent_id,
       percent |-> e.percent,
       meta |-> IF known THEN old.meta \/ e.meta \/ Cardinality(reporters) > 1
                         ELSE e.meta,
       agents |-> reporters,
       updated_at_ms |-> s.received_at_ms]

NewLesson(s) ==
  [seq |-> s.seq, agent |-> s.event.agent, topic |-> s.event.topic,
   recorded_at_ms |-> s.received_at_ms]

\* The stored form of an event that gets the lock next.
Stored(transport, e, now) ==
  [seq |-> seq + 1, received_at_ms |-> now, transport |-> transport, event |-> e]

\* Faulty variants of the steps below: an agent or a task already known is
\* updated without moving to the front; only a registration makes an agent
\* known; a lesson or an event goes to a cache of
\* another size.
RecordAgentInPlace(s) ==
  LET name == agent_name(s.event)
      r == UpdatedAgent(KnownAgent(name, s.received_at_ms), s)
  IN  agents' = IF name \in DOMAIN agents
                  THEN [agents EXCEPT ![name].val = r]
                  ELSE Put(agents, name, r, s.seq, cap(MaxAgents))
RecordAgentIfKnown(s) ==
  LET name == agent_name(s.event)
      r == UpdatedAgent(KnownAgent(name, s.received_at_ms), s)
  IN  agents' = IF name \in DOMAIN agents \/ s.event.type = "register"
                  THEN Put(agents, name, r, s.seq, cap(MaxAgents))
                  ELSE agents
RecordTaskInPlace(s) ==
  LET t == s.event.task_id
  IN  tasks' = IF s.event.type # "task" THEN tasks
               ELSE IF t \in DOMAIN tasks
                      THEN [tasks EXCEPT ![t].val = UpdatedTask(s)]
                      ELSE Put(tasks, t, UpdatedTask(s), s.seq, cap(MaxTasks))
RecordLessonWrongSize(s) ==
  lessons' = IF s.event.type = "learning"
               THEN Put(lessons, s.seq, NewLesson(s), s.seq, cap(MaxTasks))
               ELSE lessons
RecordRecentWrongSize(s) ==
  recent' = Put(recent, s.seq, s, s.seq, cap(EventsPerAgent))

\* The four steps of the critical section of `ingest`, for the stored event s.
RecordAgent(s) ==
  LET name == agent_name(s.event)
  IN  agents' = Put(agents, name,
                    UpdatedAgent(KnownAgent(name, s.received_at_ms), s),
                    s.seq, cap(MaxAgents))

RecordTask(s) ==
  tasks' = IF s.event.type = "task"
             THEN Put(tasks, s.event.task_id, UpdatedTask(s), s.seq, cap(MaxTasks))
             ELSE tasks

RecordLesson(s) ==
  lessons' = IF s.event.type = "learning"
               THEN Put(lessons, s.seq, NewLesson(s), s.seq, cap(MaxLessons))
               ELSE lessons

RecordRecent(s) ==
  recent' = Put(recent, s.seq, s, s.seq, cap(RecentEvents))

\* LruStorage::ingest on an event that passes validation; one that does not
\* returns Err before the clock is read and changes nothing.
Ingest(transport, e, now) ==
  /\ seq < MaxSeq
  /\ validated(e)
  /\ LET s == Stored(transport, e, now)
     IN  /\ seq' = s.seq
         /\ RecordAgent(s)
         /\ RecordTask(s)
         /\ RecordLesson(s)
         /\ RecordRecent(s)

\* The queries (agents, agent, events_for, recent_events, tasks, lessons) take
\* the same lock and copy; events_for looks one agent up without touching it.
Query(name) ==
  /\ agents' = Peek(agents, name)
  /\ UNCHANGED <<seq, recent, tasks, lessons>>

Next ==
  \/ \E transport \in Via, e \in Inputs, now \in Times : Ingest(transport, e, now)
  \/ \E name \in AgentName : Query(name)

Spec == Init /\ [][Next]_storageVars
-----------------------------------------------------------------------------
(***************************************************************************)
(* What the store promises its readers.                                    *)
(***************************************************************************)

\* Every cache holds what it is declared to hold (storage.rs:62-81).
TypeOK ==
  /\ seq \in 0 .. MaxSeq
  /\ IsCache(agents, AgentName) /\ \A r \in Values(agents) : IsAgentRecord(r)
  /\ IsCache(recent, 1 .. MaxSeq) /\ Values(recent) \subseteq StoredEvent
  /\ IsCache(tasks, TaskId) /\ Values(tasks) \subseteq TaskRecord
  /\ IsCache(lessons, 1 .. MaxSeq) /\ Values(lessons) \subseteq Lesson

\* No sequence of events makes a cache outgrow its capacity, and a capacity
\* of 0 means 1: the memory bound the README claims for every cache, those
\* inside the agent records included (storage.rs:89-102, 130-131).
CachesStayBounded ==
  /\ Bounded(agents, cap(MaxAgents))
  /\ Bounded(recent, cap(RecentEvents))
  /\ Bounded(tasks, cap(MaxTasks))
  /\ Bounded(lessons, cap(MaxLessons))
  /\ \A name \in DOMAIN agents :
       /\ Bounded(agents[name].val.events, cap(EventsPerAgent))
       /\ Bounded(agents[name].val.sessions, cap(SessionsPerAgent))

\* The global ring is a window: exactly the last cap(RecentEvents) numbers,
\* without a gap, each number on the event that got it (storage.rs:287).
RecentIsLatestWindow ==
  /\ DOMAIN recent = {i \in 1 .. seq : i > seq - cap(RecentEvents)}
  /\ \A i \in DOMAIN recent : recent[i].val.seq = i

\* The events of the global ring, and those of them stored after number i.
RecentEvent(i) == recent[i].val.event
After(i) == {j \in DOMAIN recent : j > i}

\* An agent is forgotten only after cap(MaxAgents) other agents were heard
\* from since its last event: any event renews it, and reads do not disturb
\* the order in which agents are forgotten (storage.rs:115-136, 316-320).
AgentsForgottenOnlyForOthers ==
  \A i \in DOMAIN recent :
    LET name == RecentEvent(i).agent
        others == {RecentEvent(j).agent : j \in After(i)} \ {name}
    IN  name \in DOMAIN agents \/ Cardinality(others) >= cap(MaxAgents)

\* The ring of an agent has no hole: it holds as many of the events counted
\* for the agent as fit, and a globally recent event of the agent is either in
\* it, as the same stored event, or older than all of it (storage.rs:206, 228).
RingsHaveNoGaps ==
  \A name \in DOMAIN agents :
    LET r == agents[name].val
        ring == r.events
    IN  /\ Cardinality(DOMAIN ring) =
             IF r.snapshot.events_ingested < cap(EventsPerAgent)
               THEN r.snapshot.events_ingested ELSE cap(EventsPerAgent)
        /\ \A i \in DOMAIN ring : ring[i].val.event.agent = name
        /\ \A i \in {j \in DOMAIN recent : RecentEvent(j).agent = name} :
             IF i \in DOMAIN ring THEN ring[i].val = recent[i].val
                                  ELSE \A j \in DOMAIN ring : j > i

\* The last of the events numbered in I, in a ring.
Latest(ring, I) == ring[CHOOSE i \in I : \A j \in I : j <= i].val

\* The summary of an agent is what replaying its ring gives: seen when its
\* last event arrived, and with the provider, confidence and strategy of the
\* last event that carries one.  While the ring has all events counted for the
\* agent and none carries one, it is what a new record has: an agent that was
\* evicted brings nothing back (storage.rs:116-132, 204-227).
SnapshotReplaysRing ==
  \A name \in DOMAIN agents :
    LET snap == agents[name].val.snapshot
        ring == agents[name].val.events
        Of(type) == {i \in DOMAIN ring : ring[i].val.event.type = type}
        rated == {i \in Of("metacognition") : ring[i].val.event.confidence # None}
        shifts == {i \in Of("metacognition") : ring[i].val.event.strategy # None}
    IN  /\ snap.last_seen_ms = Latest(ring, DOMAIN ring).received_at_ms
        /\ Of("register") # {} =>
             snap.provider = Latest(ring, Of("register")).event.provider
        /\ rated # {} => snap.last_confidence = Latest(ring, rated).event.confidence
        /\ shifts # {} => snap.current_strategy = Latest(ring, shifts).event.strategy
        /\ Cardinality(DOMAIN ring) = snap.events_ingested =>
             /\ Of("register") = {} => snap.provider = "other"
             /\ rated = {} => snap.last_confidence = None
             /\ shifts = {} => snap.current_strategy = None

\* A session is remembered until cap(SessionsPerAgent) other sessions of its
\* agent have registered since (storage.rs:210-212).
SessionsForgottenOnlyForOthers ==
  \A name \in DOMAIN agents :
    LET r == agents[name].val
        opened == {i \in DOMAIN r.events :
                     /\ r.events[i].val.event.type = "register"
                     /\ r.events[i].val.event.session # None}
        SessionOf(i) == r.events[i].val.event.session
    IN  \A i \in opened :
          \/ SessionOf(i) \in DOMAIN r.sessions
          \/ Cardinality({SessionOf(j) : j \in {k \in opened : k > i}} \ {SessionOf(i)})
               >= cap(SessionsPerAgent)

\* Every recent report on a task shows in its node: the reporter is listed and
\* the last report is the one displayed, unless cap(MaxTasks) other tasks were
\* reported on since (storage.rs:232-271).
TasksForgottenOnlyForOthers ==
  \A i \in {j \in DOMAIN recent : RecentEvent(j).type = "task"} :
    LET e == RecentEvent(i)
        later == {j \in After(i) : RecentEvent(j).type = "task"}
        others == {RecentEvent(j).task_id : j \in later} \ {e.task_id}
    IN  \/ Cardinality(others) >= cap(MaxTasks)
        \/ /\ e.task_id \in DOMAIN tasks
           /\ LET node == tasks[e.task_id].val
              IN  /\ e.agent \in node.agents
                  /\ e.meta => node.meta
                  /\ (\A j \in later : RecentEvent(j).task_id # e.task_id) =>
                       /\ node.parent_id = e.parent_id
                       /\ node.percent = e.percent
                       /\ node.updated_at_ms = recent[i].val.received_at_ms

\* A node reported on by two agents carries the meta flag, and while a node
\* stays in the store no report takes an agent or the flag from it, whatever
\* its own `meta` says (storage.rs:242-250).
SharedTasksStayMeta ==
  [][\A t \in DOMAIN tasks \cap DOMAIN tasks' :
       /\ tasks[t].val.agents \subseteq tasks'[t].val.agents
       /\ tasks[t].val.meta => tasks'[t].val.meta
       /\ Cardinality(tasks'[t].val.agents) > 1 => tasks'[t].val.meta]_storageVars

\* The lessons kept are those of the last cap(MaxLessons) learning events, and
\* each is the lesson its event taught (storage.rs:274-285).
LessonsAreTheLatest ==
  \A i \in {j \in DOMAIN recent : RecentEvent(j).type = "learning"} :
    LET later == {j \in After(i) : RecentEvent(j).type = "learning"}
    IN  IF Cardinality(later) >= cap(MaxLessons)
          THEN i \notin DOMAIN lessons
          ELSE /\ i \in DOMAIN lessons
               /\ lessons[i].val.agent = RecentEvent(i).agent
               /\ lessons[i].val.topic = RecentEvent(i).topic

-----------------------------------------------------------------------------
(***************************************************************************)
(* What the repository says of the program and the program does not do.    *)
(***************************************************************************)

\* model.rs:238 calls events_ingested the "Total events ever ingested for this
\* agent (not bounded by the LRU)"; then it counts at least the events of the
\* agent that the global ring still shows.
TotalsCountEveryEvent ==
  \A name \in DOMAIN agents :
    agents[name].val.snapshot.events_ingested
      >= Cardinality({i \in DOMAIN recent : RecentEvent(i).agent = name})
===============================================================================
