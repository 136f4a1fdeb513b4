----------------------------- MODULE Pages_proofs -----------------------------
(***************************************************************************)
(* What the queries and the pages made from them show, for every           *)
(* configuration, input and clock: proofs about the modules Queries, Chart *)
(* and Pages.                                                              *)
(***************************************************************************)
EXTENDS Chart, Storage_proofs, SequenceTheorems

-----------------------------------------------------------------------------
(***************************************************************************)
(* Lists.                                                                  *)
(***************************************************************************)

\* A strict total order, as the set of its pairs.
IsOrder(A, S) ==
  /\ \A a \in S : <<a, a>> \notin A
  /\ \A a, b, c \in S : <<a, b>> \in A /\ <<b, c>> \in A => <<a, c>> \in A
  /\ \A a, b \in S : a = b \/ <<a, b>> \in A \/ <<b, a>> \in A

\* How many members of S are ahead of k.
Before(A, S, k) == {j \in S : <<j, k>> \in A}
Place(A, S, k) == Cardinality(Before(A, S, k))

\* In a finite set, each has a place of its own, and each place is taken.
LEMMA PlacesAreTaken ==
  ASSUME NEW S, IsFiniteSet(S), NEW A, IsOrder(A, S)
  PROVE  /\ Cardinality(S) \in Nat
         /\ \A k \in S : Place(A, S, k) \in 0 .. Cardinality(S) - 1
         /\ \A a, b \in S : <<a, b>> \in A <=> Place(A, S, a) < Place(A, S, b)
         /\ \A a, b \in S : Place(A, S, a) = Place(A, S, b) => a = b
         /\ \A i \in 1 .. Cardinality(S) : \E k \in S : Place(A, S, k) = i - 1
PROOF
<1> DEFINE n == Cardinality(S)
           r == [k \in S |-> Place(A, S, k)]
<1>1. n \in Nat
  BY FS_CardinalityType
<1>2. \A k \in S : IsFiniteSet(Before(A, S, k)) /\ Cardinality(Before(A, S, k)) \in Nat
  <2> SUFFICES ASSUME NEW k \in S
               PROVE  IsFiniteSet(Before(A, S, k)) /\ Cardinality(Before(A, S, k)) \in Nat
    OBVIOUS
  <2>1. Before(A, S, k) \in SUBSET S
    BY DEF Before
  <2>2. IsFiniteSet(Before(A, S, k))
    BY <2>1, FS_Subset
  <2> QED
    BY <2>2, FS_CardinalityType
<1>3. \A k \in S : Place(A, S, k) \in 0 .. n - 1
  <2> SUFFICES ASSUME NEW k \in S PROVE Place(A, S, k) \in 0 .. n - 1
    OBVIOUS
  <2>1. Before(A, S, k) \in SUBSET (S \ {k})
    BY DEF IsOrder, Before
  <2>2. IsFiniteSet(S \ {k}) /\ Cardinality(S \ {k}) = n - 1
    BY FS_RemoveElement
  <2>3. Cardinality(Before(A, S, k)) <= n - 1
    BY <2>1, <2>2, FS_Subset
  <2> QED
    BY <1>1, <1>2, <2>3 DEF Place
<1>4. \A a, b \in S : <<a, b>> \in A => Place(A, S, a) < Place(A, S, b)
  <2> SUFFICES ASSUME NEW a \in S, NEW b \in S, <<a, b>> \in A
               PROVE  Place(A, S, a) < Place(A, S, b)
    OBVIOUS
  <2>1. Before(A, S, a) \in SUBSET Before(A, S, b) /\ a \in Before(A, S, b) /\ a \notin Before(A, S, a)
    BY DEF IsOrder, Before
  <2>2. Cardinality(Before(A, S, a)) <= Cardinality(Before(A, S, b))
    BY <1>2, <2>1, FS_Subset
  <2>3. Cardinality(Before(A, S, a)) # Cardinality(Before(A, S, b))
    BY <1>2, <2>1, FS_Subset
  <2>4. /\ Cardinality(Before(A, S, a)) \in Nat
        /\ Cardinality(Before(A, S, b)) \in Nat
    BY <1>2
  <2>5. Cardinality(Before(A, S, a)) < Cardinality(Before(A, S, b))
    BY <2>2, <2>3, <2>4
  <2> QED
    BY <2>5 DEF Place
<1>5. \A a, b \in S : Place(A, S, a) = Place(A, S, b) => a = b
  <2> SUFFICES ASSUME NEW a \in S, NEW b \in S, Place(A, S, a) = Place(A, S, b), a # b
               PROVE  FALSE
    OBVIOUS
  <2>1. <<a, b>> \in A \/ <<b, a>> \in A
    BY DEF IsOrder
  <2>2. Place(A, S, a) \in Nat
    BY <1>3
  <2> QED
    BY <1>4, <2>1, <2>2
<1>6. \A a, b \in S : <<a, b>> \in A <=> Place(A, S, a) < Place(A, S, b)
  <2> SUFFICES ASSUME NEW a \in S, NEW b \in S, Place(A, S, a) < Place(A, S, b)
               PROVE  <<a, b>> \in A
    BY <1>4
  <2>1. Place(A, S, a) \in Nat /\ Place(A, S, b) \in Nat
    BY <1>3
  <2>2. a # b /\ ~(Place(A, S, b) < Place(A, S, a))
    BY <2>1
  <2> QED
    BY <1>4, <2>2 DEF IsOrder
<1>7. \A i \in 1 .. n : \E k \in S : Place(A, S, k) = i - 1
  <2>1. r \in Injection(S, 0 .. n - 1)
    <3>1. r \in [S -> 0 .. n - 1]
      BY <1>3
    <3>2. \A a, b \in S : r[a] = r[b] => a = b
      BY <1>5
    <3> QED
      BY <3>1, <3>2, Fun_IsInj
  <2>2. IsFiniteSet(0 .. n - 1) /\ Cardinality(0 .. n - 1) = n
    <3>1. 0 \in Int /\ n - 1 \in Int
      BY <1>1
    <3>2. /\ IsFiniteSet(0 .. n - 1)
          /\ Cardinality(0 .. n - 1) = (IF 0 > n - 1 THEN 0 ELSE (n - 1) - 0 + 1)
      BY <3>1, FS_Interval
    <3> QED
      BY <1>1, <3>2
  <2>3. r \in Surjection(S, 0 .. n - 1)
    <3> HIDE DEF r
    <3>1. PICK T : T = 0 .. n - 1
      OBVIOUS
    <3>2. /\ r \in Injection(S, T) /\ IsFiniteSet(T)
          /\ Cardinality(S) = Cardinality(T)
      BY <2>1, <2>2, <3>1
    <3>3. r \in Surjection(S, T)
      BY <3>2, FS_Injection
    <3> QED
      BY <3>1, <3>3
  <2>4. \A m \in 0 .. n - 1 : \E k \in S : r[k] = m
    BY <2>3 DEF Surjection
  <2>5. \A i \in 1 .. n : i - 1 \in 0 .. n - 1
    BY <1>1
  <2> QED
    BY <2>4, <2>5
<1> QED
  BY <1>1, <1>3, <1>5, <1>6, <1>7

\* No two entries of a cache were moved to the front at the same moment.
Distinct(c) == \A a, b \in DOMAIN c : c[a].used = c[b].used => a = b

\* The list of a cache by time has each key once, and first the one that is ahead
\* of all others.
LEMMA ByTimeLists ==
  ASSUME NEW c, NEW at, IsFiniteSet(DOMAIN c), Distinct(c),
         \A k \in DOMAIN c : c[k].used \in Nat /\ at[k] \in Nat
  PROVE  /\ ByTime(c, at) \in Seq(DOMAIN c)
         /\ Len(ByTime(c, at)) = Cardinality(DOMAIN c)
         /\ {ByTime(c, at)[i] : i \in DOMAIN ByTime(c, at)} = DOMAIN c
         /\ \A k \in DOMAIN c :
              (\A j \in DOMAIN c : j # k => Ahead(c, at, k, j)) => ByTime(c, at)[1] = k
PROOF
<1> DEFINE S == DOMAIN c
           A == {p \in S \X S : Ahead(c, at, p[1], p[2])}
           L == ByTime(c, at)
           n == Cardinality(S)
<1>1. \A a, b \in S : <<a, b>> \in A <=> Ahead(c, at, a, b)
  OBVIOUS
<1>2. IsOrder(A, S)
  <2>1. \A a \in S : ~Ahead(c, at, a, a)
    BY DEF Ahead
  <2>2. \A a, b, d \in S : Ahead(c, at, a, b) /\ Ahead(c, at, b, d) => Ahead(c, at, a, d)
    BY DEF Ahead
  <2>3. \A a, b \in S : a = b \/ Ahead(c, at, a, b) \/ Ahead(c, at, b, a)
    BY DEF Ahead, Distinct
  <2> HIDE DEF A, S
  <2> QED
    BY <1>1, <2>1, <2>2, <2>3 DEF IsOrder
<1>3. \A k \in S : {j \in S : Ahead(c, at, j, k)} = Before(A, S, k)
  <2> HIDE DEF A, S
  <2> QED
    BY <1>1 DEF Before
<1> HIDE DEF A
<1>4. /\ n \in Nat
      /\ \A k \in S : Place(A, S, k) \in 0 .. n - 1
      /\ \A a, b \in S : <<a, b>> \in A <=> Place(A, S, a) < Place(A, S, b)
      /\ \A a, b \in S : Place(A, S, a) = Place(A, S, b) => a = b
      /\ \A i \in 1 .. n : \E k \in S : Place(A, S, k) = i - 1
  BY <1>2, PlacesAreTaken
<1>5. /\ L \in [1 .. n -> S]
      /\ \A i \in 1 .. n : L[i] = CHOOSE k \in S : Place(A, S, k) = i - 1
  <2>1. \A k \in S : Cardinality({j \in S : Ahead(c, at, j, k)}) = Place(A, S, k)
    BY <1>3 DEF Place
  <2>2. \A i \in 1 .. n :
          (CHOOSE k \in S : Cardinality({j \in S : Ahead(c, at, j, k)}) = i - 1)
            = CHOOSE k \in S : Place(A, S, k) = i - 1
    BY <2>1
  <2>3. L = [i \in 1 .. n |->
               CHOOSE k \in S : Cardinality({j \in S : Ahead(c, at, j, k)}) = i - 1]
    BY Zenon DEF ByTime
  <2> HIDE DEF L, S, n
  <2>4. L \in [1 .. n -> S]
    <3>1. \A i \in 1 .. n :
            (CHOOSE k \in S : Cardinality({j \in S : Ahead(c, at, j, k)}) = i - 1) \in S
      BY <1>4, <2>1
    <3> QED
      BY <2>3, <3>1
  <2>5. \A i \in 1 .. n :
          L[i] = CHOOSE k \in S : Cardinality({j \in S : Ahead(c, at, j, k)}) = i - 1
    BY <2>3
  <2> QED
    BY <2>2, <2>4, <2>5
<1> HIDE DEF L, n
<1>6. \A i \in 1 .. n : L[i] \in S /\ Place(A, S, L[i]) = i - 1
  <2> SUFFICES ASSUME NEW i \in 1 .. n PROVE L[i] \in S /\ Place(A, S, L[i]) = i - 1
    OBVIOUS
  <2>1. \E k \in S : Place(A, S, k) = i - 1
    BY <1>4
  <2> QED
    BY <1>5, <2>1
<1>7. L \in Seq(S) /\ Len(L) = n
  BY <1>4, <1>5, <1>6
<1>8. {L[i] : i \in DOMAIN L} = S
  <2>1. ASSUME NEW k \in S PROVE \E i \in DOMAIN L : L[i] = k
    <3>1. Place(A, S, k) + 1 \in 1 .. n
      BY <1>4
    <3>2. PICK i \in 1 .. n : i = Place(A, S, k) + 1
      BY <3>1
    <3>3. Place(A, S, k) = i - 1 /\ Place(A, S, L[i]) = i - 1 /\ L[i] \in S
      BY <1>4, <1>6, <3>2
    <3> QED
      BY <1>4, <1>5, <3>3
  <2>2. \A i \in DOMAIN L : L[i] \in S
    BY <1>5, <1>6
  <2> HIDE DEF S
  <2> QED
    BY <2>1, <2>2
<1>9. ASSUME NEW k \in S, \A j \in S : j # k => Ahead(c, at, k, j)
      PROVE  L[1] = k
  <2>1. Place(A, S, k) \in 0 .. n - 1
    BY <1>4
  <2>2. 1 \in 1 .. n
    BY <1>4, <2>1
  <2>3. L[1] \in S /\ Place(A, S, L[1]) = 0
    BY <1>6, <2>2
  <2>4. ~(Place(A, S, k) < Place(A, S, L[1]))
    BY <1>4, <2>1, <2>3
  <2>5. <<k, L[1]>> \notin A
    BY <1>4, <2>3, <2>4
  <2> QED
    BY <1>1, <1>9, <2>3, <2>5
<1> QED
  BY <1>7, <1>8, <1>9 DEF L, n

-----------------------------------------------------------------------------
(***************************************************************************)
(* What the lists say of the last event.                                   *)
(***************************************************************************)

LEMMA PutDistinct ==
  ASSUME NEW K, NEW c, IsCache(c, K), Distinct(c), NEW n \in Nat, UsedUpTo(c, n),
         NEW k, NEW v, NEW C
  PROVE  Distinct(Put(c, k, v, n + 1, C))
PROOF
<1> DEFINE p == Put(c, k, v, n + 1, C)
<1>1. /\ p[k] = [val |-> v, used |-> n + 1]
      /\ \A j \in DOMAIN p : j # k => j \in DOMAIN c /\ p[j] = c[j]
  BY PutDomain
<1>2. \A j \in DOMAIN c : c[j].used \in Nat /\ c[j].used <= n
  BY DEF IsCache, UsedUpTo
<1> HIDE DEF p
<1>3. p[k].used = n + 1
  BY <1>1
<1>4. \A j \in DOMAIN p : j # k => p[j].used = c[j].used /\ p[j].used # n + 1
  BY <1>1, <1>2
<1>5. \A a, b \in DOMAIN p : p[a].used = p[b].used => a = b
  <2> SUFFICES ASSUME NEW a \in DOMAIN p, NEW b \in DOMAIN p, p[a].used = p[b].used
               PROVE  a = b
    OBVIOUS
  <2>1. CASE a # k /\ b # k
    BY <1>1, <1>4, <2>1 DEF Distinct
  <2>2. CASE a = k \/ b = k
    BY <1>3, <1>4, <2>2
  <2> QED
    BY <2>1, <2>2
<1> QED
  BY <1>5 DEF Distinct, p

\* A session is remembered with the time of the event that registered it last.
Stamped(c, g) ==
  \A o \in DOMAIN c : c[o].used \in DOMAIN g => c[o].val = g[c[o].used].val.received_at_ms

\* Each event of a ring is kept at its number.
Numbered(ring) == \A i \in DOMAIN ring : ring[i].val.seq = i

\* What the order of the lists rests on.
StampsInv ==
  /\ Distinct(agents) /\ Distinct(tasks)
  /\ \A i \in DOMAIN lessons : lessons[i].val.seq = i
  /\ \A name \in DOMAIN agents : /\ Numbered(agents[name].val.events)
                                 /\ Distinct(agents[name].val.sessions)
                                 /\ Stamped(agents[name].val.sessions, recent)

LEMMA UpdatedSessionsAreStamped ==
  ASSUME NEW K, NEW c, IsCache(c, K), Distinct(c), NEW n \in Nat, UsedUpTo(c, n),
         NEW g, NEW h, NEW s, s.seq = n + 1, Stamped(c, g), h[n + 1].val = s,
         \A i \in DOMAIN h : i # n + 1 => i \in DOMAIN g /\ h[i] = g[i]
  PROVE  /\ Distinct(UpdatedSessions(c, s))
         /\ Stamped(UpdatedSessions(c, s), h)
PROOF
<1>0. \A j \in DOMAIN c : c[j].used \in Nat /\ c[j].used # n + 1
  BY DEF IsCache, UsedUpTo
<1>1. Stamped(c, h)
  BY <1>0 DEF Stamped
<1>2. CASE s.event.type = "register" /\ s.event.session # None
  <2> DEFINE k == s.event.session
             v == s.received_at_ms
             p == Put(c, k, v, n + 1, cap(SessionsPerAgent))
  <2>1. UpdatedSessions(c, s) = p
    BY <1>2 DEF UpdatedSessions
  <2>2. PICK k0, v0, C0 : k0 = k /\ v0 = v /\ p = Put(c, k0, v0, n + 1, C0)
    OBVIOUS
  <2> HIDE DEF p, k, v
  <2>3. /\ Distinct(p)
        /\ p[k] = [val |-> v, used |-> n + 1]
        /\ \A j \in DOMAIN p : j # k => j \in DOMAIN c /\ p[j] = c[j]
    <3>1. Distinct(Put(c, k0, v0, n + 1, C0))
      BY <1>0, PutDistinct
    <3>2. PICK m : m = n + 1
      OBVIOUS
    <3>3. /\ Put(c, k0, v0, m, C0)[k0] = [val |-> v0, used |-> m]
          /\ \A j \in DOMAIN Put(c, k0, v0, m, C0) :
               j # k0 => j \in DOMAIN c /\ Put(c, k0, v0, m, C0)[j] = c[j]
      BY PutDomain, SMTT(30)
    <3> QED
      BY <2>2, <3>1, <3>2, <3>3, Zenon
  <2>4. p[k].used = n + 1 /\ p[k].val = h[n + 1].val.received_at_ms
    BY <2>3 DEF v
  <2>5. Stamped(p, h)
    BY <1>1, <2>3, <2>4 DEF Stamped
  <2> QED
    BY <2>1, <2>3, <2>5
<1>3. CASE ~(s.event.type = "register" /\ s.event.session # None)
  <2>1. UpdatedSessions(c, s) = c
    BY <1>3 DEF UpdatedSessions
  <2> QED
    BY <1>1, <2>1
<1> QED
  BY <1>2, <1>3

LEMMA StepKeepsStamps ==
  ASSUME StorageAssumption, StoreBase, StoreBase', AgentsInv, TasksInv, LessonsInv,
         AgentRecordsInv, StampsInv, NEW s \in StoredEvent, Step(s)
  PROVE  StampsInv'
PROOF
<1>1. /\ seq \in Nat /\ s.seq = seq + 1
      /\ RecordAgent(s) /\ RecordTask(s) /\ RecordLesson(s)
      /\ TypeOK /\ RecentInv /\ RecentInv'
  BY DEF Step, StoreBase
<1>2. /\ recent'[seq + 1].val = s
      /\ \A i \in DOMAIN recent' : i # seq + 1 => i \in DOMAIN recent /\ recent'[i] = recent[i]
  BY <1>1, WindowMoves
<1>3. /\ IsCache(agents, AgentName) /\ IsCache(tasks, TaskId)
      /\ UsedUpTo(agents, seq) /\ UsedUpTo(tasks, seq)
      /\ \A a \in DOMAIN agents : IsAgentRecord(agents[a].val)
  BY <1>1 DEF TypeOK, AgentsInv, TasksInv, Values
<1> DEFINE name == agent_name(s.event)
           known == KnownAgent(name, s.received_at_ms)
           u == UpdatedAgent(known, s)
<1>4. /\ IsCache(known.sessions, Session) /\ Distinct(known.sessions)
      /\ UsedUpTo(known.sessions, seq) /\ Stamped(known.sessions, recent)
      /\ Numbered(known.events)
  <2>1. CASE name \in DOMAIN agents
    <3>1. known = agents[name].val
      BY <2>1 DEF KnownAgent
    <3>2. UsedUpTo(agents[name].val.sessions, seq)
      BY <2>1 DEF AgentRecordsInv, RecordInv, SessionsFollow
    <3> QED
      BY <1>3, <2>1, <3>1, <3>2 DEF StampsInv, IsAgentRecord
  <2>2. CASE name \notin DOMAIN agents
    <3>1. known.sessions = EmptyCache /\ known.events = EmptyCache
      BY <2>2 DEF KnownAgent, NewAgent
    <3>2. IsCache(EmptyCache, Session) /\ DOMAIN EmptyCache = {}
      BY EmptyCacheIsCache
    <3> QED
      BY <3>1, <3>2 DEF Distinct, UsedUpTo, Stamped, Numbered
  <2> QED
    BY <2>1, <2>2
<1>5. u.sessions = UpdatedSessions(known.sessions, s)
  BY DEF UpdatedAgent
<1>6. Numbered(u.events)
  <2> DEFINE p == Put(known.events, s.seq, s, s.seq, cap(EventsPerAgent))
  <2>1. u.events = p
    BY DEF UpdatedAgent
  <2>2. PICK c : c = known.events
    OBVIOUS
  <2>3. /\ p[s.seq] = [val |-> s, used |-> s.seq]
        /\ \A j \in DOMAIN p : j # s.seq => j \in DOMAIN c /\ p[j] = c[j]
    <3> HIDE DEF known
    <3> QED
      BY <2>2, PutDomain
  <2> HIDE DEF p, u, known
  <2> QED
    BY <1>4, <2>1, <2>2, <2>3 DEF Numbered
<1>7. Distinct(u.sessions) /\ Stamped(u.sessions, recent')
  <2>1. PICK c, h : c = known.sessions /\ h = recent'
    OBVIOUS
  <2>2. /\ IsCache(c, Session) /\ Distinct(c) /\ UsedUpTo(c, seq) /\ Stamped(c, recent)
        /\ h[seq + 1].val = s
        /\ \A i \in DOMAIN h : i # seq + 1 => i \in DOMAIN recent /\ h[i] = recent[i]
    BY <1>2, <1>4, <2>1
  <2>3. Distinct(UpdatedSessions(c, s)) /\ Stamped(UpdatedSessions(c, s), h)
    BY <1>1, <2>2, UpdatedSessionsAreStamped
  <2> QED
    BY <1>5, <2>1, <2>3
<1>8. /\ agents' = Put(agents, name, u, seq + 1, cap(MaxAgents))
      /\ agents'[name].val = u
      /\ \A a \in DOMAIN agents' : a # name => a \in DOMAIN agents /\ agents'[a] = agents[a]
  <2>1. agents' = Put(agents, name, u, seq + 1, cap(MaxAgents))
    BY <1>1 DEF RecordAgent
  <2> HIDE DEF u
  <2>2. /\ agents'[name] = [val |-> u, used |-> seq + 1]
        /\ \A a \in DOMAIN agents' : a # name => a \in DOMAIN agents /\ agents'[a] = agents[a]
    BY <2>1, PutDomain
  <2> QED
    BY <2>1, <2>2
<1> HIDE DEF u, known
<1>9. Distinct(agents')
  BY <1>1, <1>3, <1>8, PutDistinct DEF StampsInv
<1>10. Distinct(tasks')
  <2>1. CASE s.event.type = "task"
    <3>1. tasks' = Put(tasks, s.event.task_id, UpdatedTask(s), seq + 1, cap(MaxTasks))
      BY <1>1, <2>1 DEF RecordTask
    <3> QED
      BY <1>1, <1>3, <3>1, PutDistinct DEF StampsInv
  <2>2. CASE s.event.type # "task"
    BY <1>1, <2>2 DEF RecordTask, StampsInv
  <2> QED
    BY <2>1, <2>2
<1>11. \A i \in DOMAIN lessons' : lessons'[i].val.seq = i
  <2>1. CASE s.event.type = "learning"
    <3>1. lessons' = Put(lessons, seq + 1, NewLesson(s), seq + 1, cap(MaxLessons))
      BY <1>1, <2>1 DEF RecordLesson
    <3>2. NewLesson(s).seq = seq + 1
      BY <1>1 DEF NewLesson
    <3>3. /\ lessons'[seq + 1] = [val |-> NewLesson(s), used |-> seq + 1]
          /\ \A i \in DOMAIN lessons' :
               i # seq + 1 => i \in DOMAIN lessons /\ lessons'[i] = lessons[i]
      BY <3>1, PutDomain
    <3> QED
      BY <3>2, <3>3 DEF StampsInv
  <2>2. CASE s.event.type # "learning"
    BY <1>1, <2>2 DEF RecordLesson, StampsInv
  <2> QED
    BY <2>1, <2>2
<1>12. ASSUME NEW a \in DOMAIN agents'
       PROVE  /\ Numbered(agents'[a].val.events)
              /\ Distinct(agents'[a].val.sessions)
              /\ Stamped(agents'[a].val.sessions, recent')
  <2>1. CASE a = name
    BY <1>6, <1>7, <1>8, <2>1
  <2>2. CASE a # name
    <3> DEFINE c == agents[a].val.sessions
    <3>1. /\ a \in DOMAIN agents /\ agents'[a].val.sessions = c
          /\ Numbered(agents'[a].val.events)
      BY <1>8, <2>2 DEF StampsInv
    <3>2. Distinct(c) /\ Stamped(c, recent) /\ UsedUpTo(c, seq) /\ IsCache(c, Session)
      BY <1>3, <3>1 DEF StampsInv, AgentRecordsInv, RecordInv, SessionsFollow, IsAgentRecord
    <3> HIDE DEF c
    <3>3. \A o \in DOMAIN c : c[o].used # seq + 1
      BY <1>1, <3>2 DEF UsedUpTo, IsCache
    <3>4. Stamped(c, recent')
      BY <1>2, <3>2, <3>3 DEF Stamped
    <3> QED
      BY <3>1, <3>2, <3>4
  <2> QED
    BY <2>1, <2>2
<1> QED
  BY <1>9, <1>10, <1>11, <1>12 DEF StampsInv

LEMMA StampsInvHolds == Spec => []StampsInv
PROOF
<1>1. Init => StampsInv
  BY EmptyCacheIsCache DEF Init, StampsInv, Distinct
<1>2. StoreBase /\ StoreBase' /\ AgentsInv /\ TasksInv /\ LessonsInv /\ AgentRecordsInv
        /\ StampsInv /\ [Next]_storageVars => StampsInv'
  <2> SUFFICES ASSUME StoreBase, StoreBase', AgentsInv, TasksInv, LessonsInv,
                      AgentRecordsInv, StampsInv, [Next]_storageVars
               PROVE  StampsInv'
    OBVIOUS
  <2>1. ASSUME NEW s \in StoredEvent, Step(s) PROVE StampsInv'
    BY <2>1, StorageAssumption, StepKeepsStamps
  <2>2. CASE UNCHANGED storageVars
    BY <2>2 DEF storageVars, StampsInv
  <2> QED
    BY <2>1, <2>2, StorageAssumption, NextIsStep DEF StoreBase
<1> QED
  BY <1>1, <1>2, StoreBaseHolds, AgentsInvHolds, TasksInvHolds, LessonsInvHolds,
     AgentRecordsInvHolds, PTL DEF Spec

\* What a history was about last is held, moved to the front at that moment.
LEMMA LastIsHeld ==
  ASSUME NEW K, NEW c, IsCache(c, K), IsFiniteSet(DOMAIN c), NEW C \in Nat, C >= 1,
         NEW f, Follows(c, f, C), NEW n \in Nat, UsedUpTo(c, n), n \in DOMAIN f
  PROVE  f[n] \in DOMAIN c /\ c[f[n]].used = n
PROOF
<1>1. \A k \in DOMAIN c : c[k].used \in Nat /\ c[k].used <= n
  BY DEF IsCache, UsedUpTo
<1>2. f[n] \in DOMAIN c
  <2> SUFFICES ASSUME f[n] \notin DOMAIN c PROVE FALSE
    OBVIOUS
  <2>1. Cardinality(DOMAIN c) >= C /\ \A k \in DOMAIN c : n < c[k].used
    BY DEF Follows
  <2>2. DOMAIN c = {}
    <3>1. \A k \in DOMAIN c : FALSE
      BY <1>1, <2>1
    <3> QED
      BY <3>1
  <2>3. Cardinality(DOMAIN c) = 0
    BY <2>2, FS_EmptySet
  <2> QED
    BY <2>1, <2>3
<1>3. n <= c[f[n]].used
  BY <1>2 DEF Follows
<1> QED
  BY <1>1, <1>2, <1>3

\* Nothing with a later time: what was moved to the front last is listed first.
LEMMA LastIsListedFirst ==
  ASSUME NEW c, NEW at, IsFiniteSet(DOMAIN c), Distinct(c),
         \A k \in DOMAIN c : c[k].used \in Nat /\ at[k] \in Nat,
         NEW n \in Nat, UsedUpTo(c, n), NEW k \in DOMAIN c, c[k].used = n,
         \A j \in DOMAIN c : at[j] <= at[k]
  PROVE  ByTime(c, at)[1] = k
PROOF
<1>1. ASSUME NEW j \in DOMAIN c, j # k PROVE Ahead(c, at, k, j)
  <2>1. c[j].used # n /\ c[j].used <= n
    BY <1>1 DEF Distinct, UsedUpTo
  <2>2. at[j] <= at[k] /\ at[j] \in Nat /\ at[k] \in Nat /\ c[j].used \in Nat
    BY <1>1
  <2>3. c[k].used > c[j].used
    BY <2>1, <2>2
  <2> QED
    BY <2>2, <2>3 DEF Ahead
<1> QED
  BY <1>1, ByTimeLists

\* What the store says of its last event s, whose number is seq.
AgentShows(s) ==
  /\ s.event.agent \in DOMAIN agents
  /\ agents[s.event.agent].used = seq
  /\ agents[s.event.agent].val.snapshot.last_seen_ms = s.received_at_ms
TaskShows(s) ==
  s.event.type = "task" =>
    /\ s.event.task_id \in DOMAIN tasks
    /\ tasks[s.event.task_id].used = seq
    /\ tasks[s.event.task_id].val.updated_at_ms = s.received_at_ms
SessionShows(s) ==
  s.event.type = "register" /\ s.event.session # None =>
    LET known == agents[s.event.agent].val.sessions
    IN  /\ s.event.session \in DOMAIN known
        /\ known[s.event.session] = [val |-> s.received_at_ms, used |-> seq]

LEMMA LastEventShows ==
  ASSUME StorageAssumption, StoreBase, AgentsInv, TasksInv, LessonsInv, AgentRecordsInv,
         StampsInv, NEW s, seq \in DOMAIN recent, s = recent[seq].val
  PROVE  /\ AgentShows(s) /\ TaskShows(s) /\ SessionShows(s)
         /\ s.event.type = "learning" => seq \in DOMAIN lessons
PROOF
<1>1. /\ TypeOK /\ seq \in Nat
      /\ IsCache(agents, AgentName) /\ IsFiniteSet(DOMAIN agents)
      /\ IsCache(tasks, TaskId) /\ IsFiniteSet(DOMAIN tasks)
      /\ IsCache(lessons, 1 .. MaxSeq) /\ IsFiniteSet(DOMAIN lessons)
  BY DEF StoreBase, TypeOK, CachesStayBounded, Bounded
<1>2. /\ cap(MaxAgents) \in Nat /\ cap(MaxAgents) >= 1
      /\ cap(MaxTasks) \in Nat /\ cap(MaxTasks) >= 1
      /\ cap(MaxLessons) \in Nat /\ cap(MaxLessons) >= 1
      /\ cap(SessionsPerAgent) \in Nat /\ cap(SessionsPerAgent) >= 1
  BY CapIsPositive DEF StorageAssumption
<1>3. \A i \in DOMAIN recent : i \in Nat /\ i <= seq
  BY <1>1 DEF StoreBase, RecentInv, RecentIsLatestWindow
<1> DEFINE a == s.event.agent
<1>4. a \in DOMAIN agents /\ agents[a].used = seq
  <2>1. seq \in DOMAIN AgentLog /\ AgentLog[seq] = a
    BY DEF AgentLog, RecentEvent
  <2>2. Follows(agents, AgentLog, cap(MaxAgents)) /\ UsedUpTo(agents, seq)
    BY DEF AgentsInv
  <2> HIDE DEF a
  <2> QED
    BY <1>1, <1>2, <2>1, <2>2, LastIsHeld
<1> DEFINE r == agents[a].val
           ring == r.events
<1>5. /\ seq \in DOMAIN ring /\ ring[seq].val = s
      /\ Replayed(r.snapshot, ring)
      /\ \A i \in DOMAIN ring : i \in Nat /\ i <= seq
  <2>1. /\ DOMAIN ring # {} /\ RingIsFull(a, r, seq) /\ Replayed(r.snapshot, ring)
        /\ RingAgrees(a, ring, recent)
    BY <1>4 DEF AgentRecordsInv, RecordInv
  <2>2. \A i \in DOMAIN ring : i \in Nat /\ i <= seq
    <3>1. IsAgentRecord(r)
      BY <1>1, <1>4 DEF TypeOK, Values
    <3> HIDE DEF r
    <3> QED
      BY <2>1, <3>1 DEF RingIsFull, IsAgentRecord, IsCache
  <2>3. IF seq \in DOMAIN ring THEN ring[seq].val = recent[seq].val
                               ELSE \A j \in DOMAIN ring : j > seq
    <3>1. recent[seq].val.event.agent = a
      OBVIOUS
    <3> HIDE DEF ring, a
    <3> QED
      BY <2>1, <3>1 DEF RingAgrees
  <2> HIDE DEF ring, r, a
  <2>4. seq \in DOMAIN ring
    BY <1>1, <2>1, <2>2, <2>3
  <2> QED
    BY <2>1, <2>2, <2>3, <2>4
<1>6. AgentShows(s)
  <2> HIDE DEF ring
  <2>1. LastOf(seq, DOMAIN ring)
    BY <1>5 DEF LastOf
  <2>2. r.snapshot.last_seen_ms = s.received_at_ms
    BY <1>5, <2>1 DEF Replayed
  <2> QED
    BY <1>4, <2>2 DEF AgentShows
<1>7. TaskShows(s)
  <2> SUFFICES ASSUME s.event.type = "task"
               PROVE  /\ s.event.task_id \in DOMAIN tasks
                      /\ tasks[s.event.task_id].used = seq
                      /\ tasks[s.event.task_id].val.updated_at_ms = s.received_at_ms
    BY DEF TaskShows
  <2> DEFINE t == s.event.task_id
             f == TaskLog
  <2>1. /\ seq \in DOMAIN f /\ f[seq] = t
        /\ \A j \in DOMAIN f : j \in DOMAIN recent
    BY DEF TaskLog, RecentEvent
  <2>2. /\ Follows(tasks, f, cap(MaxTasks)) /\ UsedUpTo(tasks, seq)
        /\ ReportKept(f, tasks, seq, s)
    BY <2>1 DEF TasksInv
  <2> HIDE DEF t, f
  <2>3. t \in DOMAIN tasks /\ tasks[t].used = seq
    BY <1>1, <1>2, <2>1, <2>2, LastIsHeld
  <2>4. \A j \in DOMAIN f : ~(j > seq)
    BY <1>1, <1>3, <2>1
  <2>5. Cardinality({f[j] : j \in {m \in DOMAIN f : m > seq}} \ {f[seq]}) = 0
    <3>1. {f[j] : j \in {m \in DOMAIN f : m > seq}} \ {f[seq]} = {}
      BY <2>4
    <3> QED
      BY <3>1, FS_EmptySet
  <2>6. ShowsLast(tasks[t].val, s)
    BY <1>2, <2>1, <2>2, <2>4, <2>5 DEF ReportKept
  <2> QED
    BY <2>3, <2>6 DEF ShowsLast, t
<1>8. SessionShows(s)
  <2> SUFFICES ASSUME s.event.type = "register", s.event.session # None
               PROVE  /\ s.event.session \in DOMAIN r.sessions
                      /\ r.sessions[s.event.session]
                           = [val |-> s.received_at_ms, used |-> seq]
    BY DEF SessionShows
  <2> DEFINE o == s.event.session
             f == SessionLog(ring)
             c == r.sessions
  <2>1. seq \in DOMAIN f /\ f[seq] = o
    <3> HIDE DEF ring
    <3> QED
      BY <1>5 DEF SessionLog, Registers
  <2>2. Follows(c, f, cap(SessionsPerAgent)) /\ UsedUpTo(c, seq)
    BY <1>4 DEF AgentRecordsInv, RecordInv, SessionsFollow
  <2>3. IsCache(c, Session) /\ IsFiniteSet(DOMAIN c)
    BY <1>1, <1>4
       DEF TypeOK, Values, IsAgentRecord, StoreBase, CachesStayBounded, Bounded
  <2>4. Stamped(c, recent)
    BY <1>4 DEF StampsInv
  <2> HIDE DEF o, f, c, r, ring, a
  <2>5. o \in DOMAIN c /\ c[o].used = seq
    BY <1>1, <1>2, <2>1, <2>2, <2>3, LastIsHeld
  <2>6. c[o].val = s.received_at_ms
    BY <2>4, <2>5 DEF Stamped
  <2>7. c[o] = [val |-> s.received_at_ms, used |-> seq]
    <3>1. c[o] = [val |-> c[o].val, used |-> c[o].used]
      BY <2>3, <2>5 DEF IsCache
    <3> QED
      BY <2>5, <2>6, <3>1
  <2> QED
    BY <2>5, <2>7 DEF o, c
<1>9. ASSUME s.event.type = "learning" PROVE seq \in DOMAIN lessons
  <2>1. seq \in DOMAIN LessonLog /\ LessonLog[seq] = seq
    BY <1>9 DEF LessonLog, RecentEvent
  <2>2. Follows(lessons, LessonLog, cap(MaxLessons)) /\ UsedUpTo(lessons, seq)
    BY DEF LessonsInv, UsedUpTo
  <2> QED
    BY <1>1, <1>2, <2>1, <2>2, LastIsHeld
<1> QED
  BY <1>6, <1>7, <1>8, <1>9

\* A list of a cache by time agrees with the cache.
LEMMA ByTimeAgrees ==
  ASSUME NEW c, NEW at, IsFiniteSet(DOMAIN c), Distinct(c),
         \A k \in DOMAIN c : c[k].used \in Nat /\ at[k] \in Nat
  PROVE  Agrees(ByTime(c, at), c)
PROOF
<1>1. /\ Len(ByTime(c, at)) = Cardinality(DOMAIN c)
      /\ {ByTime(c, at)[i] : i \in DOMAIN ByTime(c, at)} = DOMAIN c
  BY ByTimeLists
<1> QED
  BY <1>1, Zenon DEF Agrees

\* The lists of a store that satisfies the invariants; each hypothesis about the
\* times is the one ListsFollowTheLog states.
LEMMA AgentsListFollows ==
  ASSUME StoreBase, AgentsInv, StampsInv
  PROVE  /\ Agrees(agents_list, agents)
         /\ \A s : AgentShows(s)
                     /\ (\A a \in DOMAIN agents :
                           agents[a].val.snapshot.last_seen_ms <= s.received_at_ms)
                   => agents_list[1] = s.event.agent
PROOF
<1> DEFINE at == [a \in DOMAIN agents |-> agents[a].val.snapshot.last_seen_ms]
<1>1. /\ IsFiniteSet(DOMAIN agents) /\ Distinct(agents) /\ UsedUpTo(agents, seq)
      /\ seq \in Nat
      /\ \A a \in DOMAIN agents : agents[a].used \in Nat /\ at[a] \in Nat
  <2>1. /\ TypeOK /\ IsFiniteSet(DOMAIN agents) /\ Distinct(agents) /\ UsedUpTo(agents, seq)
    BY DEF StoreBase, CachesStayBounded, Bounded, StampsInv, AgentsInv
  <2>2. \A a \in DOMAIN agents : /\ agents[a].used \in Nat
                                 /\ agents[a].val.snapshot \in AgentSnapshot
    BY <2>1 DEF TypeOK, IsCache, Values, IsAgentRecord
  <2> QED
    BY <2>1, <2>2 DEF TypeOK, AgentSnapshot
<1>2. agents_list = ByTime(agents, at)
  BY DEF agents_list
<1>3. \A a \in DOMAIN agents : at[a] = agents[a].val.snapshot.last_seen_ms
  OBVIOUS
<1> HIDE DEF at
<1>4. Agrees(agents_list, agents)
  <2>1. Agrees(ByTime(agents, at), agents)
    BY <1>1, ByTimeAgrees
  <2> QED
    BY <1>2, <2>1, Zenon
<1>5. ASSUME NEW s, AgentShows(s),
             \A a \in DOMAIN agents : agents[a].val.snapshot.last_seen_ms <= s.received_at_ms
      PROVE  agents_list[1] = s.event.agent
  <2> DEFINE k == s.event.agent
  <2>1. /\ k \in DOMAIN agents /\ agents[k].used = seq
        /\ \A j \in DOMAIN agents : at[j] <= at[k]
    BY <1>3, <1>5 DEF AgentShows
  <2> HIDE DEF k
  <2>2. agents_list[1] = k
    BY <1>1, <1>2, <2>1, LastIsListedFirst
  <2> QED
    BY <2>2 DEF k
<1> QED
  BY <1>4, <1>5

LEMMA TasksListFollows ==
  ASSUME StoreBase, TasksInv, StampsInv
  PROVE  /\ Agrees(tasks_list, tasks)
         /\ \A s : TaskShows(s) /\ s.event.type = "task"
                     /\ (\A t \in DOMAIN tasks :
                           tasks[t].val.updated_at_ms <= s.received_at_ms)
                   => tasks_list[1] = s.event.task_id
PROOF
<1> DEFINE at == [t \in DOMAIN tasks |-> tasks[t].val.updated_at_ms]
<1>1. /\ IsFiniteSet(DOMAIN tasks) /\ Distinct(tasks) /\ UsedUpTo(tasks, seq)
      /\ seq \in Nat
      /\ \A t \in DOMAIN tasks : tasks[t].used \in Nat /\ at[t] \in Nat
  <2>1. /\ TypeOK /\ IsFiniteSet(DOMAIN tasks) /\ Distinct(tasks) /\ UsedUpTo(tasks, seq)
    BY DEF StoreBase, CachesStayBounded, Bounded, StampsInv, TasksInv
  <2>2. \A t \in DOMAIN tasks : tasks[t].used \in Nat /\ tasks[t].val \in TaskRecord
    BY <2>1 DEF TypeOK, IsCache, Values
  <2> QED
    BY <2>1, <2>2 DEF TypeOK, TaskRecord
<1>2. tasks_list = ByTime(tasks, at)
  BY DEF tasks_list
<1>3. \A t \in DOMAIN tasks : at[t] = tasks[t].val.updated_at_ms
  OBVIOUS
<1> HIDE DEF at
<1>4. Agrees(tasks_list, tasks)
  <2>1. Agrees(ByTime(tasks, at), tasks)
    BY <1>1, ByTimeAgrees
  <2> QED
    BY <1>2, <2>1, Zenon
<1>5. ASSUME NEW s, TaskShows(s), s.event.type = "task",
             \A t \in DOMAIN tasks : tasks[t].val.updated_at_ms <= s.received_at_ms
      PROVE  tasks_list[1] = s.event.task_id
  <2> DEFINE k == s.event.task_id
  <2>1. /\ k \in DOMAIN tasks /\ tasks[k].used = seq
        /\ \A j \in DOMAIN tasks : at[j] <= at[k]
    BY <1>3, <1>5 DEF TaskShows
  <2> HIDE DEF k
  <2>2. tasks_list[1] = k
    BY <1>1, <1>2, <2>1, LastIsListedFirst
  <2> QED
    BY <2>2 DEF k
<1> QED
  BY <1>4, <1>5

LEMMA SessionsListAgrees ==
  ASSUME StoreBase, AgentRecordsInv, StampsInv, NEW a \in DOMAIN agents
  PROVE  Agrees(sessions(a), agents[a].val.sessions)
PROOF
<1> DEFINE c == agents[a].val.sessions
           at == [o \in DOMAIN c |-> c[o].val]
<1>1. sessions(a) = ByTime(c, at)
  BY DEF sessions
<1>2. /\ IsFiniteSet(DOMAIN c) /\ Distinct(c)
      /\ \A o \in DOMAIN c : c[o].used \in Nat /\ c[o].val \in Nat
  <2>1. IsFiniteSet(DOMAIN c) /\ Distinct(c) /\ TypeOK
    BY DEF StoreBase, CachesStayBounded, Bounded, StampsInv
  <2>2. IsCache(c, Session) /\ Values(c) \subseteq Nat
    <3>1. IsAgentRecord(agents[a].val)
      BY <2>1 DEF TypeOK, Values
    <3> QED
      BY <3>1 DEF IsAgentRecord
  <2> HIDE DEF c
  <2> QED
    BY <2>1, <2>2 DEF IsCache, Values, TypeOK
<1> HIDE DEF c
<1>3. \A o \in DOMAIN c : at[o] \in Nat
  BY <1>2
<1> HIDE DEF at
<1>4. Agrees(ByTime(c, at), c)
  BY <1>2, <1>3, ByTimeAgrees
<1>5. Agrees(sessions(a), c)
  BY <1>1, <1>4, Zenon
<1> QED
  BY <1>5 DEF c

LEMMA SessionsListFollows ==
  ASSUME StoreBase, AgentRecordsInv, StampsInv, NEW s, AgentShows(s), SessionShows(s),
         s.event.type = "register", s.event.session # None,
         LET known == agents[s.event.agent].val.sessions
         IN  \A o \in DOMAIN known : known[o].val <= s.received_at_ms
  PROVE  sessions(s.event.agent)[1] = s.event.session
PROOF
<1> DEFINE c == agents[s.event.agent].val.sessions
           at == [o \in DOMAIN c |-> c[o].val]
           k == s.event.session
<1>1. /\ s.event.agent \in DOMAIN agents
      /\ k \in DOMAIN c /\ c[k] = [val |-> s.received_at_ms, used |-> seq]
      /\ \A o \in DOMAIN c : c[o].val <= s.received_at_ms
  BY DEF AgentShows, SessionShows
<1>2. sessions(s.event.agent) = ByTime(c, at)
  BY DEF sessions
<1>3. /\ IsFiniteSet(DOMAIN c) /\ Distinct(c) /\ UsedUpTo(c, seq) /\ seq \in Nat
      /\ \A o \in DOMAIN c : c[o].used \in Nat /\ c[o].val \in Nat
  <2>1. /\ IsFiniteSet(DOMAIN c) /\ Distinct(c) /\ UsedUpTo(c, seq) /\ TypeOK
    BY <1>1 DEF StoreBase, CachesStayBounded, Bounded, StampsInv, AgentRecordsInv, RecordInv,
                SessionsFollow
  <2>2. IsCache(c, Session) /\ Values(c) \subseteq Nat
    <3>1. IsAgentRecord(agents[s.event.agent].val)
      BY <1>1, <2>1 DEF TypeOK, Values
    <3> QED
      BY <3>1 DEF IsAgentRecord
  <2> HIDE DEF c
  <2> QED
    BY <2>1, <2>2 DEF IsCache, Values, TypeOK
<1> HIDE DEF c
<1>4. /\ \A o \in DOMAIN c : at[o] \in Nat
      /\ \A o \in DOMAIN c : at[o] <= at[k]
  BY <1>1, <1>3
<1> HIDE DEF at, k
<1>5. c[k].used = seq
  BY <1>1
<1>6. sessions(s.event.agent)[1] = k
  BY <1>1, <1>2, <1>3, <1>4, <1>5, LastIsListedFirst
<1> QED
  BY <1>6 DEF k

LEMMA LessonsListFollows ==
  ASSUME StoreBase, LessonsInv, StampsInv
  PROVE  /\ Agrees([i \in DOMAIN lessons_list(Topic) |-> lessons_list(Topic)[i].seq], lessons)
         /\ seq \in DOMAIN lessons => lessons_list(Topic)[1].seq = seq
PROOF
<1> DEFINE kept == {n \in DOMAIN lessons : lessons[n].val.topic \in Topic}
           at == [n \in kept |-> lessons[n].val.seq]
           c == [n \in kept |-> lessons[n]]
           order == ByTime(c, at)
<1>1. /\ IsFiniteSet(DOMAIN lessons) /\ seq \in Nat
      /\ \A n \in DOMAIN lessons : /\ lessons[n].val.seq = n /\ lessons[n].used = n
                                   /\ n \in Nat /\ n <= seq
                                   /\ lessons[n].val \in Lesson
  BY DEF StoreBase, TypeOK, IsCache, Values, CachesStayBounded, Bounded, StampsInv, LessonsInv
<1>2. \A n \in DOMAIN lessons : lessons[n].val.topic \in Topic
  BY <1>1 DEF Lesson
<1>3. kept = DOMAIN lessons /\ DOMAIN c = DOMAIN lessons
  BY <1>2
<1>4. /\ Distinct(c) /\ UsedUpTo(c, seq)
      /\ \A n \in DOMAIN lessons : /\ c[n].used = n /\ at[n] = n
                                   /\ c[n].used \in Nat /\ at[n] \in Nat /\ at[n] <= seq
  BY <1>1, <1>3 DEF Distinct, UsedUpTo
<1>5. lessons_list(Topic) = [i \in DOMAIN order |-> lessons[order[i]].val]
  BY DEF lessons_list
<1> HIDE DEF kept, at, c
<1>6. /\ order \in Seq(DOMAIN c) /\ Len(order) = Cardinality(DOMAIN c)
      /\ {order[i] : i \in DOMAIN order} = DOMAIN c
  <2>1. IsFiniteSet(DOMAIN c) /\ Distinct(c)
    BY <1>1, <1>3, <1>4
  <2>2. \A n \in DOMAIN c : c[n].used \in Nat /\ at[n] \in Nat
    BY <1>3, <1>4
  <2> QED
    BY ONLY <2>1, <2>2, ByTimeLists DEF order
<1>7. ASSUME seq \in DOMAIN lessons PROVE order[1] = seq
  <2>1. at[seq] = seq /\ c[seq].used = seq
    BY <1>4, <1>7
  <2> QED
    BY <1>1, <1>3, <1>4, <1>7, <2>1, LastIsListedFirst
<1> HIDE DEF order
<1>8. \A i \in DOMAIN order : lessons_list(Topic)[i].seq = order[i]
  BY <1>1, <1>3, <1>5, <1>6
<1>9. [i \in DOMAIN lessons_list(Topic) |-> lessons_list(Topic)[i].seq] = order
  <2>1. DOMAIN lessons_list(Topic) = DOMAIN order
    BY <1>5
  <2>2. order = [i \in DOMAIN order |-> order[i]]
    BY <1>6
  <2> QED
    BY <1>8, <2>1, <2>2
<1>10. Agrees(order, lessons)
  BY <1>3, <1>6 DEF Agrees
<1>11. ASSUME seq \in DOMAIN lessons PROVE lessons_list(Topic)[1].seq = seq
  <2>1. PICK i \in DOMAIN order : order[i] = seq
    BY <1>3, <1>6, <1>11
  <2>2. Len(order) \in Nat /\ DOMAIN order = 1 .. Len(order)
    BY <1>6
  <2>3. 1 \in DOMAIN order
    BY <2>1, <2>2
  <2> QED
    BY <1>7, <1>8, <1>11, <2>3
<1> QED
  BY <1>9, <1>10, <1>11

\* Whatever is stored, and whenever the clock was read, the lists lose and repeat
\* nothing, and what the last event is about comes first in each unless something
\* there has a later time (storage.rs:187, 291-310, 329-369).
THEOREM ListsAlwaysFollowTheLog == Spec => []ListsFollowTheLog
PROOF
<1>1. StoreBase /\ AgentsInv /\ TasksInv /\ LessonsInv /\ AgentRecordsInv /\ StampsInv
        => ListsFollowTheLog
  <2> SUFFICES ASSUME StoreBase, AgentsInv, TasksInv, LessonsInv, AgentRecordsInv, StampsInv
               PROVE  ListsFollowTheLog
    OBVIOUS
  <2>1. /\ Agrees(agents_list, agents) /\ Agrees(tasks_list, tasks)
        /\ Agrees([i \in DOMAIN lessons_list(Topic) |-> lessons_list(Topic)[i].seq], lessons)
        /\ \A a \in DOMAIN agents : Agrees(sessions(a), agents[a].val.sessions)
    BY AgentsListFollows, TasksListFollows, LessonsListFollows, SessionsListAgrees
  <2>2. ASSUME seq \in DOMAIN recent
        PROVE  LET e == recent[seq].val.event
                   now == recent[seq].val.received_at_ms
               IN  /\ (\A a \in DOMAIN agents : agents[a].val.snapshot.last_seen_ms <= now)
                        => agents_list[1] = e.agent
                   /\ e.type = "task"
                        /\ (\A t \in DOMAIN tasks : tasks[t].val.updated_at_ms <= now)
                        => tasks_list[1] = e.task_id
                   /\ e.type = "learning" => lessons_list(Topic)[1].seq = seq
                   /\ e.type = "register" /\ e.session # None =>
                        LET known == agents[e.agent].val.sessions
                        IN  (\A o \in DOMAIN known : known[o].val <= now)
                              => sessions(e.agent)[1] = e.session
    <3>1. PICK s : s = recent[seq].val
      OBVIOUS
    <3>2. /\ AgentShows(s) /\ TaskShows(s) /\ SessionShows(s)
          /\ s.event.type = "learning" => seq \in DOMAIN lessons
      BY <2>2, <3>1, StorageAssumption, LastEventShows
    <3>3. (\A a \in DOMAIN agents : agents[a].val.snapshot.last_seen_ms <= s.received_at_ms)
            => agents_list[1] = s.event.agent
      BY <3>2, AgentsListFollows
    <3>4. s.event.type = "task"
            /\ (\A t \in DOMAIN tasks : tasks[t].val.updated_at_ms <= s.received_at_ms)
            => tasks_list[1] = s.event.task_id
      BY <3>2, TasksListFollows
    <3>5. s.event.type = "learning" => lessons_list(Topic)[1].seq = seq
      BY <2>2, <3>2, LessonsListFollows
    <3>6. s.event.type = "register" /\ s.event.session # None =>
            LET known == agents[s.event.agent].val.sessions
            IN  (\A o \in DOMAIN known : known[o].val <= s.received_at_ms)
                  => sessions(s.event.agent)[1] = s.event.session
      BY <3>2, SessionsListFollows
    <3> QED
      BY <3>1, <3>3, <3>4, <3>5, <3>6
  <2> QED
    BY <2>1, <2>2 DEF ListsFollowTheLog
<1> QED
  BY <1>1, StoreBaseHolds, AgentsInvHolds, TasksInvHolds, LessonsInvHolds,
     AgentRecordsInvHolds, StampsInvHolds, PTL

-----------------------------------------------------------------------------
(***************************************************************************)
(* Lists of events.                                                        *)
(***************************************************************************)

\* at is where the entries of a list come from, in order.
Increasing(at, n) == \A i, j \in 1 .. n : i < j <=> at[i] < at[j]

\* The first n entries of a list are what f holds, in order.
HoldsInOrder(list, f, n) ==
  \E at \in [1 .. n -> DOMAIN f] :
    /\ \A i \in 1 .. n : list[i] = f[at[i]]
    /\ Increasing(at, n)
    /\ \A m \in DOMAIN f : \E i \in 1 .. n : at[i] = m

\* Listed puts what a function on numbers holds in the order of the numbers.
LEMMA ListedInOrder ==
  ASSUME NEW f, NEW V, DOMAIN f \subseteq Nat, IsFiniteSet(DOMAIN f),
         \A m \in DOMAIN f : f[m] \in V
  PROVE  /\ Cardinality(DOMAIN f) \in Nat
         /\ Listed(f) \in Seq(V) /\ Len(Listed(f)) = Cardinality(DOMAIN f)
         /\ HoldsInOrder(Listed(f), f, Cardinality(DOMAIN f))
PROOF
<1> DEFINE S == DOMAIN f
           A == {p \in S \X S : p[1] < p[2]}
           n == Cardinality(S)
           L == Listed(f)
           at == [i \in 1 .. n |-> CHOOSE k \in S : Place(A, S, k) = i - 1]
<1>1. \A a, b \in S : <<a, b>> \in A <=> a < b
  OBVIOUS
<1>2. IsOrder(A, S)
  <2>1. S \subseteq Nat
    OBVIOUS
  <2> HIDE DEF A, S
  <2> QED
    BY <1>1, <2>1 DEF IsOrder
<1>3. \A k \in S : {m \in S : m < k} = Before(A, S, k)
  <2> HIDE DEF A, S
  <2> QED
    BY <1>1 DEF Before
<1> HIDE DEF A
<1>4. /\ n \in Nat
      /\ \A k \in S : Place(A, S, k) \in 0 .. n - 1
      /\ \A a, b \in S : <<a, b>> \in A <=> Place(A, S, a) < Place(A, S, b)
      /\ \A i \in 1 .. n : \E k \in S : Place(A, S, k) = i - 1
  BY <1>2, PlacesAreTaken
<1>5. \A i \in 1 .. n : at[i] \in S /\ Place(A, S, at[i]) = i - 1
  BY <1>4
<1>6. at \in [1 .. n -> S]
  BY <1>5
<1>7. L \in [1 .. n -> V] /\ \A i \in 1 .. n : L[i] = f[at[i]]
  <2>1. \A i \in 1 .. n :
          at[i] = CHOOSE k \in S : Cardinality({m \in S : m < k}) = i - 1
    <3>1. \A k \in S : Cardinality({m \in S : m < k}) = Place(A, S, k)
      BY <1>3 DEF Place
    <3> QED
      BY <3>1
  <2>2. L = [i \in 1 .. n |-> f[CHOOSE k \in S : Cardinality({m \in S : m < k}) = i - 1]]
    BY Zenon DEF Listed
  <2> HIDE DEF L, at, n
  <2>3. \A i \in 1 .. n :
          f[CHOOSE k \in S : Cardinality({m \in S : m < k}) = i - 1] \in V
    BY <1>5, <2>1
  <2> HIDE DEF S
  <2>4. L \in [1 .. n -> V]
    BY <2>2, <2>3
  <2>5. \A i \in 1 .. n : L[i] = f[at[i]]
    BY <2>1, <2>2
  <2> QED
    BY <2>4, <2>5
<1> HIDE DEF L, n, at
<1>8. L \in Seq(V) /\ Len(L) = n
  BY <1>4, <1>7
<1>9. \A i \in 1 .. n : L[i] = f[at[i]]
  BY <1>7
<1>10. Increasing(at, n)
  <2> SUFFICES ASSUME NEW i \in 1 .. n, NEW j \in 1 .. n PROVE i < j <=> at[i] < at[j]
    BY DEF Increasing
  <2>1. at[i] < at[j] <=> i - 1 < j - 1
    <3>1. /\ at[i] \in S /\ Place(A, S, at[i]) = i - 1
          /\ at[j] \in S /\ Place(A, S, at[j]) = j - 1
      BY <1>5
    <3>2. <<at[i], at[j]>> \in A <=> Place(A, S, at[i]) < Place(A, S, at[j])
      BY <1>4, <3>1
    <3> QED
      BY <1>1, <3>1, <3>2
  <2> QED
    BY <1>4, <2>1
<1>11. ASSUME NEW m \in S PROVE \E i \in 1 .. n : at[i] = m
  <2>1. Place(A, S, m) + 1 \in 1 .. n /\ Place(A, S, m) \in Nat
    BY <1>4
  <2>2. PICK i \in 1 .. n : i = Place(A, S, m) + 1
    BY <2>1
  <2>3. at[i] \in S /\ Place(A, S, at[i]) = Place(A, S, m)
    BY <1>4, <1>5, <2>1, <2>2
  <2>4. ~(at[i] < m) /\ ~(m < at[i])
    <3>1. /\ <<at[i], m>> \in A <=> Place(A, S, at[i]) < Place(A, S, m)
          /\ <<m, at[i]>> \in A <=> Place(A, S, m) < Place(A, S, at[i])
      BY <1>4, <2>3
    <3>2. ~(Place(A, S, at[i]) < Place(A, S, m)) /\ ~(Place(A, S, m) < Place(A, S, at[i]))
      BY <2>1, <2>3
    <3> QED
      BY <1>1, <2>3, <3>1, <3>2
  <2>5. at[i] \in Nat /\ m \in Nat
    BY <2>3
  <2> QED
    BY <2>4, <2>5
<1>12. HoldsInOrder(L, f, n)
  <2> HIDE DEF S
  <2>1. DOMAIN f = S
    BY DEF S
  <2> QED
    BY <1>6, <1>9, <1>10, <1>11, <2>1 DEF HoldsInOrder
<1> QED
  BY <1>4, <1>8, <1>12 DEF L, n

\* The first n entries of a list are the last events of a ring, in order.
ShowsEndOf(list, ring, n) ==
  \E at \in [1 .. n -> DOMAIN ring] :
    /\ \A i \in 1 .. n : list[i] = ring[at[i]].val
    /\ Increasing(at, n)
    /\ \A i \in 1 .. n, m \in DOMAIN ring : at[i] <= m => \E j \in 1 .. n : at[j] = m

\* The last entries of the list of a ring: the latest events in it, in order, as
\* many as there are up to the limit.
LEMMA LatestAreListed ==
  ASSUME NEW ring, IsFiniteSet(DOMAIN ring), DOMAIN ring \subseteq Nat, NEW limit \in Nat
  PROVE  \E n \in Nat : /\ DOMAIN AtMost(RingList(ring), limit) = 1 .. n
                         /\ Len(AtMost(RingList(ring), limit)) = n
                         /\ n = Smaller(Cardinality(DOMAIN ring), limit)
                         /\ ShowsEndOf(AtMost(RingList(ring), limit), ring, n)
PROOF
<1> DEFINE f == [m \in DOMAIN ring |-> ring[m].val]
           V == {ring[m].val : m \in DOMAIN ring}
           s == RingList(ring)
           N == Cardinality(DOMAIN ring)
           d == IF Len(s) > limit THEN Len(s) - limit ELSE 0
           list == AtMost(s, limit)
           n == N - d
<1>1. N \in Nat /\ s \in Seq(V) /\ Len(s) = N /\ HoldsInOrder(s, f, N)
  <2>1. DOMAIN f = DOMAIN ring /\ \A m \in DOMAIN f : f[m] \in V
    OBVIOUS
  <2>2. s = Listed(f)
    BY DEF RingList
  <2> HIDE DEF f, V, s
  <2>3. /\ Cardinality(DOMAIN f) \in Nat /\ Listed(f) \in Seq(V)
        /\ Len(Listed(f)) = Cardinality(DOMAIN f)
        /\ HoldsInOrder(Listed(f), f, Cardinality(DOMAIN f))
    BY <2>1, ListedInOrder
  <2> QED
    BY <2>1, <2>2, <2>3
<1>2. PICK from \in [1 .. N -> DOMAIN ring] :
        /\ \A i \in 1 .. N : s[i] = f[from[i]]
        /\ Increasing(from, N)
        /\ \A m \in DOMAIN ring : \E i \in 1 .. N : from[i] = m
  <2>1. DOMAIN f = DOMAIN ring
    OBVIOUS
  <2> HIDE DEF f, s, N
  <2>2. \E at \in [1 .. N -> DOMAIN f] :
          /\ \A i \in 1 .. N : s[i] = f[at[i]]
          /\ Increasing(at, N)
          /\ \A m \in DOMAIN f : \E i \in 1 .. N : at[i] = m
    BY <1>1 DEF HoldsInOrder
  <2> QED
    BY <2>1, <2>2
<1>3. \A i \in 1 .. N : s[i] = ring[from[i]].val
  BY <1>2
<1> HIDE DEF s, f, N
<1>4. /\ d \in Nat /\ d <= N /\ n \in Nat /\ n = Smaller(N, limit)
  BY <1>1 DEF Smaller
<1>5. list = SubSeq(s, 1 + d, N)
  BY <1>1 DEF AtMost
<1> HIDE DEF d, list, V
<1>6. \A i \in 1 + d .. N : s[i] \in V
  <2>1. \A i \in 1 + d .. N : i \in 1 .. Len(s)
    BY <1>1, <1>4
  <2> QED
    BY <1>1, <2>1
<1>7. /\ list \in Seq(V) /\ Len(list) = n
      /\ \A i \in 1 .. n : list[i] = s[d + i]
  <2>1. /\ SubSeq(s, 1 + d, N) \in Seq(V)
        /\ Len(SubSeq(s, 1 + d, N)) = IF 1 + d <= N THEN N - (1 + d) + 1 ELSE 0
        /\ \A i \in 1 .. N - (1 + d) + 1 : SubSeq(s, 1 + d, N)[i] = s[1 + d + i - 1]
    <3>1. PICK b : b = 1 + d
      OBVIOUS
    <3>2. b \in Int /\ N \in Int /\ \A i \in b .. N : s[i] \in V
      BY <1>1, <1>4, <1>6, <3>1
    <3>3. /\ SubSeq(s, b, N) \in Seq(V)
          /\ Len(SubSeq(s, b, N)) = IF b <= N THEN N - b + 1 ELSE 0
          /\ \A i \in 1 .. N - b + 1 : SubSeq(s, b, N)[i] = s[b + i - 1]
      BY <3>2, SubSeqProperties
    <3> QED
      BY <3>1, <3>3
  <2>2. Len(list) = n
    BY <1>1, <1>4, <1>5, <2>1
  <2>3. ASSUME NEW i \in 1 .. n PROVE list[i] = s[d + i]
    <3>1. i \in 1 .. N - (1 + d) + 1 /\ 1 + d + i - 1 = d + i
      BY <1>1, <1>4
    <3> QED
      BY <1>5, <2>1, <3>1
  <2> QED
    BY <1>5, <2>1, <2>2, <2>3
<1> DEFINE at == [i \in 1 .. n |-> from[d + i]]
<1>8. \A i \in 1 .. n : d + i \in 1 .. N
  BY <1>1, <1>4
<1>9. at \in [1 .. n -> DOMAIN ring] /\ \A i \in 1 .. n : at[i] = from[d + i]
  BY <1>2, <1>8
<1> HIDE DEF at
<1>10. \A i \in 1 .. n : list[i] = ring[at[i]].val
  BY <1>3, <1>7, <1>8, <1>9
<1>11. Increasing(at, n)
  <2> SUFFICES ASSUME NEW i \in 1 .. n, NEW j \in 1 .. n PROVE i < j <=> at[i] < at[j]
    BY DEF Increasing
  <2>1. d + i < d + j <=> at[i] < at[j]
    BY <1>2, <1>8, <1>9 DEF Increasing
  <2> QED
    BY <1>4, <2>1
<1>12. ASSUME NEW i \in 1 .. n, NEW m \in DOMAIN ring, at[i] <= m
       PROVE  \E j \in 1 .. n : at[j] = m
  <2>1. PICK k \in 1 .. N : from[k] = m
    BY <1>2
  <2>2. d + i \in 1 .. N /\ at[i] = from[d + i] /\ at[i] \in Nat /\ m \in Nat
    BY <1>8, <1>9
  <2>3. ~(from[k] < from[d + i])
    BY <1>12, <2>1, <2>2
  <2>4. ~(k < d + i)
    BY <1>2, <2>2, <2>3 DEF Increasing
  <2>5. k - d \in 1 .. n /\ d + (k - d) = k
    BY <1>1, <1>4, <2>4
  <2> QED
    BY <1>9, <2>1, <2>5
<1>13. DOMAIN list = 1 .. n
  BY <1>4, <1>7
<1> HIDE DEF n
<1>14. ShowsEndOf(list, ring, n)
  BY <1>9, <1>10, <1>11, <1>12 DEF ShowsEndOf
<1>15. \E m \in Nat : /\ DOMAIN list = 1 .. m /\ Len(list) = m
                      /\ m = Smaller(N, limit) /\ ShowsEndOf(list, ring, m)
  BY <1>4, <1>7, <1>13, <1>14
<1> QED
  BY <1>15 DEF list, s, N

-----------------------------------------------------------------------------
(***************************************************************************)
(* The pages.  What a first read gave stays true of the store while events *)
(* are stored before the second: these are the invariants of the pages     *)
(* that wait for it.                                                       *)
(***************************************************************************)

\* The dashboard has its cards: an agent without one that shows in the ring is
\* new, or the cards fill the store.
CardsInv(b) ==
  page[b] = "cards" =>
    /\ readAt[b] \in Nat /\ readAt[b] <= seq
    /\ \A j \in DOMAIN recent :
         \/ RecentEvent(j).agent \in first[b]
         \/ j > readAt[b]
         \/ Cardinality(first[b]) >= cap(MaxAgents)

\* An agent's record r bears out a snapshot taken when n events were stored: as
\* long as its ring reaches back to then, it counts no less, and the last rating
\* of that time it shows is the one of the snapshot.
BearsOut(r, snap, n) ==
  /\ (\E i \in DOMAIN r.events : i <= n) =>
       snap.events_ingested <= r.snapshot.events_ingested
  /\ \A i \in DOMAIN r.events :
       LastOf(i, {j \in Rated(r.events) : j <= n}) =>
         r.events[i].val.event.confidence = snap.last_confidence

\* The agent's page has its header.
HeaderInv(b) ==
  page[b] = "header" =>
    /\ readAt[b] \in Nat /\ readAt[b] <= seq
    /\ first[b] = {Header(b)}
    /\ Header(b).snapshot.events_ingested \in Nat
    /\ Header(b).name \in DOMAIN agents =>
         BearsOut(agents[Header(b).name].val, Header(b).snapshot, readAt[b])

\* A page that is complete does not depend on the store any more.
DashboardOf(b) ==
  page[b] = "dashboard" =>
    \A i \in DOMAIN events[b] :
      LET e == events[b][i]
      IN  /\ i > 1 => e.seq = events[b][i - 1].seq + 1
          /\ e.event.agent \notin first[b] =>
               e.seq > readAt[b] \/ Cardinality(first[b]) >= cap(MaxAgents)

TimelineOf(b) ==
  page[b] = "agent" =>
    LET snap == Header(b).snapshot
        list == events[b]
        rated == {i \in Known(b) : list[i].event.type = "metacognition"
                                     /\ list[i].event.confidence # None}
    IN  /\ \A i \in DOMAIN list : list[i].event.agent = Header(b).name
        /\ \/ Known(b) = {}
           \/ Len(list) >= Smaller(snap.events_ingested,
                                   Smaller(cap(EventsPerAgent), TimelineEvents))
        /\ rated # {} =>
             list[CHOOSE i \in rated : \A j \in rated : j <= i].event.confidence
               = snap.last_confidence

PageOf(b) == CardsInv(b) /\ HeaderInv(b) /\ DashboardOf(b) /\ TimelineOf(b)

PagesInv ==
  /\ DOMAIN page = Browsers /\ DOMAIN first = Browsers
  /\ DOMAIN events = Browsers /\ DOMAIN readAt = Browsers
  /\ \A b \in Browsers : PageOf(b)

\* What the store guarantees the pages.
StoreInv == StoreBase /\ AgentsInv /\ AgentRecordsInv /\ StampsInv

\* A record that is not there yet bears everything out: its ring shows nothing
\* that old.
LEMMA UpdatedRecordBearsOut ==
  ASSUME StorageAssumption, NEW r, IsAgentRecord(r), AgentBounded(r),
         NEW name, NEW m \in Nat, RecordInv(name, r, m), NEW n \in Nat, n <= m,
         NEW s \in StoredEvent, s.seq = m + 1, s.event.agent = name,
         NEW snap, snap.events_ingested \in Nat, BearsOut(r, snap, n)
  PROVE  BearsOut(UpdatedAgent(r, s), snap, n)
PROOF
<1> DEFINE ring == r.events
           u == UpdatedAgent(r, s)
           new == u.events
           I == {j \in Rated(ring) : j <= n}
           J == {j \in Rated(new) : j <= n}
<1>1. /\ m + 1 \notin DOMAIN ring
      /\ \A i \in DOMAIN ring : i \in Nat /\ i <= m
      /\ \A i \in DOMAIN new : i # m + 1 => i \in DOMAIN ring /\ new[i] = ring[i]
      /\ \A i \in DOMAIN ring : i \notin DOMAIN new => \A j \in DOMAIN new : i < j
      /\ \A i \in DOMAIN new : i \in Nat
  <2>1. RingIsFull(name, r, m)
    BY DEF RecordInv
  <2> QED
    BY <2>1, UpdatedRing
<1>2. /\ u.snapshot.events_ingested = r.snapshot.events_ingested + 1
      /\ r.snapshot.events_ingested \in Nat
  BY DEF UpdatedAgent, UpdatedSnapshot, IsAgentRecord, AgentSnapshot
<1>3. /\ (\E i \in DOMAIN ring : i <= n) =>
           snap.events_ingested <= r.snapshot.events_ingested
      /\ \A i \in DOMAIN ring :
           LastOf(i, I) => ring[i].val.event.confidence = snap.last_confidence
  BY DEF BearsOut
<1> HIDE DEF u, ring, new
<1>4. \A i \in DOMAIN new : i <= n => i \in DOMAIN ring /\ new[i] = ring[i]
  BY <1>1
<1>5. (\E i \in DOMAIN new : i <= n) =>
        snap.events_ingested <= u.snapshot.events_ingested
  BY <1>2, <1>3, <1>4
<1>6. ASSUME NEW i \in DOMAIN new, LastOf(i, J)
      PROVE  new[i].val.event.confidence = snap.last_confidence
  <2>1. I \subseteq DOMAIN ring /\ J \subseteq DOMAIN new /\ J = I \cap DOMAIN new
    BY <1>1, <1>4 DEF Rated
  <2>2. i \in J
    BY <1>6 DEF LastOf
  <2>3. i \in DOMAIN ring /\ new[i] = ring[i]
    BY <1>4, <2>2
  <2> HIDE DEF I, J
  <2>4. LastOf(i, I)
    BY <1>1, <1>6, <2>1, LastStays
  <2> QED
    BY <1>3, <2>3, <2>4
<1>7. BearsOut(u, snap, n)
  BY <1>5, <1>6 DEF BearsOut, new
<1> QED
  BY <1>7 DEF u

\* An event stored between the reads.
LEMMA StoringKeepsPages ==
  ASSUME StorageAssumption, StoreInv, StoreInv', PagesInv,
         NEW s \in StoredEvent, Step(s), UNCHANGED pageVars
  PROVE  PagesInv'
PROOF
<1>1. /\ page' = page /\ first' = first /\ events' = events /\ readAt' = readAt
      /\ seq \in Nat /\ seq' = seq + 1 /\ s.seq = seq + 1
  BY DEF pageVars, Step
<1>2. /\ DOMAIN page = Browsers /\ DOMAIN first = Browsers
      /\ DOMAIN events = Browsers /\ DOMAIN readAt = Browsers
      /\ \A b \in Browsers : PageOf(b)
  BY DEF PagesInv
<1>3. ASSUME NEW b \in Browsers PROVE CardsInv(b)'
  <2> SUFFICES ASSUME page[b] = "cards"
               PROVE  /\ readAt[b] \in Nat /\ readAt[b] <= seq'
                      /\ \A j \in DOMAIN recent' :
                           \/ recent'[j].val.event.agent \in first[b]
                           \/ j > readAt[b]
                           \/ Cardinality(first[b]) >= cap(MaxAgents)
    BY <1>1 DEF CardsInv, RecentEvent
  <2>1. /\ readAt[b] \in Nat /\ readAt[b] <= seq
        /\ \A j \in DOMAIN recent :
             \/ recent[j].val.event.agent \in first[b]
             \/ j > readAt[b]
             \/ Cardinality(first[b]) >= cap(MaxAgents)
    BY <1>2 DEF PageOf, CardsInv, RecentEvent
  <2>2. \A j \in DOMAIN recent' : j = seq + 1 \/ (j \in DOMAIN recent /\ recent'[j] = recent[j])
    BY WindowMoves DEF StoreInv, StoreBase
  <2>3. readAt[b] <= seq + 1 /\ seq + 1 > readAt[b]
    BY <1>1, <2>1
  <2> QED
    BY <1>1, <2>1, <2>2, <2>3
<1>4. ASSUME NEW b \in Browsers PROVE HeaderInv(b)'
  <2> DEFINE h == Header(b)
  <2>1. Header(b)' = h
    BY <1>1 DEF Header
  <2> SUFFICES ASSUME page[b] = "header"
               PROVE  /\ readAt[b] \in Nat /\ readAt[b] <= seq'
                      /\ first[b] = {h}
                      /\ h.snapshot.events_ingested \in Nat
                      /\ h.name \in DOMAIN agents' =>
                           BearsOut(agents'[h.name].val, h.snapshot, readAt[b])
    BY <1>1, <2>1 DEF HeaderInv, BearsOut
  <2>2. /\ readAt[b] \in Nat /\ readAt[b] <= seq
        /\ first[b] = {h}
        /\ h.snapshot.events_ingested \in Nat
        /\ h.name \in DOMAIN agents =>
             BearsOut(agents[h.name].val, h.snapshot, readAt[b])
    BY <1>2 DEF PageOf, HeaderInv
  <2> DEFINE name == s.event.agent
             known == KnownAgent(name, s.received_at_ms)
             u == UpdatedAgent(known, s)
  <2>3. /\ name \in DOMAIN agents' /\ agents'[name].val = u
        /\ \A a \in DOMAIN agents' : a # name => a \in DOMAIN agents /\ agents'[a] = agents[a]
    <3>1. agents' = Put(agents, name, u, seq + 1, cap(MaxAgents))
      BY <1>1 DEF Step, RecordAgent, agent_name
    <3> HIDE DEF name, u
    <3>2. /\ name \in DOMAIN agents' /\ agents'[name] = [val |-> u, used |-> seq + 1]
          /\ \A a \in DOMAIN agents' : a # name => a \in DOMAIN agents /\ agents'[a] = agents[a]
      BY <3>1, PutDomain
    <3> QED
      BY <3>2
  <2>4. IsAgentRecord(known) /\ AgentBounded(known)
    BY KnownAgentIsTyped, KnownAgentIsBounded DEF StoreInv, StoreBase, Step, TypeOK, Values
  <2>5. RecordInv(name, known, seq)
    <3>1. CASE name \in DOMAIN agents
      BY <3>1 DEF StoreInv, AgentRecordsInv, KnownAgent
    <3>2. CASE name \notin DOMAIN agents
      BY <1>1, <3>2, NewAgentInv DEF KnownAgent
    <3> QED
      BY <3>1, <3>2
  <2>6. h.name = name => BearsOut(known, h.snapshot, readAt[b])
    <3>1. CASE name \in DOMAIN agents
      BY <2>2, <3>1 DEF KnownAgent
    <3>2. CASE name \notin DOMAIN agents
      <4>1. DOMAIN known.events = {}
        BY <1>1, <3>2, NewAgentInv DEF KnownAgent
      <4> HIDE DEF known
      <4> QED
        BY <4>1 DEF BearsOut
    <3> QED
      BY <3>1, <3>2
  <2>7. h.name = name => BearsOut(u, h.snapshot, readAt[b])
    <3> HIDE DEF known, h
    <3> QED
      BY <1>1, <2>2, <2>4, <2>5, <2>6, UpdatedRecordBearsOut
  <2>8. h.name \in DOMAIN agents' => BearsOut(agents'[h.name].val, h.snapshot, readAt[b])
    <3> HIDE DEF u, known, h, name
    <3>1. CASE h.name = name
      BY <2>3, <2>7, <3>1
    <3>2. CASE h.name # name
      BY <2>2, <2>3, <3>2
    <3> QED
      BY <3>1, <3>2
  <2> HIDE DEF h
  <2> QED
    BY <1>1, <2>2, <2>8
<1>5. ASSUME NEW b \in Browsers PROVE DashboardOf(b)' /\ TimelineOf(b)'
  <2>1. DashboardOf(b) /\ TimelineOf(b)
    BY <1>2 DEF PageOf
  <2>2. DashboardOf(b)' = DashboardOf(b)
    BY <1>1 DEF DashboardOf
  <2>3. TimelineOf(b)' = TimelineOf(b)
    BY <1>1 DEF TimelineOf, Known, Header
  <2> QED
    BY <2>1, <2>2, <2>3
<1> QED
  BY <1>1, <1>2, <1>3, <1>4, <1>5 DEF PagesInv, PageOf

\* A browser is not disturbed by what another does.
OnlyPageOf(b) ==
  /\ UNCHANGED storageVars
  /\ DOMAIN page' = DOMAIN page /\ DOMAIN first' = DOMAIN first
  /\ DOMAIN events' = DOMAIN events /\ DOMAIN readAt' = DOMAIN readAt
  /\ \A c \in Browsers \ {b} : /\ page'[c] = page[c] /\ first'[c] = first[c]
                               /\ events'[c] = events[c] /\ readAt'[c] = readAt[c]

LEMMA PageIsKept ==
  ASSUME NEW c, PageOf(c), seq' = seq, agents' = agents, recent' = recent,
         page'[c] = page[c], first'[c] = first[c], events'[c] = events[c],
         readAt'[c] = readAt[c]
  PROVE  PageOf(c)'
PROOF
<1>1. CardsInv(c) /\ HeaderInv(c) /\ DashboardOf(c) /\ TimelineOf(c)
  BY DEF PageOf
<1>2. Header(c)' = Header(c) /\ Known(c)' = Known(c)
  BY DEF Header, Known
<1>3. CardsInv(c)'
  BY <1>1 DEF CardsInv, RecentEvent
<1>4. HeaderInv(c)'
  BY <1>1, <1>2 DEF HeaderInv, BearsOut
<1>5. DashboardOf(c)'
  BY <1>1 DEF DashboardOf
<1>6. TimelineOf(c)'
  BY <1>1, <1>2 DEF TimelineOf
<1> QED
  BY <1>3, <1>4, <1>5, <1>6 DEF PageOf

LEMMA OthersKeepTheirPages ==
  ASSUME PagesInv, NEW b \in Browsers, OnlyPageOf(b), PageOf(b)'
  PROVE  PagesInv'
PROOF
<1>1. /\ DOMAIN page' = Browsers /\ DOMAIN first' = Browsers
      /\ DOMAIN events' = Browsers /\ DOMAIN readAt' = Browsers
  BY DEF PagesInv, OnlyPageOf
<1>2. ASSUME NEW c \in Browsers, c # b PROVE PageOf(c)'
  <2>1. /\ page'[c] = page[c] /\ first'[c] = first[c]
        /\ events'[c] = events[c] /\ readAt'[c] = readAt[c]
        /\ seq' = seq /\ agents' = agents /\ recent' = recent
    BY <1>2 DEF OnlyPageOf, storageVars
  <2>2. PageOf(c)
    BY DEF PagesInv
  <2> QED
    BY <2>1, <2>2, PageIsKept
<1> QED
  BY <1>1, <1>2 DEF PagesInv

\* The dashboard's cards are all agents of the store, and the events the ring
\* shows of any other are those of an agent that was forgotten from a full store.
LEMMA CardsAreRead ==
  ASSUME StorageAssumption, StoreInv, PagesInv, NEW b \in Browsers, ReadCards(b)
  PROVE  PagesInv'
PROOF
<1>1. /\ page'[b] = "cards" /\ readAt'[b] = seq
      /\ first'[b] = {agents_list[i] : i \in DOMAIN agents_list}
      /\ seq' = seq /\ agents' = agents /\ recent' = recent
  BY DEF ReadCards, PagesInv, storageVars
<1>2. OnlyPageOf(b)
  BY DEF ReadCards, OnlyPageOf, PagesInv, storageVars
<1>3. first'[b] = DOMAIN agents
  <2>1. Agrees(agents_list, agents)
    BY AgentsListFollows DEF StoreInv
  <2> QED
    BY <1>1, <2>1 DEF Agrees
<1>4. ASSUME NEW j \in DOMAIN recent
      PROVE  RecentEvent(j).agent \in DOMAIN agents \/ Cardinality(DOMAIN agents) >= cap(MaxAgents)
  <2>1. Follows(agents, AgentLog, cap(MaxAgents))
    BY DEF StoreInv, AgentsInv
  <2>2. j \in DOMAIN AgentLog /\ AgentLog[j] = RecentEvent(j).agent
    BY DEF AgentLog
  <2> QED
    BY <2>1, <2>2 DEF Follows
<1>5. seq \in Nat
  BY DEF StoreInv, StoreBase, TypeOK
<1>6. CardsInv(b)'
  <2>1. /\ readAt'[b] \in Nat /\ readAt'[b] <= seq'
        /\ \A j \in DOMAIN recent' :
             \/ recent'[j].val.event.agent \in first'[b]
             \/ j > readAt'[b]
             \/ Cardinality(first'[b]) >= cap(MaxAgents)
    <3>1. recent' = recent /\ readAt'[b] = seq /\ seq' = seq
      BY <1>1
    <3>2. \A j \in DOMAIN recent :
            \/ recent[j].val.event.agent \in first'[b]
            \/ Cardinality(first'[b]) >= cap(MaxAgents)
      BY <1>3, <1>4 DEF RecentEvent
    <3> QED
      BY <1>5, <3>1, <3>2
  <2> QED
    BY <2>1 DEF CardsInv, RecentEvent
<1>7. HeaderInv(b)' /\ DashboardOf(b)' /\ TimelineOf(b)'
  BY <1>1 DEF HeaderInv, DashboardOf, TimelineOf
<1> QED
  BY <1>2, <1>6, <1>7, OthersKeepTheirPages DEF PageOf

\* The rows are the last events of the ring, which has no gap.
LEMMA RowsAreRead ==
  ASSUME StorageAssumption, PagesAssumption, StoreInv, PagesInv,
         NEW b \in Browsers, ReadRows(b)
  PROVE  PagesInv'
PROOF
<1>1. /\ page[b] = "cards" /\ page'[b] = "dashboard"
      /\ readAt'[b] = readAt[b] /\ first'[b] = first[b]
      /\ events'[b] = recent_events(DashboardRows)
  BY DEF ReadRows, PagesInv
<1>2. OnlyPageOf(b)
  BY DEF ReadRows, OnlyPageOf, PagesInv, storageVars
<1>3. \A j \in DOMAIN recent :
        \/ RecentEvent(j).agent \in first[b]
        \/ j > readAt[b]
        \/ Cardinality(first[b]) >= cap(MaxAgents)
  BY <1>1 DEF PagesInv, PageOf, CardsInv
<1>4. /\ DOMAIN recent = {i \in 1 .. seq : i > seq - cap(RecentEvents)}
      /\ \A i \in DOMAIN recent : recent[i].val.seq = i
      /\ seq \in Nat /\ cap(RecentEvents) \in Nat
      /\ IsFiniteSet(DOMAIN recent) /\ DOMAIN recent \subseteq Nat
      /\ DashboardRows \in Nat
  <2>1. RecentIsLatestWindow /\ TypeOK /\ IsFiniteSet(DOMAIN recent)
    BY DEF StoreInv, StoreBase, RecentInv, CachesStayBounded, Bounded
  <2>2. seq \in Nat /\ cap(RecentEvents) \in Nat
    BY <2>1, CapIsPositive DEF TypeOK, StorageAssumption
  <2> QED
    BY <2>1, <2>2 DEF RecentIsLatestWindow, PagesAssumption
<1> DEFINE list == recent_events(DashboardRows)
<1>5. PICK n \in Nat : DOMAIN list = 1 .. n /\ ShowsEndOf(list, recent, n)
  BY <1>4, LatestAreListed DEF recent_events
<1>6. PICK at \in [1 .. n -> DOMAIN recent] :
        /\ \A i \in 1 .. n : list[i] = recent[at[i]].val
        /\ Increasing(at, n)
        /\ \A i \in 1 .. n, m \in DOMAIN recent :
             at[i] <= m => \E j \in 1 .. n : at[j] = m
  BY <1>5 DEF ShowsEndOf
<1> HIDE DEF list
<1>7. \A i \in 1 .. n : /\ at[i] \in DOMAIN recent /\ at[i] \in Nat
                        /\ list[i].seq = at[i]
  BY <1>4, <1>6
<1>8. ASSUME NEW i \in DOMAIN list
      PROVE  /\ i > 1 => list[i].seq = list[i - 1].seq + 1
             /\ list[i].event.agent \notin first[b] =>
                  list[i].seq > readAt[b] \/ Cardinality(first[b]) >= cap(MaxAgents)
  <2>1. i \in 1 .. n /\ i \in Nat
    BY <1>5
  <2>2. ASSUME i > 1 PROVE list[i].seq = list[i - 1].seq + 1
    <3>1. PICK k \in 1 .. n : k = i - 1
      BY <1>5, <2>1, <2>2
    <3>2. k < i
      BY <2>1, <3>1
    <3>3. at[k] < at[i]
      BY <1>6, <2>1, <3>2 DEF Increasing
    <3>4. at[k] + 1 \in DOMAIN recent /\ at[k] <= at[k] + 1
      BY <1>4, <1>7, <2>1, <3>3, SMTT(30)
    <3>5. PICK j \in 1 .. n : at[j] = at[k] + 1
      BY <1>6, <3>4
    <3>6. at[k] < at[j] /\ ~(at[i] < at[j])
      BY <1>7, <2>1, <3>3, <3>5, SMTT(30)
    <3>7. k < j /\ ~(i < j)
      BY <1>6, <2>1, <3>6 DEF Increasing
    <3>8. j = i
      BY <2>1, <3>1, <3>7
    <3> QED
      BY <1>7, <2>1, <3>1, <3>5, <3>8
  <2>3. \/ list[i].event.agent \in first[b]
        \/ list[i].seq > readAt[b]
        \/ Cardinality(first[b]) >= cap(MaxAgents)
    BY <1>3, <1>6, <1>7, <2>1 DEF RecentEvent
  <2> QED
    BY <2>2, <2>3
<1>9. DashboardOf(b)'
  <2>1. events'[b] = list
    BY <1>1 DEF list
  <2> QED
    BY <1>1, <1>8, <2>1 DEF DashboardOf
<1>10. CardsInv(b)' /\ HeaderInv(b)' /\ TimelineOf(b)'
  BY <1>1 DEF CardsInv, HeaderInv, TimelineOf
<1> QED
  BY <1>2, <1>9, <1>10, OthersKeepTheirPages DEF PageOf

\* The header is the agent's snapshot, which its ring replays.
LEMMA HeaderIsRead ==
  ASSUME StorageAssumption, StoreInv, PagesInv, NEW b \in Browsers,
         NEW name \in AgentName, ReadHeader(b, name)
  PROVE  PagesInv'
PROOF
<1>1. /\ first'[b] = {agent(name)} /\ readAt'[b] = seq
      /\ page'[b] = IF agent(name) = Nothing THEN "404" ELSE "header"
      /\ seq' = seq /\ agents' = agents /\ recent' = recent
  BY DEF ReadHeader, PagesInv, storageVars
<1>2. OnlyPageOf(b)
  BY DEF ReadHeader, OnlyPageOf, PagesInv, storageVars
<1>3. seq \in Nat
  BY DEF StoreInv, StoreBase, TypeOK
<1>4. Header(b)' = agent(name)
  BY <1>1 DEF Header
<1>5. ASSUME agent(name) # Nothing
      PROVE  /\ name \in DOMAIN agents
             /\ agent(name) = [name |-> name, snapshot |-> agents[name].val.snapshot]
  <2>1. \E i \in DOMAIN agents_list : agents_list[i] = name
    BY <1>5 DEF agent
  <2>2. Agrees(agents_list, agents)
    BY AgentsListFollows DEF StoreInv
  <2>3. name \in DOMAIN agents
    BY <2>1, <2>2 DEF Agrees
  <2> QED
    BY <2>1, <2>3 DEF agent
<1>6. HeaderInv(b)'
  <2> SUFFICES ASSUME agent(name) # Nothing
               PROVE  /\ readAt'[b] \in Nat /\ readAt'[b] <= seq'
                      /\ first'[b] = {Header(b)'}
                      /\ Header(b)'.snapshot.events_ingested \in Nat
                      /\ Header(b)'.name \in DOMAIN agents' =>
                           BearsOut(agents'[Header(b)'.name].val, Header(b)'.snapshot,
                                    readAt'[b])
    BY <1>1 DEF HeaderInv, BearsOut
  <2> DEFINE r == agents[name].val
             snap == r.snapshot
  <2>1. /\ Header(b)'.name = name /\ Header(b)'.snapshot = snap
        /\ name \in DOMAIN agents
    BY <1>4, <1>5
  <2>2. /\ IsAgentRecord(r) /\ RecordInv(name, r, seq)
    BY <2>1 DEF StoreInv, StoreBase, TypeOK, Values, AgentRecordsInv
  <2> HIDE DEF r
  <2>3. snap.events_ingested \in Nat
    BY <2>2 DEF IsAgentRecord, AgentSnapshot
  <2>4. BearsOut(r, snap, seq)
    <3>1. Replayed(r.snapshot, r.events) /\ \A i \in DOMAIN r.events : i <= seq
      BY <2>2 DEF RecordInv, RingIsFull
    <3>2. {j \in Rated(r.events) : j <= seq} = Rated(r.events)
      BY <3>1 DEF Rated
    <3> QED
      BY <2>3, <3>1, <3>2, SMTT(30) DEF Replayed, BearsOut
  <2> QED
    BY <1>1, <1>3, <1>4, <2>1, <2>3, <2>4 DEF r
<1>7. CardsInv(b)' /\ DashboardOf(b)' /\ TimelineOf(b)'
  BY <1>1 DEF CardsInv, DashboardOf, TimelineOf
<1> QED
  BY <1>2, <1>6, <1>7, OthersKeepTheirPages DEF PageOf

\* The timeline is the end of the ring.  Of what was there when the header was
\* read it shows the last part, unless the ring has lost all of it.
LEMMA TimelineIsRead ==
  ASSUME StorageAssumption, PagesAssumption, StoreInv, PagesInv,
         NEW b \in Browsers, ReadTimeline(b)
  PROVE  PagesInv'
PROOF
<1>1. /\ page[b] = "header" /\ page'[b] = "agent"
      /\ readAt'[b] = readAt[b] /\ first'[b] = first[b]
      /\ events'[b] = events_for(Header(b).name, TimelineEvents)
  BY DEF ReadTimeline, PagesInv
<1>2. OnlyPageOf(b)
  BY DEF ReadTimeline, OnlyPageOf, PagesInv, storageVars
<1>3. Header(b)' = Header(b)
  BY <1>1 DEF Header
<1> DEFINE h == Header(b)
           name == h.name
           snap == h.snapshot
           list == events_for(name, TimelineEvents)
           m == readAt[b]
           known == {i \in DOMAIN list : list[i].seq <= m}
           rated == {i \in known : list[i].event.type = "metacognition"
                                     /\ list[i].event.confidence # None}
<1>4. /\ m \in Nat /\ snap.events_ingested \in Nat
      /\ name \in DOMAIN agents => BearsOut(agents[name].val, snap, m)
  BY <1>1 DEF PagesInv, PageOf, HeaderInv
<1>5. /\ \A i \in DOMAIN list : list[i].event.agent = name
      /\ \/ known = {}
         \/ Len(list) >= Smaller(snap.events_ingested,
                                 Smaller(cap(EventsPerAgent), TimelineEvents))
      /\ rated # {} =>
           list[CHOOSE i \in rated : \A j \in rated : j <= i].event.confidence
             = snap.last_confidence
  <2>1. CASE name \notin DOMAIN agents
    <3>1. list = << >>
      BY <2>1 DEF events_for
    <3>2. DOMAIN list = {}
      BY <3>1
    <3> HIDE DEF list
    <3> QED
      BY <3>2
  <2>2. CASE name \in DOMAIN agents
    <3> DEFINE r == agents[name].val
               ring == r.events
    <3>1. /\ IsAgentRecord(r) /\ RingIsFull(name, r, seq) /\ BearsOut(r, snap, m)
          /\ Numbered(ring) /\ IsFiniteSet(DOMAIN ring)
      BY <1>4, <2>2 DEF StoreInv, StoreBase, TypeOK, Values, AgentRecordsInv, RecordInv,
                        StampsInv, CachesStayBounded, Bounded
    <3>2. list = AtMost(RingList(ring), TimelineEvents)
      BY <2>2 DEF events_for
    <3> HIDE DEF list, r, name, snap
    <3>3. /\ DOMAIN ring \subseteq Nat /\ TimelineEvents \in Nat
          /\ \A i \in DOMAIN ring : /\ ring[i].val.seq = i /\ i \in Nat
                                    /\ ring[i].val.event.agent = name
          /\ r.snapshot.events_ingested \in Nat /\ cap(EventsPerAgent) \in Nat
          /\ Cardinality(DOMAIN ring) = Smaller(r.snapshot.events_ingested, cap(EventsPerAgent))
      <4>1. DOMAIN ring \subseteq Nat
        BY <3>1 DEF IsAgentRecord, IsCache
      <4>2. r.snapshot.events_ingested \in Nat
        BY <3>1 DEF IsAgentRecord, AgentSnapshot
      <4>3. cap(EventsPerAgent) \in Nat /\ TimelineEvents \in Nat
        BY CapIsPositive DEF StorageAssumption, PagesAssumption
      <4> QED
        BY <3>1, <4>1, <4>2, <4>3 DEF RingIsFull, Numbered, Smaller
    <3> HIDE DEF ring
    <3>4. PICK n \in Nat : /\ DOMAIN list = 1 .. n /\ Len(list) = n
                           /\ n = Smaller(Cardinality(DOMAIN ring), TimelineEvents)
                           /\ ShowsEndOf(list, ring, n)
      BY <3>1, <3>2, <3>3, LatestAreListed
    <3>5. PICK at \in [1 .. n -> DOMAIN ring] :
            /\ \A i \in 1 .. n : list[i] = ring[at[i]].val
            /\ Increasing(at, n)
            /\ \A i \in 1 .. n, k \in DOMAIN ring :
                 at[i] <= k => \E j \in 1 .. n : at[j] = k
      BY <3>4 DEF ShowsEndOf
    <3>6. \A i \in 1 .. n : /\ at[i] \in DOMAIN ring /\ at[i] \in Nat
                            /\ list[i].seq = at[i] /\ list[i].event.agent = name
      BY <3>3, <3>5, SMTT(30)
    <3>7. ASSUME known # {}
          PROVE  Len(list) >= Smaller(snap.events_ingested,
                                      Smaller(cap(EventsPerAgent), TimelineEvents))
      <4>1. \E i \in DOMAIN ring : i <= m
        BY <3>4, <3>6, <3>7
      <4>2. snap.events_ingested <= r.snapshot.events_ingested
        BY <3>1, <4>1 DEF BearsOut, ring
      <4> QED
        BY <1>4, <3>3, <3>4, <4>2 DEF Smaller
    <3>8. ASSUME rated # {}
          PROVE  list[CHOOSE i \in rated : \A j \in rated : j <= i].event.confidence
                   = snap.last_confidence
      <4> DEFINE R == {k \in Rated(ring) : k <= m}
      <4>1. \A i \in 1 .. n : i \in rated <=> at[i] \in R
        BY <3>3, <3>4, <3>5, <3>6 DEF Rated
      <4>2. rated \subseteq 1 .. n /\ rated \in SUBSET Nat /\ \A i \in rated : i <= n
        BY <3>4
      <4> HIDE DEF rated, R
      <4>3. \E i \in rated : \A j \in rated : j <= i
        BY <3>8, <4>2, LastMoment
      <4>4. PICK i \in rated : /\ \A j \in rated : j <= i
                               /\ i = CHOOSE k \in rated : \A j \in rated : j <= k
        BY <4>3
      <4>5. i \in 1 .. n /\ at[i] \in R
        BY <4>1, <4>2, <4>4
      <4>6. ASSUME NEW k \in R PROVE k <= at[i]
        <5>1. k \in DOMAIN ring /\ k \in Nat /\ at[i] \in Nat
          BY <3>3, <3>6, <4>5 DEF R, Rated
        <5> SUFFICES ASSUME at[i] < k PROVE FALSE
          BY <5>1
        <5>2. PICK j \in 1 .. n : at[j] = k
          BY <3>5, <4>5, <5>1
        <5>3. j \in rated /\ i < j
          BY <3>5, <4>1, <4>5, <4>6, <5>2 DEF Increasing
        <5>4. j <= i
          BY <4>4, <5>3
        <5> QED
          BY <4>5, <5>3, <5>4
      <4>7. LastOf(at[i], R)
        BY <4>5, <4>6 DEF LastOf
      <4>8. ring[at[i]].val.event.confidence = snap.last_confidence
        BY <3>1, <3>6, <4>5, <4>7 DEF BearsOut, ring, R
      <4> QED
        BY <3>5, <4>4, <4>5, <4>8
    <3>9. \A i \in DOMAIN list : list[i].event.agent = name
      BY <3>4, <3>6
    <3> HIDE DEF known, rated
    <3> QED
      BY <3>7, <3>8, <3>9
  <2> HIDE DEF list, known, rated
  <2> QED
    BY <2>1, <2>2
<1>6. TimelineOf(b)'
  <2>1. events'[b] = list /\ Known(b)' = known
    BY <1>1 DEF Known
  <2>2. /\ \A i \in DOMAIN events'[b] : events'[b][i].event.agent = Header(b)'.name
        /\ \/ Known(b)' = {}
           \/ Len(events'[b]) >= Smaller(Header(b)'.snapshot.events_ingested,
                                         Smaller(cap(EventsPerAgent), TimelineEvents))
        /\ {i \in Known(b)' : events'[b][i].event.type = "metacognition"
                                /\ events'[b][i].event.confidence # None} # {} =>
             events'[b][CHOOSE i \in {k \in Known(b)' :
                                        events'[b][k].event.type = "metacognition"
                                          /\ events'[b][k].event.confidence # None} :
                          \A j \in {k \in Known(b)' :
                                      events'[b][k].event.type = "metacognition"
                                        /\ events'[b][k].event.confidence # None} :
                            j <= i].event.confidence
               = Header(b)'.snapshot.last_confidence
    <3> HIDE DEF list, known
    <3> QED
      BY <1>3, <1>5, <2>1
  <2> HIDE DEF list, known
  <2> QED
    BY <2>2 DEF TimelineOf, Smaller
<1>7. CardsInv(b)' /\ HeaderInv(b)' /\ DashboardOf(b)'
  BY <1>1 DEF CardsInv, HeaderInv, DashboardOf
<1> QED
  BY <1>2, <1>6, <1>7, OthersKeepTheirPages DEF PageOf

LEMMA PageIsLeft ==
  ASSUME PagesInv, NEW b \in Browsers, Leave(b)
  PROVE  PagesInv'
PROOF
<1>1. page'[b] = "none" /\ OnlyPageOf(b)
  BY DEF Leave, OnlyPageOf, PagesInv, storageVars
<1>2. PageOf(b)'
  BY <1>1 DEF PageOf, CardsInv, HeaderInv, DashboardOf, TimelineOf
<1> QED
  BY <1>1, <1>2, OthersKeepTheirPages

\* What the store of the pages does, the store does.
LEMMA PagesUseTheStore == PagesSpec => Spec
PROOF
<1>1. PagesInit => Init
  BY DEF PagesInit
<1>2. [PagesNext]_vars => [Next]_storageVars
  BY DEF PagesNext, Store, ReadCards, ReadRows, ReadHeader, ReadTimeline, Leave, vars, Next
<1> QED
  BY <1>1, <1>2, PTL DEF PagesSpec, Spec

LEMMA StoreInvHolds == Spec => []StoreInv
PROOF
BY StoreBaseHolds, AgentsInvHolds, AgentRecordsInvHolds, StampsInvHolds, PTL DEF StoreInv

LEMMA PagesInvHolds == PagesSpec => []PagesInv
PROOF
<1>1. PagesInit => PagesInv
  BY DEF PagesInit, PagesInv, PageOf, CardsInv, HeaderInv, DashboardOf, TimelineOf
<1>2. StoreInv /\ StoreInv' /\ PagesInv /\ [PagesNext]_vars => PagesInv'
  <2> SUFFICES ASSUME StoreInv, StoreInv', PagesInv, [PagesNext]_vars PROVE PagesInv'
    OBVIOUS
  <2>1. CASE Store
    <3>1. PICK transport \in Via, e \in Inputs, now \in Times : Ingest(transport, e, now)
      BY <2>1 DEF Store
    <3>2. Step(Stored(transport, e, now))
      BY <3>1, StorageAssumption, IngestIsStep DEF StoreInv, StoreBase
    <3>3. Stored(transport, e, now) \in StoredEvent
      BY <3>2 DEF Step
    <3> QED
      BY <2>1, <3>2, <3>3, StorageAssumption, StoringKeepsPages DEF Store
  <2>2. ASSUME NEW b \in Browsers, ReadCards(b) PROVE PagesInv'
    BY <2>2, StorageAssumption, CardsAreRead
  <2>3. ASSUME NEW b \in Browsers, ReadRows(b) PROVE PagesInv'
    BY <2>3, StorageAssumption, PagesAssumption, RowsAreRead
  <2>4. ASSUME NEW b \in Browsers, NEW name \in AgentName, ReadHeader(b, name) PROVE PagesInv'
    BY <2>4, StorageAssumption, HeaderIsRead
  <2>5. ASSUME NEW b \in Browsers, ReadTimeline(b) PROVE PagesInv'
    BY <2>5, StorageAssumption, PagesAssumption, TimelineIsRead
  <2>6. ASSUME NEW b \in Browsers, Leave(b) PROVE PagesInv'
    BY <2>6, PageIsLeft
  <2>7. CASE UNCHANGED vars
    <3>1. /\ page' = page /\ first' = first /\ events' = events /\ readAt' = readAt
          /\ seq' = seq /\ agents' = agents /\ recent' = recent
      BY <2>7 DEF vars, storageVars, pageVars
    <3>2. \A b \in Browsers : PageOf(b)'
      BY <3>1, PageIsKept DEF PagesInv
    <3> QED
      BY <3>1, <3>2 DEF PagesInv
  <2> QED
    BY <2>1, <2>2, <2>3, <2>4, <2>5, <2>6, <2>7 DEF PagesNext
<1> QED
  BY <1>1, <1>2, PagesUseTheStore, StoreInvHolds, PTL DEF PagesSpec

\* Whatever is stored between its two reads, the dashboard misses no agent it had
\* room for, and its rows have no gap (ui/mod.rs:198-199).
THEOREM DashboardsMissNoOldAgent == PagesSpec => []DashboardMissesNoOldAgent
PROOF
<1>1. PagesInv => DashboardMissesNoOldAgent
  BY DEF PagesInv, PageOf, DashboardOf, DashboardMissesNoOldAgent
<1> QED
  BY <1>1, PagesInvHolds, PTL

\* Whatever is stored between its two reads, the timeline of an agent's page bears
\* the header out (ui/mod.rs:266-273).
THEOREM TimelinesBearTheHeaderOut == PagesSpec => []TimelineBearsTheHeaderOut
PROOF
<1>1. PagesInv => TimelineBearsTheHeaderOut
  BY DEF PagesInv, PageOf, TimelineOf, TimelineBearsTheHeaderOut
<1> QED
  BY <1>1, PagesInvHolds, PTL

-----------------------------------------------------------------------------
(***************************************************************************)
(* The chart.                                                              *)
(***************************************************************************)

LEMMA LeastNumber ==
  ASSUME NEW U \in SUBSET Nat, U # {}
  PROVE  \E u \in U : \A w \in U : u <= w
PROOF
<1>1. PICK u \in U : \A w \in U : ~(<<w, u>> \in OpToRel(<, Nat))
  BY NatLessThanWellFounded, WFMin
<1>2. \A w \in U : u <= w
  <2> SUFFICES ASSUME NEW w \in U, ~(u <= w) PROVE FALSE
    OBVIOUS
  <2>1. u \in Nat /\ w \in Nat /\ w < u
    OBVIOUS
  <2>2. <<w, u>> \in OpToRel(<, Nat)
    BY <2>1 DEF OpToRel
  <2> QED
    BY <1>1, <2>2
<1> QED
  BY <1>2

\* Times in a list are bounded: else take the first entries, as few as possible,
\* that are not.
LEMMA TimesAreBounded ==
  ASSUME NEW n \in Nat, NEW t, \A i \in 1 .. n : t[i].received_at_ms \in Nat
  PROVE  \E b \in Nat : \A i \in 1 .. n : t[i].received_at_ms <= b
PROOF
<1> DEFINE BoundedUpTo(k) == \E b \in Nat : \A i \in 1 .. k : t[i].received_at_ms <= b
           F == {k \in 0 .. n : ~BoundedUpTo(k)}
<1> SUFFICES ASSUME ~BoundedUpTo(n) PROVE FALSE
  OBVIOUS
<1>1. F \in SUBSET Nat /\ n \in F
  OBVIOUS
<1>2. PICK k \in F : \A j \in F : k <= j
  <2> HIDE DEF F
  <2> QED
    BY <1>1, LeastNumber
<1>3. k \in 0 .. n /\ ~BoundedUpTo(k)
  BY <1>2
<1>4. k # 0
  <2> SUFFICES ASSUME k = 0 PROVE BoundedUpTo(k)
    BY <1>3
  <2>1. \A i \in 1 .. k : FALSE
    OBVIOUS
  <2> QED
    BY <2>1
<1>5. BoundedUpTo(k - 1)
  <2>1. k - 1 \in 0 .. n /\ ~(k <= k - 1)
    BY <1>3, <1>4
  <2> HIDE DEF BoundedUpTo
  <2> QED
    BY <1>2, <2>1
<1>6. PICK b \in Nat : \A i \in 1 .. k - 1 : t[i].received_at_ms <= b
  BY <1>5
<1>7. t[k].received_at_ms \in Nat
  BY <1>3, <1>4
<1> DEFINE c == b + t[k].received_at_ms
<1>8. c \in Nat /\ b <= c /\ t[k].received_at_ms <= c
  BY <1>7, SMTT(30)
<1>9. ASSUME NEW i \in 1 .. k PROVE t[i].received_at_ms <= c
  <2>1. CASE i = k
    BY <1>8, <2>1
  <2>2. CASE i # k
    <3>1. i \in 1 .. k - 1 /\ t[i].received_at_ms \in Nat
      BY <1>3, <2>2
    <3> HIDE DEF c
    <3> QED
      BY <1>6, <1>8, <3>1
  <2> QED
    BY <2>1, <2>2
<1> HIDE DEF c
<1> QED
  BY <1>3, <1>8, <1>9

\* n entries of a list have times.
Timed(list, n) ==
  /\ n \in Nat /\ DOMAIN list = 1 .. n
  /\ \A i \in 1 .. n : list[i].received_at_ms \in Nat

\* The axis is not empty and has room for every time.
OnAxis(axis, t) == t \in Nat /\ axis.min <= t /\ t <= axis.max
LEMMA AxisHasRoom ==
  ASSUME NEW points, NEW n, Timed(points, n), n >= 1, NEW shifts, NEW k, Timed(shifts, k)
  PROVE  LET axis == Axis(points, shifts)
         IN  /\ axis.min \in Nat /\ axis.max \in Nat /\ axis.min + 1 <= axis.max
             /\ \A i \in 1 .. n : OnAxis(axis, points[i].received_at_ms)
             /\ \A j \in 1 .. k : OnAxis(axis, shifts[j].received_at_ms)
PROOF
<1> DEFINE A == TimesOf(points) \cup TimesOf(shifts)
           lo == Min(A)
           B == A \cup {lo + 1}
           hi == Max(B)
<1>1. /\ A \in SUBSET Nat /\ A # {}
      /\ \A i \in 1 .. n : points[i].received_at_ms \in A
      /\ \A j \in 1 .. k : shifts[j].received_at_ms \in A
      /\ \A u \in A : \/ \E i \in 1 .. n : u = points[i].received_at_ms
                      \/ \E j \in 1 .. k : u = shifts[j].received_at_ms
  <2>1. /\ TimesOf(points) = {points[i].received_at_ms : i \in 1 .. n}
        /\ TimesOf(shifts) = {shifts[j].received_at_ms : j \in 1 .. k}
        /\ \A i \in 1 .. n : points[i].received_at_ms \in Nat
        /\ \A j \in 1 .. k : shifts[j].received_at_ms \in Nat
    BY DEF Timed, TimesOf
  <2>2. /\ \A i \in 1 .. n : points[i].received_at_ms \in A
        /\ \A j \in 1 .. k : shifts[j].received_at_ms \in A
        /\ \A z \in A : \/ \E i \in 1 .. n : z = points[i].received_at_ms
                        \/ \E j \in 1 .. k : z = shifts[j].received_at_ms
    BY <2>1
  <2>3. n \in Nat /\ 1 \in 1 .. n
    BY DEF Timed
  <2> HIDE DEF A
  <2> QED
    BY <2>1, <2>2, <2>3
<1>2. PICK b \in Nat : \A i \in 1 .. n : points[i].received_at_ms <= b
  BY TimesAreBounded DEF Timed
<1>3. PICK d \in Nat : \A j \in 1 .. k : shifts[j].received_at_ms <= d
  BY TimesAreBounded DEF Timed
<1>4. Axis(points, shifts) = [min |-> lo, max |-> hi]
  BY DEF Axis
<1> HIDE DEF A
<1>5. \A u \in A : u \in Nat /\ u <= b + d
  <2> SUFFICES ASSUME NEW u \in A PROVE u <= b + d
    BY <1>1
  <2>1. u \in Nat /\ (u <= b \/ u <= d)
    BY <1>1, <1>2, <1>3
  <2> QED
    BY <2>1
<1>6. lo \in A /\ \A u \in A : lo <= u
  <2>1. \E u \in A : \A w \in A : u <= w
    BY <1>1, LeastNumber
  <2> QED
    BY <2>1 DEF Min
<1> HIDE DEF lo
<1>7. lo \in Nat /\ lo <= b + d
  BY <1>5, <1>6
<1>8. hi \in B /\ \A u \in B : u <= hi
  <2>1. B \in SUBSET Nat /\ B # {}
    BY <1>1, <1>7
  <2>2. b + d + 1 \in Nat /\ \A u \in B : u <= b + d + 1
    BY <1>5, <1>7
  <2> HIDE DEF B
  <2>3. PICK u : u = b + d + 1
    OBVIOUS
  <2>4. \E v \in B : \A w \in B : w <= v
    BY <2>1, <2>2, <2>3, LastMoment
  <2>5. \E v \in B : \A w \in B : v >= w
    BY <2>1, <2>4
  <2>6. hi \in B /\ \A w \in B : hi >= w
    BY <2>5 DEF Max
  <2> HIDE DEF hi
  <2> QED
    BY <2>1, <2>6
<1> HIDE DEF hi
<1>9. hi \in Nat /\ lo + 1 <= hi /\ \A u \in A : u <= hi
  BY <1>1, <1>7, <1>8
<1>10. Axis(points, shifts).min = lo /\ Axis(points, shifts).max = hi
  BY <1>4
<1> QED
  BY <1>1, <1>6, <1>7, <1>9, <1>10 DEF OnAxis

\* What a division that rounds down gives.
LEMMA Quotient ==
  ASSUME NEW a \in Nat, NEW d \in Nat, d >= 1
  PROVE  /\ a \div d \in Nat /\ (a \div d) * d <= a
         /\ \A q \in Int : q * d <= a => q <= a \div d
OBVIOUS

\* Along the axis, x keeps to the frame and to the order of the times, and tells
\* times apart that differ by a tenth of a unit.
LEMMA XFollowsTheAxis ==
  ASSUME NEW axis, axis.min \in Nat, axis.max \in Nat, axis.min + 1 <= axis.max,
         NEW t, OnAxis(axis, t), NEW v, OnAxis(axis, v)
  PROVE  /\ x(axis, t) \in Int /\ InFrame(x(axis, t))
         /\ v - t >= 0 => x(axis, t) <= x(axis, v)
         /\ (v - t) * PlotWidth >= axis.max - axis.min => x(axis, t) < x(axis, v)
PROOF
<1> DEFINE d == axis.max - axis.min
           W == PlotWidth
           a == (t - axis.min) * W
           e == (v - axis.min) * W
<1>1. W = 6200 /\ PadLeft = 440
  BY DEF PlotWidth, PadLeft
<1>2. d \in Nat /\ d >= 1 /\ t - axis.min \in 0 .. d /\ v - axis.min \in 0 .. d
  BY DEF OnAxis
<1>3. x(axis, t) = PadLeft + (a \div d) /\ x(axis, v) = PadLeft + (e \div d)
  BY DEF x
<1> HIDE DEF d, W
<1>4. a \in Nat /\ e \in Nat /\ a <= W * d
  <2>1. PICK p, q : p = t - axis.min /\ q = v - axis.min
    OBVIOUS
  <2>2. p \in Nat /\ q \in Nat /\ p <= d
    BY <1>2, <2>1
  <2>3. p * 6200 \in Nat /\ q * 6200 \in Nat /\ p * 6200 <= 6200 * d
    BY <1>2, <2>2
  <2> QED
    BY <1>1, <2>1, <2>3
<1>5. e - a = (v - t) * W
  BY <1>1, <1>2 DEF OnAxis
<1>6. v - t >= 0 => a <= e
  BY <1>1, <1>2 DEF OnAxis
<1>7. axis.min \in Nat /\ t \in Nat /\ v \in Nat
  BY DEF OnAxis
<1> HIDE DEF a, e
<1>8. /\ a \div d \in Nat /\ (a \div d) * d <= a
      /\ e \div d \in Nat /\ \A q \in Int : q * d <= e => q <= e \div d
  BY <1>2, <1>4, Quotient
<1>9. a \div d <= W
  <2>1. PICK q \in Nat : q = a \div d
    BY <1>8
  <2>2. q * d <= 6200 * d
    <3>1. q * d \in Nat /\ 6200 * d \in Nat /\ q * d <= a /\ a <= 6200 * d
      BY <1>1, <1>2, <1>4, <1>8, <2>1
    <3> QED
      BY <1>4, <3>1
  <2>3. q <= 6200
    <3> SUFFICES ASSUME q >= 6201 PROVE FALSE
      OBVIOUS
    <3>1. q * d >= 6201 * d
      BY <1>2
    <3> QED
      BY <1>2, <2>2, <3>1
  <2> QED
    BY <1>1, <2>1, <2>3
<1>10. v - t >= 0 => a \div d <= e \div d
  <2> SUFFICES ASSUME v - t >= 0 PROVE a \div d <= e \div d
    OBVIOUS
  <2>1. PICK q \in Nat : q = a \div d
    BY <1>8
  <2>2. q * d \in Nat /\ q * d <= e
    BY <1>2, <1>4, <1>6, <1>8, <2>1
  <2> QED
    BY <1>8, <2>1, <2>2
<1>11. (v - t) * W >= d => a \div d < e \div d
  <2> SUFFICES ASSUME (v - t) * W >= d PROVE a \div d < e \div d
    OBVIOUS
  <2>1. PICK q \in Nat : q = a \div d
    BY <1>8
  <2>2. q * d \in Nat /\ q * d <= a /\ a + d <= e
    BY <1>1, <1>2, <1>4, <1>5, <1>7, <1>8, <2>1
  <2>3. (q + 1) * d = q * d + d
    BY <1>2
  <2>4. (q + 1) * d <= e
    BY <1>2, <1>4, <2>2, <2>3
  <2>5. q + 1 <= e \div d
    BY <1>8, <2>4
  <2> QED
    BY <1>8, <2>1, <2>5
<1>12. PICK q \in Nat, r \in Nat : q = a \div d /\ r = e \div d
  BY <1>8
<1>13. x(axis, t) = 440 + q /\ x(axis, v) = 440 + r /\ q <= 6200
  <2>1. x(axis, t) = PadLeft + q /\ x(axis, v) = PadLeft + r /\ q <= W
    BY <1>3, <1>9, <1>12, Zenon
  <2> QED
    BY <1>1, <2>1
<1>14. /\ v - t >= 0 => q <= r
       /\ (v - t) * PlotWidth >= axis.max - axis.min => q < r
  BY <1>10, <1>11, <1>12, Zenon DEF W, d
<1>15. x(axis, t) \in Int /\ x(axis, t) \in 440 .. 440 + 6200
  BY <1>13
<1>16. InFrame(x(axis, t))
  BY <1>1, <1>15 DEF InFrame, W
<1>17. /\ v - t >= 0 => x(axis, t) <= x(axis, v)
       /\ (v - t) * PlotWidth >= axis.max - axis.min => x(axis, t) < x(axis, v)
  BY <1>13, <1>14
<1> QED
  BY <1>15, <1>16, <1>17

LEMMA YFollowsTheConfidence ==
  ASSUME NEW c \in Int
  PROVE  y(c) \in PadTop .. PadTop + PlotHeight
PROOF
<1>1. PlotHeight = 1760 /\ PadTop = 140
  BY DEF PlotHeight, PadTop
<1>2. Clamped(c) \in 0 .. 100
  BY DEF Clamped
<1>3. PICK p \in 0 .. 100 : p = Clamped(c)
  BY <1>2
<1>4. ((100 - p) * 1760) \div 100 \in 0 .. 1760
  OBVIOUS
<1>5. y(c) = 140 + (((100 - p) * 1760) \div 100)
  BY <1>1, <1>3 DEF y
<1> QED
  BY <1>1, <1>4, <1>5

\* s is what a list holds at the places I, k of them, in order.
Picked(s, list, I, k) ==
  \E at \in [1 .. k -> I] : /\ \A i \in 1 .. k : s[i] = list[at[i]]
                            /\ Increasing(at, k)
                            /\ \A m \in I : \E i \in 1 .. k : at[i] = m

\* What is picked from a list keeps its order.
LEMMA ThoseKeepTheOrder ==
  ASSUME NEW list, NEW n \in Nat, NEW I \in SUBSET (1 .. n)
  PROVE  \E k \in Nat :
           /\ DOMAIN Those(list, I) = 1 .. k /\ Len(Those(list, I)) = k
           /\ k = 0 => Those(list, I) = << >>
           /\ Picked(Those(list, I), list, I, k)
PROOF
<1> DEFINE f == [i \in I |-> list[i]]
           V == {list[i] : i \in I}
           s == Those(list, I)
<1>1. /\ DOMAIN f = I /\ \A m \in DOMAIN f : f[m] = list[m] /\ f[m] \in V
      /\ s = Listed(f)
  BY DEF Those
<1>2. I \in SUBSET Nat /\ IsFiniteSet(I)
  <2>1. IsFiniteSet(1 .. n)
    BY FS_Interval
  <2>2. IsFiniteSet(I)
    BY <2>1, FS_Subset
  <2> QED
    BY <2>2
<1> HIDE DEF f, V, s
<1>3. PICK k \in Nat : /\ k = Cardinality(I) /\ s \in Seq(V) /\ Len(s) = k
                       /\ HoldsInOrder(s, f, k)
  <2>1. /\ Cardinality(DOMAIN f) \in Nat
        /\ Listed(f) \in Seq(V) /\ Len(Listed(f)) = Cardinality(DOMAIN f)
        /\ HoldsInOrder(Listed(f), f, Cardinality(DOMAIN f))
    BY <1>1, <1>2, ListedInOrder
  <2> QED
    BY <1>1, <2>1
<1>4. PICK at \in [1 .. k -> DOMAIN f] :
        /\ \A i \in 1 .. k : s[i] = f[at[i]]
        /\ Increasing(at, k)
        /\ \A m \in DOMAIN f : \E i \in 1 .. k : at[i] = m
  BY <1>3 DEF HoldsInOrder
<1>5. at \in [1 .. k -> I] /\ \A i \in 1 .. k : s[i] = list[at[i]]
  BY <1>1, <1>4
<1>6. DOMAIN s = 1 .. k
  BY <1>3
<1>7. k = 0 => s = << >>
  BY <1>3, EmptySeq
<1>8. /\ Increasing(at, k)
      /\ \A m \in I : \E i \in 1 .. k : at[i] = m
  BY <1>1, <1>4
<1>9. Picked(s, list, I, k)
  BY <1>5, <1>8 DEF Picked
<1> QED
  BY <1>3, <1>6, <1>7, <1>9 DEF s

\* The marks of a chart, for reports and strategies that have times.
LEMMA ChartKeepsToItsFrame ==
  ASSUME NEW points, NEW n, Timed(points, n), n >= 1,
         \A i \in 1 .. n : points[i].event.confidence \in Int,
         NEW shifts, NEW k, Timed(shifts, k),
         NEW chart \in confidence_svg(points, shifts)
  PROVE  LET span == Axis(points, shifts).max - Axis(points, shifts).min
         IN  /\ \A i \in DOMAIN points :
                  LET at == chart.circles[i]
                  IN  /\ InFrame(at[1]) /\ at[2] \in PadTop .. PadTop + PlotHeight
                      /\ \A j \in DOMAIN shifts :
                           LET later == shifts[j].received_at_ms - points[i].received_at_ms
                           IN  /\ later >= 0 => at[1] <= chart.markers[j]
                               /\ later * PlotWidth >= span => at[1] < chart.markers[j]
             /\ \A j \in DOMAIN shifts : InFrame(chart.markers[j])
PROOF
<1>1. PICK axis : axis = Axis(points, shifts)
  OBVIOUS
<1>2. /\ axis.min \in Nat /\ axis.max \in Nat /\ axis.min + 1 <= axis.max
      /\ \A i \in 1 .. n : OnAxis(axis, points[i].received_at_ms)
      /\ \A j \in 1 .. k : OnAxis(axis, shifts[j].received_at_ms)
  BY <1>1, AxisHasRoom
<1>3. /\ \A i \in 1 .. n :
           chart.circles[i] = <<x(axis, points[i].received_at_ms),
                                y(points[i].event.confidence)>>
      /\ \A j \in 1 .. k : chart.markers[j] = x(axis, shifts[j].received_at_ms)
  <2>1. DOMAIN points = 1 .. n /\ DOMAIN shifts = 1 .. k
    BY DEF Timed
  <2>2. points # << >>
    BY DEF confidence_svg
  <2>3. /\ chart.circles = [i \in DOMAIN points |->
             <<x(axis, points[i].received_at_ms), y(points[i].event.confidence)>>]
        /\ chart.markers = [i \in DOMAIN shifts |-> x(axis, shifts[i].received_at_ms)]
    BY <1>1, <2>2 DEF confidence_svg, marks
  <2> QED
    BY <2>1, <2>3
<1>4. ASSUME NEW i \in 1 .. n
      PROVE  /\ InFrame(chart.circles[i][1])
             /\ chart.circles[i][2] \in PadTop .. PadTop + PlotHeight
  <2>1. InFrame(x(axis, points[i].received_at_ms))
    BY <1>2, XFollowsTheAxis
  <2>2. y(points[i].event.confidence) \in PadTop .. PadTop + PlotHeight
    BY YFollowsTheConfidence
  <2>3. /\ chart.circles[i][1] = x(axis, points[i].received_at_ms)
        /\ chart.circles[i][2] = y(points[i].event.confidence)
    BY <1>3
  <2> QED
    BY <2>1, <2>2, <2>3
<1>5. ASSUME NEW i \in 1 .. n, NEW j \in 1 .. k
      PROVE  LET later == shifts[j].received_at_ms - points[i].received_at_ms
             IN  /\ later >= 0 => chart.circles[i][1] <= chart.markers[j]
                 /\ later * PlotWidth >= axis.max - axis.min
                      => chart.circles[i][1] < chart.markers[j]
  <2>1. PICK t, v : t = points[i].received_at_ms /\ v = shifts[j].received_at_ms
    OBVIOUS
  <2>2. OnAxis(axis, t) /\ OnAxis(axis, v)
    BY <1>2, <2>1
  <2>3. /\ v - t >= 0 => x(axis, t) <= x(axis, v)
        /\ (v - t) * PlotWidth >= axis.max - axis.min => x(axis, t) < x(axis, v)
    BY <1>2, <2>2, XFollowsTheAxis
  <2>4. chart.circles[i][1] = x(axis, t) /\ chart.markers[j] = x(axis, v)
    BY <1>3, <2>1
  <2> QED
    BY <2>1, <2>3, <2>4
<1>6. ASSUME NEW j \in 1 .. k PROVE InFrame(chart.markers[j])
  BY <1>2, <1>3, XFollowsTheAxis
<1>7. DOMAIN points = 1 .. n /\ DOMAIN shifts = 1 .. k
  BY DEF Timed
<1> QED
  BY <1>1, <1>4, <1>5, <1>6, <1>7

\* What a page of an agent shows are stored events.
Plotted ==
  \A b \in Browsers : page[b] = "agent" =>
    \E n \in Nat : /\ DOMAIN events[b] = 1 .. n
                   /\ \A i \in 1 .. n : events[b][i] \in StoredEvent

LEMMA TimelinesAreStored ==
  ASSUME PagesAssumption, StoreInv, NEW name
  PROVE  \E n \in Nat : /\ DOMAIN events_for(name, TimelineEvents) = 1 .. n
                        /\ \A i \in 1 .. n : events_for(name, TimelineEvents)[i] \in StoredEvent
PROOF
<1> DEFINE list == events_for(name, TimelineEvents)
<1>1. CASE name \notin DOMAIN agents
  <2>1. list = << >>
    BY <1>1 DEF events_for
  <2>2. DOMAIN list = 1 .. 0
    BY <2>1
  <2> HIDE DEF list
  <2>3. \A i \in 1 .. 0 : list[i] \in StoredEvent
    OBVIOUS
  <2>4. 0 \in Nat
    OBVIOUS
  <2> QED
    BY <2>2, <2>3, <2>4 DEF list
<1>2. CASE name \in DOMAIN agents
  <2> DEFINE ring == agents[name].val.events
  <2>1. IsAgentRecord(agents[name].val) /\ IsFiniteSet(DOMAIN ring)
    BY <1>2 DEF StoreInv, StoreBase, TypeOK, Values, CachesStayBounded, Bounded
  <2>2. list = AtMost(RingList(ring), TimelineEvents)
    BY <1>2 DEF events_for
  <2>3. DOMAIN ring \subseteq Nat /\ \A m \in DOMAIN ring : ring[m].val \in StoredEvent
    <3>1. IsCache(ring, 1 .. MaxSeq) /\ Values(ring) \subseteq StoredEvent
      BY <2>1 DEF IsAgentRecord
    <3> HIDE DEF ring
    <3> QED
      BY ONLY <3>1 DEF IsCache, Values
  <2> HIDE DEF list, ring
  <2>4. PICK n \in Nat : DOMAIN list = 1 .. n /\ ShowsEndOf(list, ring, n)
    <3>1. TimelineEvents \in Nat
      BY PagesAssumption DEF PagesAssumption
    <3>2. IsFiniteSet(DOMAIN ring) /\ DOMAIN ring \subseteq Nat
      BY <2>1, <2>3
    <3> QED
      BY ONLY <2>2, <3>1, <3>2, LatestAreListed
  <2>5. PICK from \in [1 .. n -> DOMAIN ring] : \A i \in 1 .. n : list[i] = ring[from[i]].val
    BY <2>4 DEF ShowsEndOf
  <2>6. \A i \in 1 .. n : list[i] \in StoredEvent
    BY <2>3, <2>5
  <2> QED
    BY <2>4, <2>6 DEF list
<1> QED
  BY <1>1, <1>2

LEMMA PlottedHolds == PagesSpec => []Plotted
PROOF
<1>1. PagesInit => Plotted
  BY DEF PagesInit, Plotted
<1>2. StoreInv /\ PagesInv /\ Plotted /\ [PagesNext]_vars => Plotted'
  <2> SUFFICES ASSUME StoreInv, PagesInv, Plotted, [PagesNext]_vars, NEW b \in Browsers,
                      page'[b] = "agent"
               PROVE  \E n \in Nat : /\ DOMAIN events'[b] = 1 .. n
                                     /\ \A i \in 1 .. n : events'[b][i] \in StoredEvent
    BY DEF Plotted
  <2>1. CASE page[b] = "agent" /\ events'[b] = events[b]
    BY <2>1 DEF Plotted
  <2>2. ASSUME ReadTimeline(b)
        PROVE  events'[b] = events_for(Header(b).name, TimelineEvents)
    BY <2>2 DEF ReadTimeline, PagesInv
  <2>3. CASE ReadTimeline(b)
    BY <2>2, <2>3, PagesAssumption, TimelinesAreStored
  <2>4. ReadTimeline(b) \/ (page[b] = "agent" /\ events'[b] = events[b])
    BY DEF PagesInv, PagesNext, Store, ReadCards, ReadRows, ReadHeader, ReadTimeline, Leave,
           vars, pageVars
  <2> QED
    BY <2>1, <2>3, <2>4
<1> QED
  BY <1>1, <1>2, PagesUseTheStore, StoreInvHolds, PagesInvHolds, PTL DEF PagesSpec

\* The label stands for the last of the rated events of the page.
LEMMA LabelIsTheLast ==
  ASSUME NEW list, NEW n \in Nat, DOMAIN list = 1 .. n,
         NEW I \in SUBSET (1 .. n), NEW points, NEW p \in Nat, p >= 1,
         DOMAIN points = 1 .. p, Picked(points, list, I, p)
  PROVE  \E i \in I : points[p] = list[i] /\ \A j \in I : j <= i
PROOF
<1>1. PICK at \in [1 .. p -> I] :
        /\ \A i \in 1 .. p : points[i] = list[at[i]]
        /\ Increasing(at, p)
        /\ \A m \in I : \E i \in 1 .. p : at[i] = m
  BY DEF Picked
<1>2. p \in 1 .. p /\ at[p] \in I /\ at[p] \in 1 .. n /\ points[p] = list[at[p]]
  <2>1. p \in 1 .. p
    OBVIOUS
  <2>2. at[p] \in I /\ points[p] = list[at[p]]
    BY <1>1, <2>1
  <2> QED
    BY <2>1, <2>2
<1>3. ASSUME NEW j \in I PROVE j <= at[p]
  <2>1. PICK i \in 1 .. p : at[i] = j
    BY <1>1
  <2> SUFFICES ASSUME at[p] < j PROVE FALSE
    BY <1>2
  <2>2. p < i
    BY <1>1, <1>2, <2>1 DEF Increasing
  <2> QED
    BY <2>2
<1> QED
  BY <1>2, <1>3

\* Whatever the times, and whatever is stored between its two reads, the chart of an
\* agent's page keeps to its frame and to the order of the times, and its label is
\* the confidence the first read gave unless a later report took its place
\* (ui/mod.rs:266-304, chart.rs:45-60, 101-148).
THEOREM ChartsAlwaysFitTheirAgents == PagesSpec => []ChartFitsTheAgent
PROOF
<1>1. ASSUME PagesInv, Plotted, NEW b \in Browsers, page[b] = "agent",
             NEW chart \in confidence_svg(confidence_points(events[b]),
                                          strategy_shifts(events[b]))
      PROVE  LET points == confidence_points(events[b])
                 shifts == strategy_shifts(events[b])
                 span == Axis(points, shifts).max - Axis(points, shifts).min
             IN  /\ \A i \in DOMAIN points :
                      LET at == chart.circles[i]
                      IN  /\ InFrame(at[1]) /\ at[2] \in PadTop .. PadTop + PlotHeight
                          /\ \A j \in DOMAIN shifts :
                               LET later == shifts[j].received_at_ms - points[i].received_at_ms
                               IN  /\ later >= 0 => at[1] <= chart.markers[j]
                                   /\ later * PlotWidth >= span => at[1] < chart.markers[j]
                 /\ \A j \in DOMAIN shifts : InFrame(chart.markers[j])
                 /\ points[Len(points)].seq <= readAt[b] =>
                      chart.label[3] = Header(b).snapshot.last_confidence
  <2> DEFINE list == events[b]
             points == confidence_points(list)
             shifts == strategy_shifts(list)
             I == {i \in DOMAIN list : IsRated(list[i])}
             J == {i \in DOMAIN list : IsShift(list[i])}
  <2>1. chart \in confidence_svg(points, shifts)
    BY <1>1
  <2>2. PICK n \in Nat : /\ DOMAIN list = 1 .. n
                         /\ \A i \in 1 .. n : list[i] \in StoredEvent
    BY <1>1 DEF Plotted
  <2>3. TimelineOf(b)
    BY <1>1 DEF PagesInv, PageOf
  <2>4. /\ points = Those(list, I) /\ I \in SUBSET (1 .. n)
        /\ shifts = Those(list, J) /\ J \in SUBSET (1 .. n)
    BY <2>2 DEF confidence_points, strategy_shifts
  <2>5. \A i \in I : /\ list[i] \in StoredEvent /\ list[i].event.type = "metacognition"
                     /\ list[i].event.confidence # None
    BY <2>2 DEF IsRated
  <2>6. \A i \in DOMAIN list : i \in I <=> /\ list[i].event.type = "metacognition"
                                          /\ list[i].event.confidence # None
    BY DEF IsRated
  <2> HIDE DEF points, shifts, I, J
  <2>7. PICK p \in Nat :
          /\ DOMAIN points = 1 .. p /\ Len(points) = p
          /\ p = 0 => points = << >>
          /\ Picked(points, list, I, p)
    BY <2>4, ThoseKeepTheOrder
  <2>8. PICK k \in Nat : DOMAIN shifts = 1 .. k /\ Picked(shifts, list, J, k)
    BY <2>4, ThoseKeepTheOrder
  <2>9. \A i \in 1 .. p : \E m \in I : points[i] = list[m]
    BY <2>7 DEF Picked
  <2>10. \A j \in 1 .. k : \E m \in J : shifts[j] = list[m]
    BY <2>8 DEF Picked
  <2>11. Timed(points, p) /\ Timed(shifts, k)
    <3>1. \A i \in 1 .. p : points[i] \in StoredEvent
      BY <2>2, <2>4, <2>9
    <3>2. \A j \in 1 .. k : shifts[j] \in StoredEvent
      BY <2>2, <2>4, <2>10
    <3> QED
      BY <2>7, <2>8, <3>1, <3>2 DEF Timed, StoredEvent
  <2>12. points # << >> /\ p >= 1
    BY <2>1, <2>7 DEF confidence_svg
  <2>13. \A i \in 1 .. p : points[i].event.confidence \in Int
    <3> SUFFICES ASSUME NEW i \in 1 .. p PROVE points[i].event.confidence \in Int
      OBVIOUS
    <3>1. /\ points[i].event \in Event /\ points[i].event.type = "metacognition"
          /\ points[i].event.confidence # None
      BY <2>5, <2>9 DEF StoredEvent
    <3>2. points[i].event \in Metacognition
      BY <3>1 DEF Event, Register, Introspection, TaskReport, Learning, Heartbeat
    <3> QED
      BY <3>1, <3>2 DEF Metacognition, Confidence
  <2>14. ASSUME points[Len(points)].seq <= readAt[b]
         PROVE  chart.label[3] = Header(b).snapshot.last_confidence
    <3>1. chart.label[3] = points[p].event.confidence
      <4>1. chart = marks(points, shifts)
        BY <2>1, <2>12 DEF confidence_svg
      <4>2. chart.label[3] = points[Len(points)].event.confidence
        BY <4>1 DEF marks
      <4> QED
        BY <2>7, <4>2
    <3>2. PICK i \in I : points[p] = list[i] /\ \A j \in I : j <= i
      BY <2>2, <2>4, <2>7, <2>12, LabelIsTheLast
    <3> DEFINE rated == {j \in Known(b) : list[j].event.type = "metacognition"
                                            /\ list[j].event.confidence # None}
    <3>3. i \in rated /\ rated \subseteq I /\ I \subseteq Nat
      <4>1. i \in DOMAIN list /\ list[i].seq <= readAt[b]
        BY <2>2, <2>4, <2>7, <2>14, <3>2
      <4> QED
        BY <2>4, <2>5, <2>6, <4>1 DEF Known
    <3>4. rated # {} =>
            list[CHOOSE m \in rated : \A j \in rated : j <= m].event.confidence
              = Header(b).snapshot.last_confidence
      BY <1>1, <2>3 DEF TimelineOf
    <3> HIDE DEF rated, list
    <3>5. (CHOOSE m \in rated : \A j \in rated : j <= m) = i
      <4>1. \A j \in rated : j <= i
        BY <3>2, <3>3
      <4>2. \A m \in rated : (\A j \in rated : j <= m) => m = i
        <5>1. \A m \in rated : m \in Nat
          BY <3>3
        <5> QED
          BY <3>3, <4>1, <5>1
      <4> QED
        BY <3>3, <4>1, <4>2
    <3> QED
      BY <3>1, <3>2, <3>3, <3>4, <3>5
  <2>15. LET span == Axis(points, shifts).max - Axis(points, shifts).min
         IN  /\ \A i \in DOMAIN points :
                  /\ InFrame(chart.circles[i][1])
                  /\ chart.circles[i][2] \in PadTop .. PadTop + PlotHeight
                  /\ \A j \in DOMAIN shifts :
                       LET later == shifts[j].received_at_ms - points[i].received_at_ms
                       IN  /\ later >= 0 => chart.circles[i][1] <= chart.markers[j]
                           /\ later * PlotWidth >= span
                                => chart.circles[i][1] < chart.markers[j]
             /\ \A j \in DOMAIN shifts : InFrame(chart.markers[j])
    BY <2>1, <2>11, <2>12, <2>13, ChartKeepsToItsFrame
  <2> QED
    BY <2>14, <2>15 DEF points, shifts
<1>2. PagesInv /\ Plotted => ChartFitsTheAgent
  BY <1>1 DEF ChartFitsTheAgent
<1> QED
  BY <1>2, PagesInvHolds, PlottedHolds, PTL

-----------------------------------------------------------------------------
(***************************************************************************)
(* The task page.  Rendered and Up are functions defined by recursion on   *)
(* the depth: iterations of a step, which exist.                           *)
(***************************************************************************)

\* Induction, for a set of numbers.
LEMMA AllNumbers ==
  ASSUME NEW F \in SUBSET Nat, 0 \in F, \A n \in F : n + 1 \in F
  PROVE  F = Nat
PROOF
<1> DEFINE U == Nat \ F
<1> SUFFICES ASSUME U # {} PROVE FALSE
  OBVIOUS
<1>1. U \in SUBSET Nat
  OBVIOUS
<1>2. PICK u \in U : \A z \in U : u <= z
  <2> HIDE DEF U
  <2> QED
    BY <1>1, LeastNumber
<1>3. u \in Nat /\ u # 0
  BY <1>2
<1>4. u - 1 \in Nat /\ ~(u <= u - 1) /\ (u - 1) + 1 = u
  BY <1>3
<1>5. u - 1 \in F
  BY <1>2, <1>4
<1>6. u \in F
  BY <1>4, <1>5
<1> QED
  BY <1>2, <1>6

\* The first n iterations of a step.
Iterates(f, s0, step, n) ==
  f[0] = s0 /\ \A i \in 0 .. n : i > 0 => f[i] = step[f[i - 1]]

\* A step can be iterated.
LEMMA Iteration ==
  ASSUME NEW S, NEW s0 \in S, NEW step \in [S -> S]
  PROVE  \E f \in [Nat -> S] :
           f = [n \in Nat |-> IF n = 0 THEN s0 ELSE step[f[n - 1]]]
PROOF
<1> DEFINE Part(n) == {f \in [0 .. n -> S] : Iterates(f, s0, step, n)}
           F == {n \in Nat : Part(n) # {}}
<1>1. F = Nat
  <2>1. 0 \in F
    <3> DEFINE f == [i \in 0 .. 0 |-> s0]
    <3>1. f \in [0 .. 0 -> S] /\ f[0] = s0
      OBVIOUS
    <3>2. Iterates(f, s0, step, 0)
      BY <3>1 DEF Iterates
    <3> QED
      BY <3>1, <3>2
  <2>2. ASSUME NEW n \in F PROVE n + 1 \in F
    <3>1. PICK f \in [0 .. n -> S] : Iterates(f, s0, step, n)
      OBVIOUS
    <3> DEFINE g == [i \in 0 .. n + 1 |-> IF i = n + 1 THEN step[f[n]] ELSE f[i]]
    <3>2. n \in Nat /\ n \in 0 .. n /\ f[n] \in S
      BY <3>1
    <3>3. g \in [0 .. n + 1 -> S]
      <4> SUFFICES ASSUME NEW i \in 0 .. n + 1
                   PROVE  (IF i = n + 1 THEN step[f[n]] ELSE f[i]) \in S
        OBVIOUS
      <4>1. CASE i = n + 1
        BY <3>2, <4>1
      <4>2. CASE i # n + 1
        <5>1. i \in 0 .. n
          BY <3>2, <4>2
        <5> QED
          BY <3>1, <4>2, <5>1
      <4> QED
        BY <4>1, <4>2
    <3>4. \A i \in 0 .. n : g[i] = f[i]
      BY <3>2
    <3>5. g[n + 1] = step[f[n]]
      BY <3>2
    <3> HIDE DEF g
    <3>6. g[0] = s0
      BY <3>1, <3>2, <3>4 DEF Iterates
    <3>7. ASSUME NEW i \in 0 .. n + 1, i > 0 PROVE g[i] = step[g[i - 1]]
      <4>1. i - 1 \in 0 .. n /\ g[i - 1] = f[i - 1]
        BY <3>2, <3>4, <3>7
      <4>2. CASE i = n + 1
        BY <3>2, <3>5, <4>1, <4>2
      <4>3. CASE i # n + 1
        <5>1. i \in 0 .. n
          BY <3>2, <4>3
        <5> QED
          BY <3>1, <3>4, <3>7, <4>1, <5>1 DEF Iterates
      <4> QED
        BY <4>2, <4>3
    <3>8. Iterates(g, s0, step, n + 1)
      BY <3>6, <3>7 DEF Iterates
    <3> QED
      BY <3>2, <3>3, <3>8
  <2>3. F \in SUBSET Nat
    OBVIOUS
  <2> HIDE DEF F
  <2> QED
    BY <2>1, <2>2, <2>3, AllNumbers
<1>2. ASSUME NEW n \in Nat, NEW m \in Nat, NEW f \in Part(n), NEW g \in Part(m)
      PROVE  \A i \in Nat : i <= n /\ i <= m => f[i] = g[i]
  <2> DEFINE E == {i \in Nat : i <= n /\ i <= m => f[i] = g[i]}
  <2>1. 0 \in E
    BY DEF Iterates
  <2>2. ASSUME NEW i \in E PROVE i + 1 \in E
    <3>1. i \in Nat /\ i + 1 \in Nat /\ (i + 1) - 1 = i
      OBVIOUS
    <3> SUFFICES ASSUME i + 1 <= n, i + 1 <= m PROVE f[i + 1] = g[i + 1]
      BY <3>1
    <3>2. i + 1 \in 0 .. n /\ i + 1 \in 0 .. m /\ i + 1 > 0 /\ i <= n /\ i <= m
      BY <3>1
    <3>3. f[i] = g[i]
      BY <3>2
    <3>4. f[i + 1] = step[f[(i + 1) - 1]] /\ g[i + 1] = step[g[(i + 1) - 1]]
      BY <3>2 DEF Iterates
    <3> QED
      BY <3>1, <3>3, <3>4
  <2>3. E \in SUBSET Nat
    OBVIOUS
  <2>4. E = Nat
    <3> HIDE DEF E
    <3> QED
      BY <2>1, <2>2, <2>3, AllNumbers
  <2> QED
    BY <2>4
<1> DEFINE p == [n \in Nat |-> CHOOSE f \in Part(n) : TRUE]
           h == [n \in Nat |-> p[n][n]]
<1>3. \A n \in Nat : p[n] \in Part(n)
  <2> HIDE DEF Part
  <2> SUFFICES ASSUME NEW n \in Nat PROVE p[n] \in Part(n)
    OBVIOUS
  <2>1. n \in F
    BY <1>1
  <2> QED
    BY <2>1
<1> HIDE DEF p
<1>4. h \in [Nat -> S]
  BY <1>3
<1>5. \A n \in Nat : h[n] = IF n = 0 THEN s0 ELSE step[h[n - 1]]
  <2> SUFFICES ASSUME NEW n \in Nat PROVE h[n] = IF n = 0 THEN s0 ELSE step[h[n - 1]]
    OBVIOUS
  <2>1. h[n] = p[n][n] /\ p[n] \in [0 .. n -> S] /\ Iterates(p[n], s0, step, n)
    BY <1>3
  <2>2. CASE n = 0
    BY <2>1, <2>2 DEF Iterates
  <2>3. CASE n # 0
    <3>1. n - 1 \in Nat /\ n \in 0 .. n /\ n > 0 /\ n - 1 <= n
      BY <2>3
    <3>2. p[n][n] = step[p[n][n - 1]]
      BY <2>1, <3>1 DEF Iterates
    <3>3. h[n - 1] = p[n - 1][n - 1]
      BY <3>1
    <3>4. p[n] \in Part(n) /\ p[n - 1] \in Part(n - 1)
      BY <1>3, <3>1
    <3>5. p[n][n - 1] = p[n - 1][n - 1]
      <4> HIDE DEF Part
      <4>1. PICK m \in Nat : m = n - 1
        BY <3>1
      <4>2. p[m] \in Part(m) /\ m <= n /\ m <= m
        BY <3>1, <3>4, <4>1
      <4>3. p[n][m] = p[m][m]
        BY <1>2, <3>4, <4>2
      <4> QED
        BY <4>1, <4>3
    <3> QED
      BY <2>1, <2>3, <3>2, <3>3, <3>5
  <2> QED
    BY <2>2, <2>3
<1> HIDE DEF h
<1>6. h = [n \in Nat |-> IF n = 0 THEN s0 ELSE step[h[n - 1]]]
  BY <1>4, <1>5
<1> QED
  BY <1>4, <1>6

\* The levels of the task page: the roots, and below each level its children.
LEMMA LevelsOfThePage ==
  /\ Rendered[0] = roots
  /\ \A d \in Nat : Rendered[d + 1] = children(Rendered[d])
  /\ \A d \in Nat : Rendered[d] \subseteq DOMAIN tasks
PROOF
<1> DEFINE S == SUBSET (DOMAIN tasks)
           step == [X \in S |-> children(X)]
<1>1. roots \in S /\ \A X \in S : children(X) \in S
  BY DEF roots, children
<1>2. step \in [S -> S] /\ \A X \in S : step[X] = children(X)
  BY <1>1
<1> HIDE DEF step
<1>3. PICK f \in [Nat -> S] : f = [n \in Nat |-> IF n = 0 THEN roots ELSE step[f[n - 1]]]
  <2> HIDE DEF S
  <2> QED
    BY <1>1, <1>2, Iteration
<1>4. f = [n \in Nat |-> IF n = 0 THEN roots ELSE children(f[n - 1])]
  <2>1. \A n \in Nat : n # 0 => step[f[n - 1]] = children(f[n - 1])
    BY <1>2, <1>3
  <2>2. \A n \in Nat : f[n] = IF n = 0 THEN roots ELSE children(f[n - 1])
    BY <1>3, <2>1
  <2> QED
    BY <1>3, <2>2
<1>5. Rendered = CHOOSE g : g = [n \in Nat |-> IF n = 0 THEN roots ELSE children(g[n - 1])]
  BY DEF Rendered
<1>6. Rendered = [n \in Nat |-> IF n = 0 THEN roots ELSE children(Rendered[n - 1])]
  BY <1>4, <1>5
<1>7. \A n \in Nat : Rendered[n] = IF n = 0 THEN roots ELSE children(Rendered[n - 1])
  BY <1>6
<1>8. \A d \in Nat : Rendered[d + 1] = children(Rendered[d])
  <2> SUFFICES ASSUME NEW d \in Nat PROVE Rendered[d + 1] = children(Rendered[d])
    OBVIOUS
  <2>1. d + 1 \in Nat /\ d + 1 # 0 /\ (d + 1) - 1 = d
    OBVIOUS
  <2> QED
    BY <1>7, <2>1
<1>9. \A d \in Nat : Rendered[d] \subseteq DOMAIN tasks
  BY <1>7 DEF roots, children
<1> QED
  BY <1>7, <1>8, <1>9

\* The tasks above a task, while they are known.
LEMMA ChainOfParents ==
  ASSUME NEW t
  PROVE  /\ Up(t, 0) = t
         /\ \A n \in Nat : Up(t, n) \in DOMAIN tasks =>
              Up(t, n + 1) = tasks[Up(t, n)].val.parent_id
PROOF
<1> DEFINE P(u) == IF u \in DOMAIN tasks THEN tasks[u].val.parent_id ELSE None
           S == {t, None} \cup {tasks[u].val.parent_id : u \in DOMAIN tasks}
           step == [u \in S |-> P(u)]
<1>1. t \in S /\ step \in [S -> S] /\ \A u \in S : step[u] = P(u)
  OBVIOUS
<1> HIDE DEF step
<1>2. PICK f \in [Nat -> S] : f = [n \in Nat |-> IF n = 0 THEN t ELSE step[f[n - 1]]]
  <2> HIDE DEF S
  <2> QED
    BY <1>1, Iteration
<1>3. f = [n \in Nat |-> IF n = 0 THEN t ELSE P(f[n - 1])]
  <2> HIDE DEF P, S
  <2>1. \A n \in Nat : n # 0 => step[f[n - 1]] = P(f[n - 1])
    BY <1>1, <1>2
  <2>2. \A n \in Nat : f[n] = IF n = 0 THEN t ELSE P(f[n - 1])
    BY <1>2, <2>1
  <2> QED
    BY <1>2, <2>2
<1> DEFINE up == CHOOSE g : g = [n \in Nat |-> IF n = 0 THEN t ELSE P(g[n - 1])]
<1>4. up = [n \in Nat |-> IF n = 0 THEN t ELSE P(up[n - 1])]
  <2> HIDE DEF P
  <2> QED
    BY <1>3
<1>5. \A n : Up(t, n) = up[n]
  BY DEF Up
<1> HIDE DEF up
<1>6. \A n \in Nat : Up(t, n) = IF n = 0 THEN t ELSE P(Up(t, n - 1))
  <2> HIDE DEF P
  <2> QED
    BY <1>4, <1>5
<1>7. ASSUME NEW n \in Nat, Up(t, n) \in DOMAIN tasks
      PROVE  Up(t, n + 1) = tasks[Up(t, n)].val.parent_id
  <2>1. n + 1 \in Nat /\ n + 1 # 0 /\ (n + 1) - 1 = n
    OBVIOUS
  <2>2. Up(t, n + 1) = P(Up(t, n))
    <3> HIDE DEF P
    <3> QED
      BY <1>6, <2>1
  <2> QED
    BY <1>7, <2>2
<1> QED
  BY <1>6, <1>7

\* Where the levels come from: a task of the first has no parent in the store, one
\* of another has its parent in the level above.
LEMMA LevelsGoUp ==
  ASSUME NEW d \in Nat, NEW t
  PROVE  /\ t \in Rendered[0] <=> t \in DOMAIN tasks /\ tasks[t].val.parent_id \notin DOMAIN tasks
         /\ t \in Rendered[d + 1] <=> t \in DOMAIN tasks /\ tasks[t].val.parent_id \in Rendered[d]
BY LevelsOfThePage DEF roots, Orphan, children

LEMMA LevelsAreDisjoint ==
  ASSUME NEW d1 \in Nat, NEW d2 \in Nat, d1 < d2
  PROVE  Rendered[d1] \cap Rendered[d2] = {}
PROOF
<1> DEFINE F == {n \in Nat : \A m \in Nat : n < m => Rendered[n] \cap Rendered[m] = {}}
<1>1. 0 \in F
  <2> SUFFICES ASSUME NEW m \in Nat, 0 < m, NEW t \in Rendered[0], t \in Rendered[m]
               PROVE  FALSE
    OBVIOUS
  <2>1. m - 1 \in Nat /\ (m - 1) + 1 = m
    OBVIOUS
  <2>2. tasks[t].val.parent_id \in Rendered[m - 1]
    BY <2>1, LevelsGoUp
  <2>3. tasks[t].val.parent_id \notin DOMAIN tasks
    BY LevelsGoUp
  <2> QED
    BY <2>1, <2>2, <2>3, LevelsOfThePage
<1>2. ASSUME NEW n \in F PROVE n + 1 \in F
  <2> SUFFICES ASSUME NEW m \in Nat, n + 1 < m, NEW t \in Rendered[n + 1], t \in Rendered[m]
               PROVE  FALSE
    OBVIOUS
  <2>1. n \in Nat /\ m - 1 \in Nat /\ (m - 1) + 1 = m /\ n < m - 1
    OBVIOUS
  <2>2. tasks[t].val.parent_id \in Rendered[n]
    BY <2>1, LevelsGoUp
  <2>3. tasks[t].val.parent_id \in Rendered[m - 1]
    BY <2>1, LevelsGoUp
  <2> QED
    BY <2>1, <2>2, <2>3
<1>3. F \in SUBSET Nat
  OBVIOUS
<1>4. F = Nat
  <2> HIDE DEF F
  <2> QED
    BY <1>1, <1>2, <1>3, AllNumbers
<1> QED
  BY <1>4

\* If a level is not empty, none above it is.
LEMMA NoLevelIsSkipped ==
  ASSUME NEW n \in Nat, Rendered[n] # {}
  PROVE  \A d \in 0 .. n : Rendered[d] # {}
PROOF
<1> DEFINE F == {k \in Nat : k <= n => Rendered[n - k] # {}}
<1>1. 0 \in F
  OBVIOUS
<1>2. ASSUME NEW k \in F PROVE k + 1 \in F
  <2> SUFFICES ASSUME k + 1 <= n PROVE Rendered[n - (k + 1)] # {}
    OBVIOUS
  <2>1. PICK d \in Nat : d = n - (k + 1)
    OBVIOUS
  <2>2. k \in Nat /\ k <= n /\ n - k = d + 1
    BY <2>1
  <2>3. PICK t : t \in Rendered[d + 1]
    BY <2>2
  <2>4. tasks[t].val.parent_id \in Rendered[d]
    BY <2>3, LevelsGoUp
  <2> QED
    BY <2>1, <2>4
<1>3. F \in SUBSET Nat
  OBVIOUS
<1>4. F = Nat
  <2> HIDE DEF F
  <2> QED
    BY <1>1, <1>2, <1>3, AllNumbers
<1>5. ASSUME NEW d \in 0 .. n PROVE Rendered[d] # {}
  <2>1. PICK k \in Nat : k = n - d
    OBVIOUS
  <2>2. k <= n /\ n - k = d
    BY <2>1
  <2>3. k \in F
    <3> HIDE DEF F
    <3> QED
      BY <1>4
  <2>4. Rendered[n - k] # {}
    BY <2>2, <2>3
  <2> QED
    BY <2>2, <2>4
<1> QED
  BY <1>5

\* There are no more levels than tasks: a task of each would be one too many.
LEMMA LevelsEnd ==
  ASSUME IsFiniteSet(DOMAIN tasks)
  PROVE  /\ Cardinality(DOMAIN tasks) \in Nat
         /\ \A n \in Nat : n >= Cardinality(DOMAIN tasks) => Rendered[n] = {}
PROOF
<1> DEFINE D == DOMAIN tasks
           N == Cardinality(D)
<1>1. N \in Nat
  BY FS_CardinalityType
<1>2. ASSUME NEW n \in Nat, n >= N, Rendered[n] # {} PROVE FALSE
  <2> DEFINE I == 0 .. n
             c == [d \in I |-> CHOOSE t : t \in Rendered[d]]
  <2>1. \A d \in I : d \in Nat /\ c[d] \in Rendered[d] /\ c[d] \in D
    <3>1. \A d \in I : Rendered[d] # {}
      BY <1>2, NoLevelIsSkipped
    <3>2. \A d \in I : c[d] \in Rendered[d]
      BY <3>1
    <3> HIDE DEF c
    <3> QED
      BY <3>2, LevelsOfThePage
  <2>2. c \in [I -> D]
    BY <2>1
  <2> HIDE DEF c
  <2>3. \A a, b \in I : c[a] = c[b] => a = b
    <3> SUFFICES ASSUME NEW a \in I, NEW b \in I, c[a] = c[b], a # b PROVE FALSE
      OBVIOUS
    <3>1. a < b \/ b < a
      OBVIOUS
    <3> HIDE DEF I
    <3> QED
      BY <2>1, <3>1, LevelsAreDisjoint
  <2>4. c \in Injection(I, D)
    BY <2>2, <2>3, Fun_IsInj
  <2>5. Cardinality(I) = n + 1
    <3>1. Cardinality(0 .. n) = (IF 0 > n THEN 0 ELSE n - 0 + 1)
      BY FS_Interval
    <3> QED
      BY <3>1
  <2> HIDE DEF I, D
  <2>6. IsFiniteSet(D) /\ Cardinality(I) <= Cardinality(D)
    BY <2>4, FS_Injection DEF D
  <2> QED
    BY <1>1, <1>2, <2>5, <2>6 DEF D
<1> QED
  BY <1>1, <1>2

\* As long as the parents are known, a task is as many levels below one above it
\* as there are reports between them.
LEMMA LevelsFollowTheChain ==
  ASSUME NEW t, NEW n \in Nat, \A i \in Nat : i < n => Up(t, i) \in DOMAIN tasks
  PROVE  \A d \in Nat : t \in Rendered[d + n] <=> Up(t, n) \in Rendered[d]
PROOF
<1> DEFINE Matches(k) == \A d \in Nat : t \in Rendered[d + k] <=> Up(t, k) \in Rendered[d]
           F == {k \in Nat : k <= n => Matches(k)}
<1>1. 0 \in F
  <2>1. \A d \in Nat : d + 0 = d
    OBVIOUS
  <2>2. Up(t, 0) = t
    BY ChainOfParents
  <2>3. Matches(0)
    BY <2>1, <2>2
  <2> QED
    BY <2>3
<1>2. ASSUME NEW k \in F PROVE k + 1 \in F
  <2> SUFFICES ASSUME k + 1 <= n, NEW d \in Nat
               PROVE  t \in Rendered[d + (k + 1)] <=> Up(t, k + 1) \in Rendered[d]
    OBVIOUS
  <2>1. k \in Nat /\ k <= n /\ k < n /\ d + 1 \in Nat /\ d + (k + 1) = (d + 1) + k
    OBVIOUS
  <2>2. Matches(k)
    BY <2>1
  <2>3. t \in Rendered[(d + 1) + k] <=> Up(t, k) \in Rendered[d + 1]
    BY <2>1, <2>2
  <2>4. Up(t, k) \in DOMAIN tasks
    BY <2>1
  <2>5. Up(t, k + 1) = tasks[Up(t, k)].val.parent_id
    BY <2>1, <2>4, ChainOfParents
  <2>6. Up(t, k) \in Rendered[d + 1] <=> tasks[Up(t, k)].val.parent_id \in Rendered[d]
    BY <2>4, LevelsGoUp
  <2> QED
    BY <2>1, <2>3, <2>5, <2>6
<1>3. F \in SUBSET Nat
  OBVIOUS
<1>4. F = Nat
  <2> HIDE DEF F
  <2> QED
    BY <1>1, <1>2, <1>3, AllNumbers
<1>5. n \in F
  <2> HIDE DEF F
  <2> QED
    BY <1>4
<1> QED
  BY <1>5

\* The task page always ends: however the parents reported for the tasks loop,
\* task_node goes no deeper than there are tasks and renders none twice
\* (ui/mod.rs:408-417, 453-462).
THEOREM TaskPagesAlwaysEnd == Spec => []TaskPageEnds
PROOF
<1>1. StoreBase => TaskPageEnds
  <2> SUFFICES ASSUME StoreBase PROVE TaskPageEnds
    OBVIOUS
  <2>1. IsFiniteSet(DOMAIN tasks)
    BY DEF StoreBase, CachesStayBounded, Bounded
  <2>2. /\ Cardinality(DOMAIN tasks) \in Nat
        /\ \A n \in Nat : n >= Cardinality(DOMAIN tasks) => Rendered[n] = {}
    BY <2>1, LevelsEnd
  <2>3. Rendered[Cardinality(DOMAIN tasks)] = {}
    BY <2>2
  <2>4. ASSUME NEW d1 \in Depths, NEW d2 \in Depths, d1 # d2
        PROVE  Rendered[d1] \cap Rendered[d2] = {}
    <3>1. d1 \in Nat /\ d2 \in Nat /\ (d1 < d2 \/ d2 < d1)
      BY <2>2, <2>4 DEF Depths
    <3>2. CASE d1 < d2
      BY <3>1, <3>2, LevelsAreDisjoint
    <3>3. CASE d2 < d1
      BY <3>1, <3>3, LevelsAreDisjoint
    <3> QED
      BY <3>1, <3>2, <3>3
  <2> QED
    BY <2>3, <2>4 DEF TaskPageEnds
<1> QED
  BY <1>1, StoreBaseHolds, PTL

\* The page never hides a task but for a cycle: a task is shown exactly when going
\* up from it leaves the store (ui/mod.rs:408-417).
THEOREM OnlyCyclesAreEverHidden == Spec => []OnlyCyclesAreHidden
PROOF
<1>1. StoreBase => OnlyCyclesAreHidden
  <2> SUFFICES ASSUME StoreBase, NEW t \in DOMAIN tasks
               PROVE  t \in Shown <=> \E n \in Depths : Up(t, n) \notin DOMAIN tasks
    BY DEF OnlyCyclesAreHidden
  <2>1. IsFiniteSet(DOMAIN tasks)
    BY DEF StoreBase, CachesStayBounded, Bounded
  <2>2. /\ Cardinality(DOMAIN tasks) \in Nat
        /\ \A n \in Nat : n >= Cardinality(DOMAIN tasks) => Rendered[n] = {}
    BY <2>1, LevelsEnd
  <2>3. \A n \in Depths : n \in Nat
    BY <2>2 DEF Depths
  <2>4. ASSUME NEW d \in Depths, t \in Rendered[d],
               \A n \in Depths : Up(t, n) \in DOMAIN tasks
        PROVE  FALSE
    <3>1. /\ d \in Nat /\ d < Cardinality(DOMAIN tasks) /\ d + 0 = d
          /\ d + 1 \in Depths /\ \A i \in Nat : i < d => i \in Depths
      BY <2>2, <2>3, <2>4 DEF Depths
    <3>2. \A i \in Nat : i < d => Up(t, i) \in DOMAIN tasks
      BY <2>4, <3>1
    <3>3. t \in Rendered[0 + d] <=> Up(t, d) \in Rendered[0]
      BY <3>1, <3>2, LevelsFollowTheChain
    <3>4. 0 + d = d
      BY <3>1
    <3>5. Up(t, d) \in Rendered[0]
      BY <2>4, <3>3, <3>4
    <3>6. /\ Up(t, d) \in DOMAIN tasks
          /\ tasks[Up(t, d)].val.parent_id \notin DOMAIN tasks
      BY <3>5, LevelsGoUp
    <3>7. Up(t, d + 1) = tasks[Up(t, d)].val.parent_id
      BY <3>1, <3>6, ChainOfParents
    <3> QED
      BY <2>4, <3>1, <3>6, <3>7
  <2>5. ASSUME NEW n \in Depths, Up(t, n) \notin DOMAIN tasks
        PROVE  \E d \in Depths : t \in Rendered[d]
    <3> DEFINE U == {i \in Nat : Up(t, i) \notin DOMAIN tasks}
    <3>1. PICK u \in U : \A w \in U : u <= w
      <4>1. U \in SUBSET Nat /\ n \in U
        BY <2>3, <2>5
      <4> HIDE DEF U
      <4> QED
        BY <4>1, LeastNumber
    <3>2. u \in Nat /\ u # 0 /\ u <= n
      BY <2>3, <2>5, <3>1, ChainOfParents
    <3>3. PICK m \in Nat : m = u - 1
      BY <3>2
    <3>4. m + 1 = u /\ 0 + m = m /\ m \in Depths /\ m < u
      BY <2>2, <3>2, <3>3 DEF Depths
    <3>5. \A i \in Nat : i < u => Up(t, i) \in DOMAIN tasks
      BY <3>1
    <3>6. \A i \in Nat : i < m => i < u
      BY <3>2, <3>4
    <3>7. t \in Rendered[0 + m] <=> Up(t, m) \in Rendered[0]
      BY <3>5, <3>6, LevelsFollowTheChain
    <3>8. Up(t, m) \in DOMAIN tasks
      BY <3>4, <3>5
    <3>9. tasks[Up(t, m)].val.parent_id \notin DOMAIN tasks
      BY <3>1, <3>4, <3>8, ChainOfParents
    <3> QED
      BY <3>4, <3>7, <3>8, <3>9, LevelsGoUp
  <2>6. t \in Shown <=> \E d \in Depths : t \in Rendered[d]
    BY DEF Shown
  <2> QED
    BY <2>4, <2>5, <2>6
<1> QED
  BY <1>1, StoreBaseHolds, PTL
===============================================================================
