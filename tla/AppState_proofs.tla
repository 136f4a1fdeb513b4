--------------------------- MODULE AppState_proofs ---------------------------
(***************************************************************************)
(* Theorems about the write path, for any number of handlers, any payloads *)
(* and any configuration of the store.                                     *)
(***************************************************************************)
EXTENDS AppState, Storage_proofs

\* What Append does to a sequence: the elements stay and one is added behind them.
LEMMA AppendKeeps ==
  ASSUME NEW S, NEW q \in Seq(S), NEW x \in S
  PROVE  /\ Len(q) \in Nat /\ DOMAIN q = 1 .. Len(q)
         /\ Len(Append(q, x)) = Len(q) + 1
         /\ DOMAIN Append(q, x) = 1 .. Len(q) + 1
         /\ Append(q, x)[Len(q) + 1] = x
         /\ \A i \in DOMAIN q : Append(q, x)[i] = q[i] /\ i \in DOMAIN Append(q, x)
OBVIOUS

\* How far a worker is in its request, as its next step depends on it: at an
\* event it has not stored, or at one it has just stored.
WorkIsInProgress ==
  \A w \in Workers :
    /\ pc[w] \in {"clock", "lock"} => Len(done[w]) < Len(request[w])
    /\ pc[w] = "publish" => Len(done[w]) \in 1 .. Len(request[w])
    /\ pc[w] = "idle" => done[w] = << >>

WorkInv == AppTypeOK /\ seq \in 0 .. MaxSeq /\ WorkIsInProgress

\* A worker that is at an event is at one of the clients' events.
LEMMA CurrentIsAnInput ==
  ASSUME AppTypeOK, NEW w \in Workers, Len(done[w]) < Len(request[w])
  PROVE  Current(w) \in Inputs
PROOF
<1>1. request[w] \in Seq(Inputs) /\ done[w] \in Seq(StoredEvent)
  BY DEF AppTypeOK
<1> QED
  BY <1>1 DEF Current

\* The arguments a worker passes to the store are those the store expects, and
\* what it gets back is a stored event.
LEMMA CommitIsAnIngest ==
  ASSUME StorageAssumption, AppStateAssumption, WorkInv,
         NEW w \in Workers, Commit(w)
  PROVE  /\ TransportOf[w] \in Via /\ Current(w) \in Inputs /\ now[w] \in Times
         /\ Ingest(TransportOf[w], Current(w), now[w])
         /\ seq < MaxSeq /\ seq' = seq + 1
         /\ Stored(TransportOf[w], Current(w), now[w]) \in StoredEvent
         /\ Stored(TransportOf[w], Current(w), now[w]).event = Current(w)
         /\ Stored(TransportOf[w], Current(w), now[w]).seq = seq'
PROOF
<1>1. pc[w] = "lock" /\ Ingest(TransportOf[w], Current(w), now[w])
  BY DEF Commit
<1>2. TransportOf[w] \in Via /\ now[w] \in Times
  BY DEF AppStateAssumption, WorkInv, AppTypeOK
<1>3. Current(w) \in Inputs
  BY <1>1, CurrentIsAnInput DEF WorkInv, WorkIsInProgress
<1>4. seq < MaxSeq /\ seq' = Stored(TransportOf[w], Current(w), now[w]).seq
  BY <1>1 DEF Ingest
<1>5. seq \in 0 .. MaxSeq
  BY DEF WorkInv
<1> QED
  BY <1>1, <1>2, <1>3, <1>4, <1>5, StoredIsTyped, ZenonT(30)

\* The steps that leave the store alone.
LEMMA StepsKeepWorkInv ==
  ASSUME StorageAssumption, AppStateAssumption, WorkInv, [AppNext]_vars
  PROVE  WorkInv'
PROOF
<1>0. MaxClock \in Nat /\ MaxRequests \in Nat /\ MaxBatch \in Nat
  BY DEF AppStateAssumption
<1>1. ASSUME NEW w \in Workers, NEW p \in Payloads, IngestJson(w, p)
      PROVE  WorkInv'
  <2>1. (IF p = Malformed THEN << >> ELSE p) \in Seq(Inputs)
    BY DEF AppStateAssumption
  <2>2. admitted(p) => p # Malformed /\ Len(p) \in 1 .. MaxBatch
    BY DEF admitted
  <2>3. AppTypeOK'
    <3>1. taken' \in 0 .. MaxRequests
      BY <1>0, <1>1 DEF WorkInv, AppTypeOK, IngestJson
    <3>2. request' \in [Workers -> Seq(Inputs)]
      BY <1>1, <2>1 DEF WorkInv, AppTypeOK, IngestJson
    <3>3. pc' \in [Workers -> {"idle", "clock", "lock", "publish", "answer"}]
      BY <1>1 DEF WorkInv, AppTypeOK, IngestJson
    <3>4. accepted' \in [Workers -> BOOLEAN]
      <4>1. admitted(p) \in BOOLEAN
        BY DEF admitted
      <4> QED
        BY <1>1, <4>1 DEF WorkInv, AppTypeOK, IngestJson
    <3> QED
      BY <1>1, <3>1, <3>2, <3>3, <3>4 DEF WorkInv, AppTypeOK, IngestJson
  <2>4. seq' \in 0 .. MaxSeq
    BY <1>1 DEF WorkInv, IngestJson, storageVars
  <2>5. WorkIsInProgress'
    <3> SUFFICES ASSUME NEW v \in Workers
                 PROVE  /\ pc'[v] \in {"clock", "lock"} =>
                             Len(done'[v]) < Len(request'[v])
                        /\ pc'[v] = "publish" =>
                             Len(done'[v]) \in 1 .. Len(request'[v])
                        /\ pc'[v] = "idle" => done'[v] = << >>
      BY DEF WorkIsInProgress
    <3>1. CASE v = w
      BY <1>1, <2>1, <2>2, <3>1, SMTT(30)
         DEF WorkInv, AppTypeOK, WorkIsInProgress, IngestJson, AppStateAssumption
    <3>2. CASE v # w
      BY <1>1, <3>2 DEF WorkInv, AppTypeOK, WorkIsInProgress, IngestJson
    <3> QED
      BY <3>1, <3>2
  <2> QED
    BY <2>3, <2>4, <2>5 DEF WorkInv
<1>2. ASSUME NEW w \in Workers, NEW e \in Inputs, RegisterAgent(w, e)
      PROVE  WorkInv'
  <2>1. <<e>> \in Seq(Inputs) /\ Len(<<e>>) = 1
    OBVIOUS
  <2>2. AppTypeOK'
    <3>1. taken' \in 0 .. MaxRequests
      BY <1>0, <1>2 DEF WorkInv, AppTypeOK, RegisterAgent
    <3>2. request' \in [Workers -> Seq(Inputs)]
      BY <1>2, <2>1 DEF WorkInv, AppTypeOK, RegisterAgent
    <3>3. /\ pc' \in [Workers -> {"idle", "clock", "lock", "publish", "answer"}]
          /\ accepted' \in [Workers -> BOOLEAN]
      BY <1>2 DEF WorkInv, AppTypeOK, RegisterAgent
    <3> QED
      BY <1>2, <3>1, <3>2, <3>3 DEF WorkInv, AppTypeOK, RegisterAgent
  <2>3. WorkIsInProgress'
    BY <1>2, <2>1 DEF WorkInv, AppTypeOK, WorkIsInProgress, RegisterAgent
  <2> QED
    BY <1>2, <2>2, <2>3 DEF WorkInv, RegisterAgent, storageVars
<1>3. ASSUME NEW w \in Workers, ReadClock(w)
      PROVE  WorkInv'
  BY <1>3 DEF WorkInv, AppTypeOK, WorkIsInProgress, ReadClock, storageVars
<1>4. ASSUME NEW w \in Workers, Commit(w)
      PROVE  WorkInv'
  <2> DEFINE s == Stored(TransportOf[w], Current(w), now[w])
  <2>1. s \in StoredEvent /\ seq' = seq + 1 /\ seq < MaxSeq
    BY <1>4, CommitIsAnIngest
  <2>2. pc[w] = "lock" /\ pc' = [pc EXCEPT ![w] = "publish"]
        /\ done' = [done EXCEPT ![w] = Append(done[w], s)]
        /\ UNCHANGED <<clock, taken, request, now, accepted, feed>>
    BY <1>4 DEF Commit
  <2> HIDE DEF s
  <2>3. done[w] \in Seq(StoredEvent)
    BY DEF WorkInv, AppTypeOK
  <2>4. Append(done[w], s) \in Seq(StoredEvent)
        /\ Len(Append(done[w], s)) = Len(done[w]) + 1
    BY <2>1, <2>3
  <2>5. AppTypeOK'
    <3>1. done' \in [Workers -> Seq(StoredEvent)]
      BY <2>2, <2>4 DEF WorkInv, AppTypeOK
    <3>2. pc' \in [Workers -> {"idle", "clock", "lock", "publish", "answer"}]
      BY <2>2 DEF WorkInv, AppTypeOK
    <3> QED
      BY <2>2, <3>1, <3>2 DEF WorkInv, AppTypeOK
  <2>6. WorkIsInProgress'
    BY <2>2, <2>3, <2>4, SMTT(30) DEF WorkInv, AppTypeOK, WorkIsInProgress
  <2> QED
    BY <2>1, <2>5, <2>6 DEF WorkInv, StorageAssumption
<1>5. ASSUME NEW w \in Workers, Publish(w)
      PROVE  WorkInv'
  <2>1. done[w][Len(done[w])] \in StoredEvent
    <3>1. done[w] \in Seq(StoredEvent) /\ request[w] \in Seq(Inputs)
      BY DEF WorkInv, AppTypeOK
    <3>2. Len(done[w]) \in 1 .. Len(request[w])
      BY <1>5 DEF WorkInv, WorkIsInProgress, Publish, PublishAs
    <3> QED
      BY <3>1, <3>2
  <2>2. Append(feed, done[w][Len(done[w])]) \in Seq(StoredEvent)
    BY <2>1 DEF WorkInv, AppTypeOK
  <2>3. AppTypeOK'
    <3>1. pc' \in [Workers -> {"idle", "clock", "lock", "publish", "answer"}]
      BY <1>5 DEF WorkInv, AppTypeOK, Publish, PublishAs
    <3> QED
      BY <1>5, <2>2, <3>1 DEF WorkInv, AppTypeOK, Publish, PublishAs
  <2>4. WorkIsInProgress'
    BY <1>5, SMTT(30) DEF WorkInv, AppTypeOK, WorkIsInProgress, Publish, PublishAs
  <2> QED
    BY <1>5, <2>3, <2>4 DEF WorkInv, Publish, PublishAs, storageVars
<1>6. ASSUME NEW w \in Workers, Answer(w)
      PROVE  WorkInv'
  <2>1. << >> \in Seq(Inputs) /\ << >> \in Seq(StoredEvent) /\ 0 \in 0 .. MaxClock
    BY DEF AppStateAssumption
  <2>2. AppTypeOK'
    BY <1>6, <2>1 DEF WorkInv, AppTypeOK, Answer
  <2>3. WorkIsInProgress'
    BY <1>6 DEF WorkInv, AppTypeOK, WorkIsInProgress, Answer
  <2> QED
    BY <1>6, <2>2, <2>3 DEF WorkInv, Answer, storageVars
<1>7. CASE Tick
  <2>1. clock' \in 0 .. MaxClock
    BY <1>0, <1>7 DEF WorkInv, AppTypeOK, Tick
  <2>2. UNCHANGED <<seq, taken, pc, request, now, done, accepted, feed>>
    BY <1>7 DEF Tick, storageVars, workVars
  <2> QED
    BY <2>1, <2>2 DEF WorkInv, AppTypeOK, WorkIsInProgress
<1>8. CASE UNCHANGED vars
  BY <1>8 DEF WorkInv, AppTypeOK, WorkIsInProgress, vars, workVars, storageVars
<1> QED
  BY <1>1, <1>2, <1>3, <1>4, <1>5, <1>6, <1>7, <1>8 DEF AppNext, Work

LEMMA WorkInvHolds == AppSpec => []WorkInv
PROOF
<1>1. AppInit => WorkInv
  BY StorageAssumption, AppStateAssumption
     DEF AppInit, Init, WorkInv, AppTypeOK, WorkIsInProgress, StorageAssumption,
         AppStateAssumption
<1>2. WorkInv /\ [AppNext]_vars => WorkInv'
  BY StorageAssumption, AppStateAssumption, StepsKeepWorkInv
<1> QED
  BY <1>1, <1>2, PTL DEF AppSpec

\* The variables of the handlers hold what they should, whoever interleaves with
\* whom (state.rs:34-94).
THEOREM AppTypeCorrect == AppSpec => []AppTypeOK
PROOF
<1>1. WorkInv => AppTypeOK
  BY DEF WorkInv
<1> QED
  BY <1>1, WorkInvHolds, PTL

-----------------------------------------------------------------------------
\* What the handlers do to the store is what Storage says may be done to it
\* (state.rs:34-43): each step of theirs is one of its steps or leaves it alone.
\* Hence every theorem about Storage is one about the running server.
THEOREM AppImplementsStorage == AppSpec => Spec
PROOF
<1>1. AppInit => Init
  BY DEF AppInit
<1>2. WorkInv /\ [AppNext]_vars => [Next]_storageVars
  <2> SUFFICES ASSUME WorkInv, [AppNext]_vars
               PROVE  [Next]_storageVars
    OBVIOUS
  <2>1. ASSUME NEW w \in Workers, Commit(w)
        PROVE  Next
    BY <2>1, CommitIsAnIngest, StorageAssumption, AppStateAssumption DEF Next
  <2>2. ASSUME NEW w \in Workers, NEW p \in Payloads, IngestJson(w, p)
        PROVE  UNCHANGED storageVars
    BY <2>2 DEF IngestJson
  <2>3. ASSUME NEW w \in Workers, NEW e \in Inputs, RegisterAgent(w, e)
        PROVE  UNCHANGED storageVars
    BY <2>3 DEF RegisterAgent
  <2>4. ASSUME NEW w \in Workers, ReadClock(w) \/ Publish(w) \/ Answer(w)
        PROVE  UNCHANGED storageVars
    BY <2>4 DEF ReadClock, Publish, PublishAs, Answer
  <2>5. Tick \/ UNCHANGED vars => UNCHANGED storageVars
    BY DEF Tick, vars
  <2> QED
    BY <2>1, <2>2, <2>3, <2>4, <2>5 DEF AppNext, Work
<1> QED
  BY <1>1, <1>2, WorkInvHolds, PTL DEF AppSpec, Spec

\* The memory bound of the store holds for the running server.
THEOREM ServerMemoryIsBounded == AppSpec => []CachesStayBounded
BY AppImplementsStorage, BoundedForEver, PTL

\* So does all else that is proved of the store: however handlers interleave, what
\* the caches forget is forgotten for others, the two rings and the summary tell
\* one story, and no lesson or session is lost out of turn (storage.rs:187-291).
THEOREM ServerKeepsTheStoresPromises ==
  AppSpec => [](/\ AgentsForgottenOnlyForOthers
                /\ TasksForgottenOnlyForOthers
                /\ SessionsForgottenOnlyForOthers
                /\ LessonsAreTheLatest
                /\ RecentIsLatestWindow
                /\ RingsHaveNoGaps
                /\ SnapshotReplaysRing)
BY AppImplementsStorage, AgentsAlwaysForgottenForOthers, TasksAlwaysForgottenForOthers,
   SessionsAlwaysForgottenForOthers, LessonsAreAlwaysTheLatest, RecentIsAlwaysTheWindow,
   RingsNeverHaveGaps, SnapshotsAlwaysReplay, PTL

-----------------------------------------------------------------------------
(***************************************************************************)
(* All or nothing.  AnswersAreTrue speaks of workers that are about to     *)
(* answer; the invariant behind it follows a request from the start.       *)
(***************************************************************************)

InFeed(s) == \E j \in DOMAIN feed : feed[j] = s

\* Every event of a batch under way is valid; only a request of one event can
\* still be refused, and then nothing of it is stored.
Sound(w) ==
  pc[w] \in {"clock", "lock", "publish"} =>
    accepted[w] /\ (Len(request[w]) = 1 \/ dry_run(request[w]))

\* What is done so far is a part of the payload, in order.
InOrder(w) ==
  \A i \in DOMAIN done[w] :
    /\ done[w][i].event = request[w][i]
    /\ done[w][i].seq <= seq
    /\ \A j \in 1 .. i - 1 : done[w][j].seq < done[w][i].seq

\* It is on the feed, the event just stored excepted.
OnFeed(w) ==
  \A i \in DOMAIN done[w] :
    (pc[w] = "publish" /\ i = Len(done[w])) \/ InFeed(done[w][i])

\* The end of the request.
Settled(w) ==
  pc[w] = "answer" =>
    IF accepted[w] THEN Len(done[w]) = Len(request[w]) ELSE done[w] = << >>

RequestInv ==
  \A w \in Workers : Sound(w) /\ InOrder(w) /\ OnFeed(w) /\ Settled(w)

LEMMA NumbersAreNat ==
  ASSUME NEW q \in Seq(StoredEvent)
  PROVE  \A i \in DOMAIN q : q[i].seq \in Nat
PROOF
<1>1. \A s \in StoredEvent : s.seq \in Nat
  BY DEF StoredEvent
<1> QED
  BY <1>1

\* A sequence of growing numbers up to n still is one with the number n + 1 behind.
LEMMA AppendInOrder ==
  ASSUME NEW q \in Seq(StoredEvent), NEW x \in StoredEvent, NEW n \in Nat,
         x.seq = n + 1,
         \A i \in DOMAIN q :
           q[i].seq <= n /\ \A j \in 1 .. i - 1 : q[j].seq < q[i].seq
  PROVE  \A i \in DOMAIN Append(q, x) :
           /\ Append(q, x)[i].seq <= n + 1
           /\ \A j \in 1 .. i - 1 : Append(q, x)[j].seq < Append(q, x)[i].seq
PROOF
<1> DEFINE r == Append(q, x)
<1>1. /\ Len(q) \in Nat /\ DOMAIN q = 1 .. Len(q) /\ DOMAIN r = 1 .. Len(q) + 1
      /\ r[Len(q) + 1] = x /\ \A i \in 1 .. Len(q) : r[i] = q[i]
  BY AppendKeeps
<1>2. \A i \in DOMAIN q : q[i].seq \in Nat
  BY NumbersAreNat
<1> HIDE DEF r
<1>3. ASSUME NEW i \in 1 .. Len(q) + 1
      PROVE  r[i].seq <= n + 1 /\ \A j \in 1 .. i - 1 : r[j].seq < r[i].seq
  <2>1. CASE i \in 1 .. Len(q)
    <3>1. r[i] = q[i] /\ \A j \in 1 .. i - 1 : r[j] = q[j]
      BY <1>1, <2>1
    <3>2. q[i].seq \in Nat /\ q[i].seq <= n /\ \A j \in 1 .. i - 1 : q[j].seq < q[i].seq
      BY <1>1, <1>2, <2>1
    <3> QED
      BY <3>1, <3>2, SMTT(30)
  <2>2. CASE i = Len(q) + 1
    <3>1. r[i] = x
      BY <1>1, <2>2
    <3>2. \A j \in 1 .. i - 1 : r[j] = q[j] /\ q[j].seq <= n /\ q[j].seq \in Nat
      BY <1>1, <1>2, <2>2
    <3> QED
      BY <3>1, <3>2
  <2> QED
    BY <1>1, <2>1, <2>2
<1> QED
  BY <1>1, <1>3 DEF r

LEMMA StepsKeepRequestInv ==
  ASSUME StorageAssumption, AppStateAssumption, WorkInv, RequestInv,
         [AppNext]_vars
  PROVE  RequestInv'
PROOF
<1> SUFFICES ASSUME NEW v \in Workers
             PROVE  (Sound(v) /\ InOrder(v) /\ OnFeed(v) /\ Settled(v))'
  BY DEF RequestInv
<1>0. /\ Sound(v) /\ InOrder(v) /\ OnFeed(v) /\ Settled(v)
      /\ request[v] \in Seq(Inputs) /\ done[v] \in Seq(StoredEvent)
      /\ feed \in Seq(StoredEvent) /\ seq \in Nat
      /\ pc \in [Workers -> {"idle", "clock", "lock", "publish", "answer"}]
      /\ accepted \in [Workers -> BOOLEAN]
      /\ DOMAIN request = Workers /\ DOMAIN done = Workers
  BY SMTT(30) DEF RequestInv, WorkInv, AppTypeOK
\* A step that changes neither the store nor the feed nor worker v.
<1>1. ASSUME UNCHANGED <<pc[v], request[v], done[v], accepted[v]>>,
             seq' \in Nat, seq <= seq', \A s : InFeed(s) => InFeed(s)'
      PROVE  (Sound(v) /\ InOrder(v) /\ OnFeed(v) /\ Settled(v))'
  <2>1. Sound(v)' /\ Settled(v)'
    BY <1>0, <1>1 DEF Sound, Settled, dry_run
  <2>2. InOrder(v)'
    <3>1. \A i \in DOMAIN done[v] : done[v][i].seq \in Nat
      BY <1>0, NumbersAreNat
    <3>2. \A i \in DOMAIN done[v] : done[v][i].seq <= seq'
      BY <1>0, <1>1, <3>1, SMTT(30) DEF InOrder
    <3>3. done'[v] = done[v] /\ request'[v] = request[v]
      BY <1>1
    <3> QED
      BY <1>0, <3>2, <3>3 DEF InOrder
  <2>3. OnFeed(v)'
    BY <1>0, <1>1 DEF OnFeed
  <2> QED
    BY <2>1, <2>2, <2>3
<1>2. ASSUME UNCHANGED feed, NEW s
      PROVE  InFeed(s) => InFeed(s)'
  BY <1>2 DEF InFeed
<1>3. ASSUME NEW w \in Workers, NEW p \in Payloads, IngestJson(w, p)
      PROVE  (Sound(v) /\ InOrder(v) /\ OnFeed(v) /\ Settled(v))'
  <2>1. CASE v = w
    <3>1. done'[v] = << >> /\ pc'[v] = (IF admitted(p) THEN "clock" ELSE "answer")
          /\ accepted'[v] = admitted(p)
          /\ request'[v] = (IF p = Malformed THEN << >> ELSE p)
      BY <1>0, <1>3, <2>1 DEF IngestJson, WorkInv, WorkIsInProgress
    <3>2. Sound(v)'
      BY <3>1 DEF Sound, admitted, dry_run
    <3>3. InOrder(v)' /\ OnFeed(v)' /\ Settled(v)'
      BY <3>1 DEF InOrder, OnFeed, Settled
    <3> QED
      BY <3>2, <3>3
  <2>2. CASE v # w
    BY <1>0, <1>1, <1>2, <1>3, <2>2 DEF IngestJson, storageVars
  <2> QED
    BY <2>1, <2>2
<1>4. ASSUME NEW w \in Workers, NEW e \in Inputs, RegisterAgent(w, e)
      PROVE  (Sound(v) /\ InOrder(v) /\ OnFeed(v) /\ Settled(v))'
  <2>1. CASE v = w
    <3>1. done'[v] = << >> /\ pc'[v] = "clock" /\ accepted'[v] = TRUE
          /\ request'[v] = <<e>>
      BY <1>0, <1>4, <2>1 DEF RegisterAgent, WorkInv, WorkIsInProgress
    <3> QED
      BY <3>1 DEF Sound, InOrder, OnFeed, Settled
  <2>2. CASE v # w
    BY <1>0, <1>1, <1>2, <1>4, <2>2 DEF RegisterAgent, storageVars
  <2> QED
    BY <2>1, <2>2
<1>5. ASSUME NEW w \in Workers, ReadClock(w)
      PROVE  (Sound(v) /\ InOrder(v) /\ OnFeed(v) /\ Settled(v))'
  <2>0. UNCHANGED <<seq, request, done, feed>>
    BY <1>5 DEF ReadClock, storageVars
  <2>1. CASE v = w /\ validated(Current(w))
    <3>1. pc[v] = "clock" /\ pc'[v] = "lock" /\ UNCHANGED accepted[v]
      BY <1>0, <1>5, <2>1 DEF ReadClock
    <3> QED
      BY <1>0, <2>0, <3>1
         DEF Sound, InOrder, OnFeed, Settled, InFeed, dry_run
  <2>2. CASE v = w /\ ~validated(Current(w))
    <3>1. pc[v] = "clock" /\ pc'[v] = "answer" /\ accepted'[v] = FALSE
      BY <1>0, <1>5, <2>2 DEF ReadClock
    <3>2. Len(done[v]) < Len(request[v])
      BY <3>1 DEF WorkInv, WorkIsInProgress
    <3>3. ~dry_run(request[v])
      BY <1>0, <2>2, <3>2, SMTT(30) DEF dry_run, Current
    <3>4. Len(request[v]) = 1
      BY <1>0, <3>1, <3>3 DEF Sound
    <3>5. done[v] = << >>
      BY <1>0, <3>2, <3>4
    <3> QED
      BY <2>0, <3>1, <3>5 DEF Sound, InOrder, OnFeed, Settled
  <2>3. CASE v # w
    BY <1>0, <1>1, <1>2, <1>5, <2>0, <2>3 DEF ReadClock
  <2> QED
    BY <2>1, <2>2, <2>3
<1>6. ASSUME NEW w \in Workers, Commit(w)
      PROVE  (Sound(v) /\ InOrder(v) /\ OnFeed(v) /\ Settled(v))'
  <2> DEFINE s == Stored(TransportOf[w], Current(w), now[w])
  <2>1. /\ s \in StoredEvent /\ s.event = Current(w) /\ s.seq = seq'
        /\ seq' = seq + 1
    BY <1>6, CommitIsAnIngest
  <2>2. /\ pc[w] = "lock" /\ pc' = [pc EXCEPT ![w] = "publish"]
        /\ done' = [done EXCEPT ![w] = Append(done[w], s)]
        /\ UNCHANGED <<request, accepted, feed>>
    BY <1>6 DEF Commit
  <2> HIDE DEF s
  <2>3. CASE v = w
    <3>1. /\ pc[v] = "lock" /\ pc'[v] = "publish" /\ done'[v] = Append(done[v], s)
          /\ request'[v] = request[v] /\ accepted'[v] = accepted[v]
      BY <1>0, <2>2, <2>3
    <3>2. Sound(v)' /\ Settled(v)'
      BY <1>0, <3>1 DEF Sound, Settled, dry_run
    <3>3. /\ Len(done'[v]) = Len(done[v]) + 1 /\ done'[v][Len(done[v]) + 1] = s
          /\ \A i \in DOMAIN done[v] : done'[v][i] = done[v][i]
          /\ DOMAIN done'[v] = 1 .. Len(done[v]) + 1
          /\ DOMAIN done[v] = 1 .. Len(done[v]) /\ Len(done[v]) \in Nat
      BY <1>0, <2>1, <3>1, AppendKeeps, SMTT(30)
    <3>4. \A i \in DOMAIN done'[v] :
            /\ done'[v][i].seq <= seq'
            /\ \A j \in 1 .. i - 1 : done'[v][j].seq < done'[v][i].seq
      BY <1>0, <2>1, <3>1, AppendInOrder, ZenonT(30) DEF InOrder
    <3>5. InOrder(v)'
      <4> SUFFICES ASSUME NEW i \in DOMAIN done'[v]
                   PROVE  done'[v][i].event = request[v][i]
        BY <3>1, <3>4 DEF InOrder
      <4>1. CASE i \in DOMAIN done[v]
        BY <1>0, <3>3, <4>1 DEF InOrder
      <4>2. CASE i = Len(done[v]) + 1
        BY <2>1, <2>3, <3>3, <4>2 DEF Current
      <4> QED
        BY <3>3, <4>1, <4>2, SMTT(30)
    <3>6. OnFeed(v)'
      BY <1>0, <1>2, <2>2, <3>1, <3>3, SMTT(30) DEF OnFeed
    <3> QED
      BY <3>2, <3>5, <3>6
  <2>4. CASE v # w
    BY <1>0, <1>1, <1>2, <2>1, <2>2, <2>4
  <2> QED
    BY <2>3, <2>4
<1>7. ASSUME NEW w \in Workers, Publish(w)
      PROVE  (Sound(v) /\ InOrder(v) /\ OnFeed(v) /\ Settled(v))'
  <2> DEFINE s == done[w][Len(done[w])]
  <2>1. /\ pc[w] = "publish" /\ feed' = Append(feed, s)
        /\ pc' = [pc EXCEPT ![w] =
             IF Len(done[w]) = Len(request[w]) THEN "answer" ELSE "clock"]
        /\ UNCHANGED <<seq, request, done, accepted>>
    BY <1>7 DEF Publish, PublishAs, storageVars
  <2>2. s \in StoredEvent
    <3>1. done[w] \in Seq(StoredEvent) /\ Len(done[w]) \in 1 .. Len(request[w])
      BY <2>1 DEF WorkInv, AppTypeOK, WorkIsInProgress
    <3> QED
      BY <3>1
  <2>3. InFeed(s)' /\ \A x : InFeed(x) => InFeed(x)'
    <3>0. s' = s
      BY <2>1
    <3> HIDE DEF s
    <3>1. /\ Len(feed') = Len(feed) + 1 /\ feed'[Len(feed) + 1] = s
          /\ \A j \in DOMAIN feed : feed'[j] = feed[j] /\ j \in DOMAIN feed'
          /\ Len(feed) + 1 \in DOMAIN feed'
      <4>1. feed \in Seq(StoredEvent)
        BY <1>0
      <4>2. feed' = Append(feed, s)
        BY <2>1
      <4> QED
        BY <2>2, <4>1, <4>2, AppendKeeps
    <3> QED
      BY <3>0, <3>1 DEF InFeed
  <2>4. CASE v = w
    <3>1. OnFeed(v)'
      BY <1>0, <2>1, <2>3, <2>4 DEF OnFeed
    <3>2. InOrder(v)'
      BY <1>0, <2>1 DEF InOrder
    <3>3. Sound(v)' /\ Settled(v)'
      BY <1>0, <2>1, <2>4 DEF Sound, Settled, dry_run
    <3> QED
      BY <3>1, <3>2, <3>3
  <2>5. CASE v # w
    BY <1>0, <1>1, <2>1, <2>3, <2>5
  <2> QED
    BY <2>4, <2>5
<1>8. ASSUME NEW w \in Workers, Answer(w)
      PROVE  (Sound(v) /\ InOrder(v) /\ OnFeed(v) /\ Settled(v))'
  <2>1. CASE v = w
    <3>1. done'[v] = << >> /\ pc'[v] = "idle"
      BY <1>0, <1>8, <2>1 DEF Answer
    <3> QED
      BY <3>1 DEF Sound, InOrder, OnFeed, Settled
  <2>2. CASE v # w
    BY <1>0, <1>1, <1>2, <1>8, <2>2 DEF Answer, storageVars
  <2> QED
    BY <2>1, <2>2
<1>9. CASE Tick \/ UNCHANGED vars
  BY <1>0, <1>1, <1>2, <1>9 DEF Tick, vars, workVars, storageVars
<1> QED
  BY <1>3, <1>4, <1>5, <1>6, <1>7, <1>8, <1>9 DEF AppNext, Work

LEMMA RequestInvHolds == AppSpec => []RequestInv
PROOF
<1>1. AppInit => RequestInv
  BY DEF AppInit, RequestInv, Sound, InOrder, OnFeed, Settled
<1>2. WorkInv /\ RequestInv /\ [AppNext]_vars => RequestInv'
  BY StorageAssumption, AppStateAssumption, StepsKeepRequestInv
<1> QED
  BY <1>1, <1>2, WorkInvHolds, PTL DEF AppSpec

\* All or nothing, for any number of concurrent handlers and any batches: an Ok
\* answer means the whole payload is stored in its order and on the feed, an
\* error means that nothing of it is (state.rs:47-93).
THEOREM AnswersAreAlwaysTrue == AppSpec => []AnswersAreTrue
PROOF
<1>1. RequestInv => AnswersAreTrue
  BY DEF RequestInv, InOrder, OnFeed, Settled, InFeed, AnswersAreTrue
<1> QED
  BY <1>1, RequestInvHolds, PTL

-----------------------------------------------------------------------------
(***************************************************************************)
(* One number, one event.                                                  *)
(***************************************************************************)

AccountInv == IsFiniteSet(Unpublished) /\ EveryNumberIsOneEvent

LEMMA StepsKeepAccountInv ==
  ASSUME StorageAssumption, AppStateAssumption, WorkInv, AccountInv,
         [AppNext]_vars
  PROVE  AccountInv'
PROOF
<1>0. /\ pc \in [Workers -> {"idle", "clock", "lock", "publish", "answer"}]
      /\ feed \in Seq(StoredEvent) /\ seq \in Nat
      /\ DOMAIN done = Workers
  BY DEF WorkInv, AppTypeOK
<1> USE DEF Unpublished
\* A step of worker w that neither stores nor publishes, begins nor ends there.
<1>1. ASSUME NEW w \in Workers, pc[w] # "publish", NEW step, step # "publish",
             pc' = [pc EXCEPT ![w] = step],
             \A v \in Workers : v # w => done'[v] = done[v],
             UNCHANGED <<seq, feed>>
      PROVE  AccountInv'
  <2>1. Unpublished' = Unpublished
    BY <1>0, <1>1
  <2>2. \A v \in Unpublished : LastDone(v)' = LastDone(v)
    BY <1>1 DEF LastDone
  <2>3. Accounted' = Accounted
    BY <1>1, <2>1, <2>2 DEF Accounted
  <2> QED
    BY <1>1, <2>1, <2>3 DEF AccountInv, EveryNumberIsOneEvent
<1>2. ASSUME NEW w \in Workers, NEW p \in Payloads, IngestJson(w, p)
      PROVE  AccountInv'
  BY <1>1, <1>2 DEF IngestJson, storageVars
<1>3. ASSUME NEW w \in Workers, NEW e \in Inputs, RegisterAgent(w, e)
      PROVE  AccountInv'
  BY <1>1, <1>3 DEF RegisterAgent, storageVars
<1>4. ASSUME NEW w \in Workers, ReadClock(w)
      PROVE  AccountInv'
  BY <1>1, <1>4 DEF ReadClock, storageVars
<1>5. ASSUME NEW w \in Workers, Answer(w)
      PROVE  AccountInv'
  BY <1>0, <1>1, <1>5 DEF Answer, storageVars
<1>6. ASSUME NEW w \in Workers, Commit(w)
      PROVE  AccountInv'
  <2> DEFINE s == Stored(TransportOf[w], Current(w), now[w])
  <2>1. s \in StoredEvent /\ s.seq = seq + 1 /\ seq' = seq + 1
    BY <1>6, CommitIsAnIngest
  <2>2. /\ pc[w] = "lock" /\ pc' = [pc EXCEPT ![w] = "publish"]
        /\ done' = [done EXCEPT ![w] = Append(done[w], s)]
        /\ UNCHANGED feed
    BY <1>6 DEF Commit
  <2> HIDE DEF s
  <2>3. Unpublished' = Unpublished \cup {w} /\ w \notin Unpublished
    BY <1>0, <2>2
  <2>4. LastDone(w)' = s
    <3>1. done[w] \in Seq(StoredEvent)
      BY DEF WorkInv, AppTypeOK
    <3>2. done'[w] = Append(done[w], s)
      BY <1>0, <2>2
    <3> QED
      BY <2>1, <3>1, <3>2, AppendKeeps DEF LastDone
  <2>5. \A v \in Unpublished : LastDone(v)' = LastDone(v)
    BY <1>0, <2>2, <2>3 DEF LastDone
  <2>6. Accounted' = Accounted \cup {s}
    BY <2>2, <2>3, <2>4, <2>5 DEF Accounted
  <2>7. {x.seq : x \in Accounted'} = 1 .. seq'
    <3>1. {x.seq : x \in Accounted'} = {x.seq : x \in Accounted} \cup {s.seq}
      BY <2>6
    <3>2. {x.seq : x \in Accounted} = 1 .. seq
      BY DEF AccountInv, EveryNumberIsOneEvent
    <3>3. seq \in Nat
      BY <1>0
    <3>4. (1 .. seq) \cup {seq + 1} = 1 .. seq + 1
      BY <3>3, SMTT(30)
    <3> QED
      BY <2>1, <3>1, <3>2, <3>4
  <2> HIDE DEF Unpublished
  <2>8. /\ IsFiniteSet(Unpublished')
        /\ Cardinality(Unpublished') = Cardinality(Unpublished) + 1
    BY <2>3, FS_AddElement DEF AccountInv
  <2>9. Len(feed') + Cardinality(Unpublished') = seq'
    <3>1. Cardinality(Unpublished) \in Nat
      BY FS_CardinalityType DEF AccountInv
    <3>2. Len(feed) + Cardinality(Unpublished) = seq /\ Len(feed) \in Nat
      BY <1>0 DEF AccountInv, EveryNumberIsOneEvent
    <3>3. Len(feed') = Len(feed)
      BY <2>2
    <3>4. seq' = seq + 1
      BY <2>1
    <3> QED
      BY <2>8, <3>1, <3>2, <3>3, <3>4
  <2> QED
    BY <2>7, <2>8, <2>9 DEF AccountInv, EveryNumberIsOneEvent
<1>7. ASSUME NEW w \in Workers, Publish(w)
      PROVE  AccountInv'
  <2> DEFINE s == LastDone(w)
  <2>1. /\ pc[w] = "publish" /\ feed' = Append(feed, s)
        /\ pc' = [pc EXCEPT ![w] =
             IF Len(done[w]) = Len(request[w]) THEN "answer" ELSE "clock"]
        /\ UNCHANGED <<seq, done>>
    BY <1>7 DEF Publish, PublishAs, storageVars, LastDone
  <2>2. s \in StoredEvent
    <3>1. done[w] \in Seq(StoredEvent) /\ Len(done[w]) \in 1 .. Len(request[w])
      BY <2>1 DEF WorkInv, AppTypeOK, WorkIsInProgress
    <3> QED
      BY <3>1 DEF LastDone
  <2>3. \A v \in Workers : LastDone(v)' = LastDone(v)
    BY <2>1 DEF LastDone
  <2>4. w \in Unpublished /\ Unpublished' = Unpublished \ {w}
    BY <1>0, <2>1
  <2> HIDE DEF s
  <2>5. {feed'[i] : i \in DOMAIN feed'} = {feed[i] : i \in DOMAIN feed} \cup {s}
    BY <1>0, <2>1, <2>2, AppendKeeps, SMTT(30)
  <2>6. Accounted' = Accounted
    <3>1. {LastDone(v)' : v \in Unpublished'} = {LastDone(v) : v \in Unpublished \ {w}}
      BY <2>3, <2>4
    <3>2. {LastDone(v) : v \in Unpublished} =
            {LastDone(v) : v \in Unpublished \ {w}} \cup {s}
      BY <2>4 DEF s
    <3> QED
      BY <2>5, <3>1, <3>2 DEF Accounted
  <2>7. /\ IsFiniteSet(Unpublished')
        /\ Cardinality(Unpublished') = Cardinality(Unpublished) - 1
    <3> HIDE DEF Unpublished
    <3> QED
      BY <2>4, FS_RemoveElement DEF AccountInv
  <2>8. Len(feed') = Len(feed) + 1
    BY <1>0, <2>1, <2>2, AppendKeeps
  <2> HIDE DEF Unpublished
  <2>9. Cardinality(Unpublished) \in Nat
    BY FS_CardinalityType DEF AccountInv
  <2>10. Len(feed') + Cardinality(Unpublished') = seq'
    BY <1>0, <2>1, <2>7, <2>8, <2>9 DEF AccountInv, EveryNumberIsOneEvent
  <2> QED
    BY <2>1, <2>6, <2>7, <2>10 DEF AccountInv, EveryNumberIsOneEvent
<1>8. CASE Tick \/ UNCHANGED vars
  <2>1. UNCHANGED <<seq, pc, done, feed>>
    BY <1>8 DEF Tick, vars, workVars, storageVars
  <2> QED
    BY <2>1 DEF AccountInv, EveryNumberIsOneEvent, Accounted, LastDone
<1> QED
  BY <1>2, <1>3, <1>4, <1>5, <1>6, <1>7, <1>8 DEF AppNext, Work

LEMMA AccountInvHolds == AppSpec => []AccountInv
PROOF
<1>1. AppInit => AccountInv
  <2> SUFFICES ASSUME AppInit
               PROVE  AccountInv
    OBVIOUS
  <2>1. Unpublished = {} /\ seq = 0 /\ feed = << >>
    BY DEF AppInit, Init, Unpublished
  <2>2. Accounted = {}
    BY <2>1 DEF Accounted
  <2> QED
    BY <2>1, <2>2, FS_EmptySet DEF AccountInv, EveryNumberIsOneEvent
<1>2. WorkInv /\ AccountInv /\ [AppNext]_vars => AccountInv'
  BY StorageAssumption, AppStateAssumption, StepsKeepAccountInv
<1> QED
  BY <1>1, <1>2, WorkInvHolds, PTL DEF AppSpec

\* No number is lost or handed out twice between the lock and the feed, however
\* many handlers are between the two (storage.rs:189-190, state.rs:37-42).
THEOREM EveryNumberIsAlwaysOneEvent == AppSpec => []EveryNumberIsOneEvent
PROOF
<1>1. AccountInv => EveryNumberIsOneEvent
  BY DEF AccountInv
<1> QED
  BY <1>1, AccountInvHolds, PTL

-----------------------------------------------------------------------------
\* What has been stored is what the store remembers under the same number.
RememberedInv ==
  \A s \in Accounted : s.seq \in DOMAIN recent => s = recent[s.seq].val

LEMMA StepsKeepRememberedInv ==
  ASSUME StorageAssumption, AppStateAssumption, WorkInv, AccountInv,
         RememberedInv, [AppNext]_vars
  PROVE  RememberedInv'
PROOF
<1>0. /\ pc \in [Workers -> {"idle", "clock", "lock", "publish", "answer"}]
      /\ feed \in Seq(StoredEvent) /\ seq \in Nat
      /\ DOMAIN done = Workers /\ \A w \in Workers : done[w] \in Seq(StoredEvent)
  BY DEF WorkInv, AppTypeOK
\* Only Commit adds to what is accounted for.
<1>1. ASSUME UNCHANGED recent, Accounted' \subseteq Accounted
      PROVE  RememberedInv'
  BY <1>1 DEF RememberedInv
<1>2. ASSUME UNCHANGED feed,
             \A v \in Unpublished' : v \in Unpublished /\ LastDone(v)' = LastDone(v)
      PROVE  Accounted' \subseteq Accounted
  BY <1>2 DEF Accounted
<1>3. ASSUME NEW w \in Workers, NEW p \in Payloads, IngestJson(w, p)
      PROVE  RememberedInv'
  BY <1>0, <1>1, <1>2, <1>3 DEF IngestJson, storageVars, Unpublished, LastDone
<1>4. ASSUME NEW w \in Workers, NEW e \in Inputs, RegisterAgent(w, e)
      PROVE  RememberedInv'
  BY <1>0, <1>1, <1>2, <1>4 DEF RegisterAgent, storageVars, Unpublished, LastDone
<1>5. ASSUME NEW w \in Workers, ReadClock(w)
      PROVE  RememberedInv'
  BY <1>0, <1>1, <1>2, <1>5 DEF ReadClock, storageVars, Unpublished, LastDone
<1>6. ASSUME NEW w \in Workers, Answer(w)
      PROVE  RememberedInv'
  BY <1>0, <1>1, <1>2, <1>6 DEF Answer, storageVars, Unpublished, LastDone
<1>7. ASSUME NEW w \in Workers, Publish(w)
      PROVE  RememberedInv'
  <2>1. /\ pc[w] = "publish" /\ feed' = Append(feed, LastDone(w))
        /\ pc' = [pc EXCEPT ![w] =
             IF Len(done[w]) = Len(request[w]) THEN "answer" ELSE "clock"]
        /\ UNCHANGED <<recent, done>>
    BY <1>7 DEF Publish, PublishAs, storageVars, LastDone
  <2>2. \A v \in Unpublished' : v \in Unpublished /\ LastDone(v)' = LastDone(v)
    BY <1>0, <2>1 DEF Unpublished, LastDone
  <2>3. w \in Unpublished /\ LastDone(w) \in StoredEvent
    <3>1. done[w] \in Seq(StoredEvent) /\ Len(done[w]) \in 1 .. Len(request[w])
      BY <2>1 DEF WorkInv, AppTypeOK, WorkIsInProgress
    <3> QED
      BY <2>1, <3>1 DEF LastDone, Unpublished
  <2>4. {feed'[i] : i \in DOMAIN feed'} =
          {feed[i] : i \in DOMAIN feed} \cup {LastDone(w)}
    BY <1>0, <2>1, <2>3, AppendKeeps, SMTT(30)
  <2>5. Accounted' \subseteq Accounted
    BY <2>2, <2>3, <2>4 DEF Accounted
  <2> QED
    BY <1>1, <2>1, <2>5
<1>8. ASSUME NEW w \in Workers, Commit(w)
      PROVE  RememberedInv'
  <2> DEFINE s == Stored(TransportOf[w], Current(w), now[w])
  <2>1. s \in StoredEvent /\ s.seq = seq + 1
    BY <1>8, CommitIsAnIngest
  <2>2. /\ pc[w] = "lock" /\ pc' = [pc EXCEPT ![w] = "publish"]
        /\ done' = [done EXCEPT ![w] = Append(done[w], s)]
        /\ UNCHANGED feed
    BY <1>8 DEF Commit
  <2>3. recent' = Put(recent, s.seq, s, s.seq, cap(RecentEvents))
    BY <1>8 DEF Commit, Ingest, RecordRecent
  <2> HIDE DEF s
  <2>4. Unpublished' = Unpublished \cup {w}
    BY <1>0, <2>2 DEF Unpublished
  <2>5. LastDone(w)' = s
    <3>1. done'[w] = Append(done[w], s) /\ done[w] \in Seq(StoredEvent)
      BY <1>0, <2>2
    <3> QED
      BY <2>1, <3>1, AppendKeeps DEF LastDone
  <2>6. \A v \in Unpublished : v # w => LastDone(v)' = LastDone(v)
    BY <1>0, <2>2 DEF LastDone, Unpublished
  <2>7. Accounted' \subseteq Accounted \cup {s}
    BY <2>2, <2>4, <2>5, <2>6 DEF Accounted
  <2>8. \A x \in Accounted : x.seq \in 1 .. seq
    BY DEF AccountInv, EveryNumberIsOneEvent
  <2>9. /\ recent'[s.seq].val = s
        /\ \A i \in DOMAIN recent' : i # s.seq =>
              i \in DOMAIN recent /\ recent'[i] = recent[i]
    <3> DEFINE number == s.seq
               size == cap(RecentEvents)
               p == Put(recent, number, s, number, size)
    <3>1. recent' = p
      BY <2>3
    <3> HIDE DEF number, size
    <3>2. /\ p[number] = [val |-> s, used |-> number]
          /\ \A i \in DOMAIN p : i # number => i \in DOMAIN recent /\ p[i] = recent[i]
      BY DEF Put, Kept
    <3> HIDE DEF p
    <3> QED
      BY <3>1, <3>2 DEF number
  <2> SUFFICES ASSUME NEW x \in Accounted', x.seq \in DOMAIN recent'
               PROVE  x = recent'[x.seq].val
    BY DEF RememberedInv
  <2>10. CASE x = s
    BY <2>9, <2>10
  <2>11. CASE x \in Accounted
    <3>1. x.seq # s.seq
      BY <1>0, <2>1, <2>8, <2>11, SMTT(30)
    <3> QED
      BY <2>9, <2>11, <3>1 DEF RememberedInv
  <2> QED
    BY <2>7, <2>10, <2>11
<1>9. CASE Tick \/ UNCHANGED vars
  <2>1. UNCHANGED <<recent, pc, done, feed>>
    BY <1>9 DEF Tick, vars, workVars, storageVars
  <2> QED
    BY <2>1 DEF RememberedInv, Accounted, LastDone, Unpublished
<1> QED
  BY <1>3, <1>4, <1>5, <1>6, <1>7, <1>8, <1>9 DEF AppNext, Work

\* The feed and the query API never tell two stories of one number
\* (state.rs:36-42, storage.rs:287).
THEOREM FeedAlwaysMatchesStore == AppSpec => []FeedMatchesStore
PROOF
<1>1. AppInit => RememberedInv
  <2> SUFFICES ASSUME AppInit
               PROVE  RememberedInv
    OBVIOUS
  <2>1. Unpublished = {} /\ feed = << >>
    BY DEF AppInit, Unpublished
  <2>2. Accounted = {}
    BY <2>1 DEF Accounted
  <2> QED
    BY <2>2 DEF RememberedInv
<1>2. WorkInv /\ AccountInv /\ RememberedInv /\ [AppNext]_vars => RememberedInv'
  BY StorageAssumption, AppStateAssumption, StepsKeepRememberedInv
<1>3. RememberedInv => FeedMatchesStore
  BY DEF RememberedInv, FeedMatchesStore, Accounted
<1> QED
  BY <1>1, <1>2, <1>3, WorkInvHolds, AccountInvHolds, PTL DEF AppSpec

-----------------------------------------------------------------------------
(***************************************************************************)
(* The log behind the write path.  A step of the handlers stores an event, *)
(* publishes one, or does not concern the log.                             *)
(***************************************************************************)

\* Worker w stores s under the next number.
Stores(w, s) ==
  /\ w \in Workers /\ w \notin Unpublished
  /\ s \in StoredEvent /\ s.seq = seq + 1 /\ seq' = seq + 1
  /\ Unpublished' = Unpublished \cup {w}
  /\ done' = [done EXCEPT ![w] = Append(done[w], s)]
  /\ LastDone(w)' = s /\ \A v \in Unpublished : LastDone(v)' = LastDone(v)
  /\ feed' = feed

\* Worker w publishes what it stored last.
Publishes(w) ==
  /\ w \in Unpublished /\ Unpublished' = Unpublished \ {w}
  /\ LastDone(w) \in StoredEvent /\ feed' = Append(feed, LastDone(w))
  /\ UNCHANGED <<seq, done>>

\* Nothing is stored or published; a request may end.
Pauses ==
  /\ Unpublished' = Unpublished
  /\ \A v \in Unpublished : LastDone(v)' = LastDone(v)
  /\ \A v \in Workers : done'[v] = done[v] \/ done'[v] = << >>
  /\ UNCHANGED <<seq, feed>>

LEMMA StepsOfTheLog ==
  ASSUME StorageAssumption, AppStateAssumption, WorkInv, [AppNext]_vars
  PROVE  \/ \E w \in Workers : Commit(w) /\ Stores(w, Stored(TransportOf[w], Current(w), now[w]))
         \/ \E w \in Workers : Publishes(w)
         \/ Pauses
PROOF
<1>0. /\ pc \in [Workers -> {"idle", "clock", "lock", "publish", "answer"}]
      /\ feed \in Seq(StoredEvent) /\ seq \in Nat /\ DOMAIN done = Workers
      /\ \A w \in Workers : done[w] \in Seq(StoredEvent)
  BY DEF WorkInv, AppTypeOK
<1>1. ASSUME NEW w \in Workers, NEW step, step # "publish", pc[w] # "publish",
             pc' = [pc EXCEPT ![w] = step], UNCHANGED <<seq, feed>>,
             done' = done \/ done' = [done EXCEPT ![w] = << >>]
      PROVE  Pauses
  <2>1. Unpublished' = Unpublished /\ w \notin Unpublished
    BY <1>0, <1>1 DEF Unpublished
  <2>2. \A v \in Workers : done'[v] = done[v] \/ (v = w /\ done'[v] = << >>)
    <3>1. CASE done' = done
      BY <3>1
    <3>2. CASE done' = [done EXCEPT ![w] = << >>]
      BY <1>0, <3>2
    <3> QED
      BY <1>1, <3>1, <3>2
  <2>3. \A v \in Unpublished : LastDone(v)' = LastDone(v)
    BY <2>1, <2>2 DEF LastDone, Unpublished
  <2> QED
    BY <1>1, <2>1, <2>2, <2>3 DEF Pauses
<1>2. ASSUME NEW w \in Workers, NEW p \in Payloads, IngestJson(w, p)
      PROVE  Pauses
  BY <1>1, <1>2 DEF IngestJson, storageVars
<1>3. ASSUME NEW w \in Workers, NEW e \in Inputs, RegisterAgent(w, e)
      PROVE  Pauses
  BY <1>1, <1>3 DEF RegisterAgent, storageVars
<1>4. ASSUME NEW w \in Workers, ReadClock(w)
      PROVE  Pauses
  BY <1>1, <1>4 DEF ReadClock, storageVars
<1>5. ASSUME NEW w \in Workers, Answer(w)
      PROVE  Pauses
  BY <1>1, <1>5 DEF Answer, storageVars
<1>6. ASSUME NEW w \in Workers, Commit(w)
      PROVE  Stores(w, Stored(TransportOf[w], Current(w), now[w]))
  <2> DEFINE s == Stored(TransportOf[w], Current(w), now[w])
  <2>1. s \in StoredEvent /\ s.seq = seq + 1 /\ seq' = seq + 1
    BY <1>6, CommitIsAnIngest
  <2>2. /\ pc[w] = "lock" /\ pc' = [pc EXCEPT ![w] = "publish"]
        /\ done' = [done EXCEPT ![w] = Append(done[w], s)]
        /\ feed' = feed
    BY <1>6 DEF Commit
  <2> HIDE DEF s
  <2>3. Unpublished' = Unpublished \cup {w} /\ w \notin Unpublished
    BY <1>0, <2>2 DEF Unpublished
  <2>4. LastDone(w)' = s
    <3>1. done'[w] = Append(done[w], s)
      BY <1>0, <2>2
    <3> QED
      BY <1>0, <2>1, <3>1, AppendKeeps DEF LastDone
  <2>5. \A v \in Unpublished : LastDone(v)' = LastDone(v)
    BY <1>0, <2>2, <2>3 DEF LastDone, Unpublished
  <2>6. Stores(w, s)
    BY <2>1, <2>2, <2>3, <2>4, <2>5 DEF Stores
  <2> QED
    BY <2>6 DEF s
<1>7. ASSUME NEW w \in Workers, Publish(w)
      PROVE  Publishes(w)
  <2>1. /\ pc[w] = "publish" /\ feed' = Append(feed, LastDone(w))
        /\ pc' = [pc EXCEPT ![w] =
             IF Len(done[w]) = Len(request[w]) THEN "answer" ELSE "clock"]
        /\ UNCHANGED <<seq, done>>
    BY <1>7 DEF Publish, PublishAs, storageVars, LastDone
  <2>2. LastDone(w) \in StoredEvent
    <3>1. done[w] \in Seq(StoredEvent) /\ Len(done[w]) \in 1 .. Len(request[w])
      BY <2>1 DEF WorkInv, AppTypeOK, WorkIsInProgress
    <3> QED
      BY <3>1 DEF LastDone
  <2>3. w \in Unpublished /\ Unpublished' = Unpublished \ {w}
    BY <1>0, <2>1 DEF Unpublished
  <2> QED
    BY <2>1, <2>2, <2>3 DEF Publishes
<1>8. CASE Tick \/ UNCHANGED vars
  <2>1. UNCHANGED <<seq, pc, done, feed>>
    BY <1>8 DEF Tick, vars, workVars, storageVars
  <2> QED
    BY <2>1 DEF Pauses, Unpublished, LastDone
<1> QED
  BY <1>2, <1>3, <1>4, <1>5, <1>6, <1>7, <1>8 DEF AppNext, Work

\* No number is there twice: not on the feed, not among the events about to be
\* published, and not in both places.
DistinctInv ==
  /\ \A i, j \in DOMAIN feed : feed[i].seq = feed[j].seq => i = j
  /\ \A v, w \in Unpublished : LastDone(v).seq = LastDone(w).seq => v = w
  /\ \A w \in Unpublished, i \in DOMAIN feed : feed[i].seq # LastDone(w).seq

LEMMA NumbersUpToSeq ==
  ASSUME AccountInv
  PROVE  /\ \A i \in DOMAIN feed : feed[i].seq \in 1 .. seq
         /\ \A w \in Unpublished : LastDone(w).seq \in 1 .. seq
PROOF
<1>1. \A s \in Accounted : s.seq \in 1 .. seq
  BY DEF AccountInv, EveryNumberIsOneEvent
<1> QED
  BY <1>1 DEF Accounted

LEMMA StepsKeepDistinctInv ==
  ASSUME StorageAssumption, AppStateAssumption, WorkInv, AccountInv, DistinctInv,
         [AppNext]_vars
  PROVE  DistinctInv'
PROOF
<1>0. feed \in Seq(StoredEvent) /\ seq \in Nat
  BY DEF WorkInv, AppTypeOK
<1>1. /\ \A i \in DOMAIN feed : feed[i].seq \in 1 .. seq
      /\ \A w \in Unpublished : LastDone(w).seq \in 1 .. seq
  BY NumbersUpToSeq
<1>2. ASSUME NEW w \in Workers, NEW s, Stores(w, s)
      PROVE  DistinctInv'
  <2>1. /\ s.seq = seq + 1 /\ feed' = feed /\ Unpublished' = Unpublished \cup {w}
        /\ LastDone(w)' = s /\ \A v \in Unpublished : LastDone(v)' = LastDone(v)
    BY <1>2 DEF Stores
  <2>2. \A v \in Unpublished' :
          IF v = w THEN LastDone(v)'.seq = seq + 1
                   ELSE v \in Unpublished /\ LastDone(v)' = LastDone(v)
    BY <2>1
  <2>3. \A v \in Unpublished' : v # w => LastDone(v)'.seq \in 1 .. seq
    BY <1>1, <2>2
  <2>4. \A u, v \in Unpublished' : LastDone(u)'.seq = LastDone(v)'.seq => u = v
    <3> SUFFICES ASSUME NEW u \in Unpublished', NEW v \in Unpublished', u # v,
                        LastDone(u)'.seq = LastDone(v)'.seq
                 PROVE  FALSE
      OBVIOUS
    <3>1. CASE u = w \/ v = w
      BY <1>0, <2>2, <2>3, <3>1
    <3>2. CASE u # w /\ v # w
      BY <2>2, <3>2 DEF DistinctInv
    <3> QED
      BY <3>1, <3>2
  <2>5. \A v \in Unpublished', i \in DOMAIN feed : feed[i].seq # LastDone(v)'.seq
    <3> SUFFICES ASSUME NEW v \in Unpublished', NEW i \in DOMAIN feed
                 PROVE  feed[i].seq # LastDone(v)'.seq
      OBVIOUS
    <3>1. CASE v = w
      BY <1>0, <1>1, <2>2, <3>1
    <3>2. CASE v # w
      BY <2>2, <3>2 DEF DistinctInv
    <3> QED
      BY <3>1, <3>2
  <2> QED
    BY <2>1, <2>4, <2>5 DEF DistinctInv
<1>3. ASSUME NEW w \in Workers, Publishes(w)
      PROVE  DistinctInv'
  <2> DEFINE s == LastDone(w)
  <2>1. /\ w \in Unpublished /\ Unpublished' = Unpublished \ {w} /\ s \in StoredEvent
        /\ feed' = Append(feed, s) /\ done' = done
    BY <1>3 DEF Publishes
  <2>2. \A v \in Unpublished' : v \in Unpublished /\ v # w /\ LastDone(v)' = LastDone(v)
    BY <2>1 DEF LastDone
  <2>3. \A i \in DOMAIN feed : feed[i].seq # s.seq
    BY <2>1 DEF DistinctInv
  <2>4. \A v \in Unpublished' : LastDone(v).seq # s.seq
    BY <2>1, <2>2 DEF DistinctInv
  <2> HIDE DEF s
  <2>5. \A i \in DOMAIN feed' : \/ i \in DOMAIN feed /\ feed'[i] = feed[i]
                                \/ i = Len(feed) + 1 /\ feed'[i] = s
    BY <1>0, <2>1, AppendKeeps
  <2>6. \A i, j \in DOMAIN feed' : feed'[i].seq = feed'[j].seq => i = j
    BY <2>3, <2>5 DEF DistinctInv
  <2>7. \A v \in Unpublished', i \in DOMAIN feed' : feed'[i].seq # LastDone(v)'.seq
    <3> SUFFICES ASSUME NEW v \in Unpublished', NEW i \in DOMAIN feed'
                 PROVE  feed'[i].seq # LastDone(v)'.seq
      OBVIOUS
    <3>1. v \in Unpublished /\ LastDone(v)' = LastDone(v) /\ LastDone(v).seq # s.seq
      BY <2>2, <2>4
    <3>2. CASE i \in DOMAIN feed /\ feed'[i] = feed[i]
      BY <3>1, <3>2 DEF DistinctInv
    <3>3. CASE feed'[i] = s
      BY <3>1, <3>3
    <3> QED
      BY <2>5, <3>2, <3>3
  <2>8. \A u, v \in Unpublished' : LastDone(u)'.seq = LastDone(v)'.seq => u = v
    BY <2>2 DEF DistinctInv
  <2> QED
    BY <2>6, <2>7, <2>8 DEF DistinctInv
<1>4. CASE Pauses
  BY <1>4 DEF Pauses, DistinctInv
<1> QED
  BY <1>2, <1>3, <1>4, StepsOfTheLog

LEMMA DistinctInvHolds == AppSpec => []DistinctInv
PROOF
<1>1. AppInit => DistinctInv
  <2> SUFFICES ASSUME AppInit PROVE DistinctInv
    OBVIOUS
  <2>1. Unpublished = {} /\ feed = << >>
    BY DEF AppInit, Unpublished
  <2> QED
    BY <2>1 DEF DistinctInv
<1>2. WorkInv /\ AccountInv /\ DistinctInv /\ [AppNext]_vars => DistinctInv'
  BY StorageAssumption, AppStateAssumption, StepsKeepDistinctInv
<1> QED
  BY <1>1, <1>2, WorkInvHolds, AccountInvHolds, PTL DEF AppSpec

LEMMA StepsKeepRequestOrder ==
  ASSUME StorageAssumption, AppStateAssumption, WorkInv, RequestInv, AccountInv,
         DistinctInv, FeedKeepsRequestOrder, [AppNext]_vars
  PROVE  FeedKeepsRequestOrder'
PROOF
<1>0. /\ feed \in Seq(StoredEvent) /\ seq \in Nat /\ DOMAIN done = Workers
      /\ \A w \in Workers : done[w] \in Seq(StoredEvent)
  BY DEF WorkInv, AppTypeOK
<1>1. ASSUME NEW w \in Workers, NEW s, Stores(w, s)
      PROVE  FeedKeepsRequestOrder'
  <2>1. /\ s \in StoredEvent /\ s.seq = seq + 1 /\ feed' = feed
        /\ done' = [done EXCEPT ![w] = Append(done[w], s)]
    BY <1>1 DEF Stores
  <2>2. \A i \in DOMAIN feed : feed[i].seq \in 1 .. seq
    BY NumbersUpToSeq
  <2>3. \A i \in DOMAIN feed : feed[i] # s
    BY <1>0, <2>1, <2>2, SMTT(30)
  <2>4. ASSUME NEW v \in Workers, NEW n \in DOMAIN done'[v]
        PROVE  (n \in DOMAIN done[v] /\ done'[v][n] = done[v][n]) \/ done'[v][n] = s
    <3>1. CASE v = w
      <4>1. done'[v] = Append(done[v], s)
        BY <1>0, <2>1, <3>1
      <4>2. PICK q \in Seq(StoredEvent) : q = done[v]
        BY <1>0
      <4>3. \A k \in DOMAIN Append(q, s) :
              (k \in DOMAIN q /\ Append(q, s)[k] = q[k]) \/ Append(q, s)[k] = s
        BY <2>1, AppendKeeps
      <4> QED
        BY <4>1, <4>2, <4>3
    <3>2. CASE v # w
      BY <1>0, <2>1, <3>2
    <3> QED
      BY <3>1, <3>2
  <2> SUFFICES ASSUME NEW v \in Workers, NEW i \in DOMAIN feed', NEW j \in DOMAIN feed',
                      NEW m \in DOMAIN done'[v], NEW n \in DOMAIN done'[v],
                      feed'[i] = done'[v][m], feed'[j] = done'[v][n], m < n
               PROVE  i < j
    BY DEF FeedKeepsRequestOrder
  <2>5. /\ i \in DOMAIN feed /\ feed'[i] = feed[i] /\ j \in DOMAIN feed /\ feed'[j] = feed[j]
        /\ m \in DOMAIN done[v] /\ done'[v][m] = done[v][m]
        /\ n \in DOMAIN done[v] /\ done'[v][n] = done[v][n]
    BY <2>1, <2>3, <2>4
  <2> QED
    BY <2>5 DEF FeedKeepsRequestOrder
<1>2. ASSUME NEW w \in Workers, Publishes(w)
      PROVE  FeedKeepsRequestOrder'
  <2> DEFINE s == LastDone(w)
             L == Len(feed)
  <2>1. /\ w \in Unpublished /\ s \in StoredEvent
        /\ feed' = Append(feed, s) /\ done' = done
    BY <1>2 DEF Publishes
  <2>2. \A i \in DOMAIN feed : feed[i].seq # s.seq
    BY <2>1 DEF DistinctInv
  <2> HIDE DEF s
  <2>3. /\ \A i \in DOMAIN feed' : \/ i \in DOMAIN feed /\ feed'[i] = feed[i]
                                   \/ i = L + 1 /\ feed'[i] = s
        /\ L \in Nat /\ DOMAIN feed = 1 .. L
    BY <1>0, <2>1, AppendKeeps, SMTT(30)
  \* What comes before another event of its request is on the feed already.
  <2>4. ASSUME NEW v \in Workers, NEW m \in DOMAIN done[v], NEW n \in DOMAIN done[v], m < n
        PROVE  done[v][m] # s
    <3>1. m # Len(done[v])
      BY <1>0, <2>4
    <3>2. InFeed(done[v][m])
      BY <3>1 DEF RequestInv, OnFeed
    <3> QED
      BY <2>2, <3>2 DEF InFeed
  <2> SUFFICES ASSUME NEW v \in Workers, NEW i \in DOMAIN feed', NEW j \in DOMAIN feed',
                      NEW m \in DOMAIN done'[v], NEW n \in DOMAIN done'[v],
                      feed'[i] = done'[v][m], feed'[j] = done'[v][n], m < n
               PROVE  i < j
    BY DEF FeedKeepsRequestOrder
  <2>5. /\ m \in DOMAIN done[v] /\ n \in DOMAIN done[v]
        /\ feed'[i] = done[v][m] /\ feed'[j] = done[v][n]
        /\ i \in DOMAIN feed /\ feed'[i] = feed[i]
    BY <2>1, <2>3, <2>4
  <2>6. CASE j \in DOMAIN feed /\ feed'[j] = feed[j]
    BY <2>5, <2>6 DEF FeedKeepsRequestOrder
  <2>7. CASE j = L + 1
    BY <2>3, <2>5, <2>7
  <2> QED
    BY <2>3, <2>6, <2>7
<1>3. CASE Pauses
  <2>1. feed' = feed /\ \A v \in Workers : done'[v] = done[v] \/ done'[v] = << >>
    BY <1>3 DEF Pauses
  <2> QED
    BY <2>1, SMTT(30) DEF FeedKeepsRequestOrder
<1> QED
  BY <1>1, <1>2, <1>3, StepsOfTheLog

\* However the handlers race, the events of one payload are always on the feed in
\* the payload's order (state.rs:90-93).
THEOREM FeedAlwaysKeepsRequestOrder == AppSpec => []FeedKeepsRequestOrder
PROOF
<1>1. AppInit => FeedKeepsRequestOrder
  BY DEF AppInit, FeedKeepsRequestOrder
<1>2. WorkInv /\ RequestInv /\ AccountInv /\ DistinctInv /\ FeedKeepsRequestOrder
        /\ [AppNext]_vars => FeedKeepsRequestOrder'
  BY StorageAssumption, AppStateAssumption, StepsKeepRequestOrder
<1> QED
  BY <1>1, <1>2, WorkInvHolds, RequestInvHolds, AccountInvHolds, DistinctInvHolds,
     PTL DEF AppSpec

-----------------------------------------------------------------------------
(***************************************************************************)
(* The write path implements the log, step by step.                        *)
(***************************************************************************)

\* The events of A, which have the numbers up to n, in the order of these.
ByNumber(A, n) == [k \in 1 .. n |-> CHOOSE s \in A : s.seq = k]

\* They have one number each, and each number is one of theirs.
Numbered(A, n) ==
  /\ {x.seq : x \in A} = 1 .. n
  /\ \A x, y \in A : x.seq = y.seq => x = y

LEMMA ByNumberFinds ==
  ASSUME NEW A, NEW n \in Nat, Numbered(A, n)
  PROVE  /\ ByNumber(A, n) \in Seq(A) /\ Len(ByNumber(A, n)) = n
         /\ \A x \in A : x.seq \in 1 .. n /\ ByNumber(A, n)[x.seq] = x
         /\ \A k \in 1 .. n : ByNumber(A, n)[k] \in A /\ ByNumber(A, n)[k].seq = k
PROOF
<1>1. \A k \in 1 .. n : \E s \in A : s.seq = k
  BY DEF Numbered
<1>2. \A k \in 1 .. n : ByNumber(A, n)[k] \in A /\ ByNumber(A, n)[k].seq = k
  BY <1>1 DEF ByNumber
<1>3. \A x \in A : x.seq \in 1 .. n
  BY DEF Numbered
<1>4. \A x \in A : ByNumber(A, n)[x.seq] = x
  BY <1>2, <1>3 DEF Numbered
<1>5. ByNumber(A, n) \in [1 .. n -> A]
  BY <1>1 DEF ByNumber
<1>6. ByNumber(A, n) \in Seq(A) /\ Len(ByNumber(A, n)) = n
  BY <1>5
<1> QED
  BY <1>2, <1>3, <1>4, <1>6

LEMMA ByNumberGrows ==
  ASSUME NEW A, NEW n \in Nat, Numbered(A, n), NEW s, s.seq = n + 1,
         Numbered(A \cup {s}, n + 1)
  PROVE  ByNumber(A \cup {s}, n + 1) = Append(ByNumber(A, n), s)
PROOF
<1> DEFINE B == A \cup {s}
<1>1. PICK p, q : p = ByNumber(A, n) /\ q = ByNumber(B, n + 1)
  OBVIOUS
<1>2. /\ p \in Seq(A) /\ Len(p) = n
      /\ \A k \in 1 .. n : p[k] \in A /\ p[k].seq = k
  BY <1>1, ByNumberFinds
<1>3. /\ q \in Seq(B) /\ Len(q) = n + 1
      /\ \A x \in B : q[x.seq] = x
  <2> DEFINE m == n + 1
  <2>1. m \in Nat /\ Numbered(B, m) /\ q = ByNumber(B, m)
    BY <1>1
  <2> HIDE DEF B, m
  <2>2. q \in Seq(B) /\ Len(q) = m /\ \A x \in B : q[x.seq] = x
    BY <2>1, ByNumberFinds
  <2> QED
    BY <2>2 DEF m
<1>4. q[n + 1] = s
  BY <1>3
<1>5. \A k \in 1 .. n : q[k] = p[k]
  BY <1>2, <1>3
<1>6. p \in Seq(B) /\ s \in B
  BY <1>2
<1> HIDE DEF B
<1>7. q = Append(p, s)
  <2>1. Append(p, s) \in Seq(B) /\ Len(Append(p, s)) = n + 1
    BY <1>2, <1>6
  <2>2. \A k \in 1 .. n + 1 : q[k] = Append(p, s)[k]
    BY <1>2, <1>4, <1>5, <1>6
  <2> QED
    BY <1>3, <2>1, <2>2
<1> QED
  BY <1>1, <1>7 DEF B

\* What is accounted for is numbered, one by one.
LEMMA AccountedIsNumbered ==
  ASSUME AccountInv, DistinctInv
  PROVE  Numbered(Accounted, seq)
PROOF
<1>1. {x.seq : x \in Accounted} = 1 .. seq
  BY DEF AccountInv, EveryNumberIsOneEvent
<1>2. ASSUME NEW x \in Accounted, NEW y \in Accounted, x.seq = y.seq
      PROVE  x = y
  BY <1>2 DEF Accounted, DistinctInv
<1> QED
  BY <1>1, <1>2 DEF Numbered

LogInv == AccountInv /\ DistinctInv /\ Numbered(Accounted, seq)

LEMMA LogInvHolds == AppSpec => []LogInv
PROOF
<1>1. AccountInv /\ DistinctInv => LogInv
  BY AccountedIsNumbered DEF LogInv
<1> QED
  BY <1>1, AccountInvHolds, DistinctInvHolds, PTL

\* A step of the handlers accepts an event into the log, publishes one of its
\* entries, or is none of its concern.
LEMMA StepsImplementLog ==
  ASSUME StorageAssumption, AppStateAssumption, WorkInv, LogInv, LogInv',
         [AppNext]_vars
  PROVE  [Log!Next]_(Log!logVars)
PROOF
<1>0. feed \in Seq(StoredEvent) /\ seq \in Nat /\ seq' \in Nat /\ seq' \in 0 .. MaxSeq
  <2>1. WorkInv'
    BY StepsKeepWorkInv
  <2> QED
    BY <2>1 DEF WorkInv, AppTypeOK
<1>1. TheLog = ByNumber(Accounted, seq) /\ TheLog' = ByNumber(Accounted', seq')
  BY DEF TheLog, ByNumber
<1>2. Numbered(Accounted, seq) /\ Numbered(Accounted', seq')
  BY DEF LogInv
<1>3. ASSUME NEW w \in Workers, Commit(w), Stores(w, Stored(TransportOf[w], Current(w), now[w]))
      PROVE  Log!Next
  <2> DEFINE s == Stored(TransportOf[w], Current(w), now[w])
  <2>1. s \in [seq : 1 .. MaxSeq, received_at_ms : Times, transport : Via, event : Inputs]
    <3>1. /\ TransportOf[w] \in Via /\ Current(w) \in Inputs /\ now[w] \in Times
          /\ seq' = seq + 1
      BY <1>3, CommitIsAnIngest
    <3>2. seq + 1 \in 1 .. MaxSeq
      BY <1>0, <3>1 DEF StorageAssumption
    <3> QED
      BY <3>1, <3>2 DEF Stored
  <2>2. s.seq = seq + 1 /\ seq' = seq + 1 /\ feed' = feed
    BY <1>3 DEF Stores
  <2>3. Accounted' = Accounted \cup {s}
    <3> HIDE DEF s
    <3>1. Unpublished' = Unpublished \cup {w} /\ feed' = feed /\ LastDone(w)' = s
      BY <1>3 DEF Stores, s
    <3>2. \A v \in Unpublished : LastDone(v)' = LastDone(v)
      BY <1>3 DEF Stores
    <3> QED
      BY <3>1, <3>2 DEF Accounted
  <2> HIDE DEF s
  <2>4. TheLog' = Append(TheLog, s)
    <3>1. Numbered(Accounted \cup {s}, seq + 1)
      BY <1>2, <2>2, <2>3
    <3>2. ByNumber(Accounted \cup {s}, seq + 1) = Append(ByNumber(Accounted, seq), s)
      <4>1. PICK A, n : A = Accounted /\ n = seq
        OBVIOUS
      <4>2. n \in Nat /\ Numbered(A, n) /\ s.seq = n + 1 /\ Numbered(A \cup {s}, n + 1)
        BY <1>0, <1>2, <2>2, <3>1, <4>1
      <4>3. ByNumber(A \cup {s}, n + 1) = Append(ByNumber(A, n), s)
        BY <4>2, ByNumberGrows, SMTT(30)
      <4> QED
        BY <4>1, <4>3
    <3>3. TheLog' = ByNumber(Accounted \cup {s}, seq + 1)
      BY <1>1, <2>2, <2>3
    <3> QED
      BY <1>1, <3>2, <3>3
  <2>5. Len(TheLog) = seq
    BY <1>0, <1>1, <1>2, ByNumberFinds
  <2>6. Log!Accept(s)
    BY <2>2, <2>4, <2>5 DEF Log!Accept
  <2> QED
    BY <2>1, <2>6 DEF Log!Next
<1>4. ASSUME NEW w \in Workers, Publishes(w)
      PROVE  Log!Next
  <2> DEFINE s == LastDone(w)
  <2>1. /\ w \in Unpublished /\ s \in StoredEvent /\ feed' = Append(feed, s)
        /\ seq' = seq /\ done' = done /\ Unpublished' = Unpublished \ {w}
    BY <1>4 DEF Publishes
  <2>2. s \in Accounted
    BY <2>1 DEF Accounted
  <2>3. Accounted' = Accounted
    <3>1. {LastDone(v)' : v \in Unpublished'} = {LastDone(v) : v \in Unpublished \ {w}}
      BY <2>1 DEF LastDone
    <3>2. {LastDone(v) : v \in Unpublished} =
            {LastDone(v) : v \in Unpublished \ {w}} \cup {s}
      BY <2>1
    <3> HIDE DEF s
    <3>3. {feed'[i] : i \in DOMAIN feed'} = {feed[i] : i \in DOMAIN feed} \cup {s}
      BY <1>0, <2>1, AppendKeeps, SMTT(30)
    <3> QED
      BY <3>1, <3>2, <3>3 DEF Accounted
  <2>4. TheLog' = TheLog
    BY <1>1, <2>1, <2>3
  <2>5. s.seq \in 1 .. seq /\ TheLog[s.seq] = s /\ DOMAIN TheLog = 1 .. seq
    BY <1>0, <1>1, <1>2, <2>2, ByNumberFinds DEF TheLog
  <2>6. \A i \in DOMAIN feed : feed[i].seq # s.seq
    BY <2>1 DEF LogInv, DistinctInv
  <2>7. s.seq \in 1 .. MaxSeq
    BY <1>0, <2>1, <2>5 DEF StorageAssumption
  <2> HIDE DEF s
  <2>8. Log!Publish(s.seq)
    BY <2>1, <2>4, <2>5, <2>6 DEF Log!Publish
  <2> QED
    BY <2>7, <2>8 DEF Log!Next
<1>5. CASE Pauses
  <2>1. Accounted' = Accounted /\ seq' = seq /\ feed' = feed
    BY <1>5 DEF Pauses, Accounted
  <2>2. TheLog' = TheLog
    BY <1>1, <2>1
  <2> QED
    BY <2>1, <2>2 DEF Log!logVars
<1> QED
  BY <1>3, <1>4, <1>5, StepsOfTheLog

\* The safety part of the refinement: whatever the handlers do, the server is an
\* append-only log that publishes each of its entries once (state.rs:34-42,
\* storage.rs:189-190).  ImplementsEventLog adds the fairness.
THEOREM WritePathImplementsTheLog == AppSpec => Log!Init /\ [][Log!Next]_(Log!logVars)
PROOF
<1>1. AppInit => Log!Init
  <2> SUFFICES ASSUME AppInit PROVE Log!Init
    OBVIOUS
  <2>1. seq = 0 /\ feed = << >>
    BY DEF AppInit, Init
  <2>2. TheLog = << >>
    BY <2>1 DEF TheLog
  <2> QED
    BY <2>1, <2>2 DEF Log!Init
<1>2. WorkInv /\ LogInv /\ LogInv' /\ [AppNext]_vars => [Log!Next]_(Log!logVars)
  BY StorageAssumption, AppStateAssumption, StepsImplementLog
<1> QED
  BY <1>1, <1>2, WorkInvHolds, LogInvHolds, PTL DEF AppSpec
=============================================================================
