# meta-agents-server in TLA+

This directory specifies meta-agents-server: the bounded in-memory store, the
write path that concurrent handlers run, the queries and pages that read it, the
live feed, the TCP, WebSocket and UDP transports, and how servers are started and
stopped. TLC checks the modules on small instances; TLAPS proves every safety
property that the passing runs check, for every value of the constants. Paths such
as `storage.rs:187` are relative to `src/src/` (or `src/src/ingest/`, `src/src/ui/`).

- [Inventory](#inventory): the parts of the system, their state, what is hard
- [Modules](#modules): which module stands for which part, and how
- [Runs](#runs): what each model-checking run shows, its bounds, fairness
- [Theorems](#theorems): what is proved, from what, along which argument
- [Divergences](#divergences-between-the-code-and-what-is-said-of-it)
- [Not modelled](#not-modelled) and [Plan](#plan)

## Inventory

One process serves agents (over HTTP, WebSocket, raw TCP and UDP) and people
(over HTML pages and a WebSocket feed). There is no disk: a restart is an empty
store. Every transport turns bytes into JSON events and calls `AppState`, which
stores them in `LruStorage` and publishes them to a broadcast channel.

```
 HTTP  WS  TCP  UDP         handlers: tokio tasks, run in parallel
   \   |   |   /
  AppState::ingest_json     parse, limits, dry run of the batch
        |
  LruStorage (one Mutex)    agents / recent / tasks / lessons caches
        |        \
  broadcast(256)  queries -> REST, pages (each query is one lock)
        |
  /ws/feed sessions -> live.js tables
```

| Component | State | Operations | Hard behaviour | Correct when |
|---|---|---|---|---|
| Event schema (`model.rs`, `validated`) | none | accept or refuse an event | bounds 0..1 and 0..100, blank names | nothing invalid is ever stored |
| Store (`storage.rs`) | `seq`, four LRU caches; inside each agent's record a ring and a session cache | `ingest`, six queries | eviction and return of agents and tasks, two rings of different size, capacities of 0, clock readings out of order | bounded; the least recently heard is forgotten, and only it; the read models agree with each other |
| Write path (`state.rs`) | store, channel, clock | `ingest_json`, `ingest` | handlers interleave between clock, lock and publish; the clock is set back; batches fail half-way | batches are all or nothing; each event has one number and reaches the feed once |
| HTTP (`http.rs`) | none | two write routes, read routes | - (`POST /api/agents` skips the dry run, and needs none for one event) | the same verdict on both routes |
| WebSocket ingest (`ws.rs:30-57`) | a session | messages, pings, a close; acks and pongs | the session does not read while it writes; a lost connection takes acks with it | the n-th answer belongs to the n-th message that calls for one; a client that reads in time is served |
| TCP (`tcp.rs`) | per connection: buffer, partial frame, deferred CR | `read_bounded_line`, `serve` | CRLF split over buffers, frames at the limit, a stream that ends inside a frame, a client that writes and does not read | frames do not depend on how bytes are cut; one ack per frame; only a client that pipelines too far gets stuck |
| UDP (`udp.rs`) | the datagram being served | one datagram, one ack | lost, repeated and overtaken datagrams, retries, a server that is replaced while they fly | an ack is true of the server that sent it; no datagram is stored twice |
| Live feed (`ws.rs:59-90`, `live.js`) | channel of 256, per session a receiver, per browser a table | subscribe, receive, lag, send, close, reconnect | slow browsers, publication out of order, page rendered before the subscription, a Close that arrives during a send | no frame twice or out of order; only laggards miss events; abandoned sessions end |
| Pages (`ui/mod.rs`) | none | dashboard, agent, tasks, lessons | two reads under two locks; task parents that form cycles | the two halves of a page fit together; the page ends |
| Chart (`ui/chart.rs`) | none | points to SVG | one point, equal times, markers outside the points' span; made from the second of the page's two reads | the marks stay in the frame; the label is the agent's last confidence, unless it was reported between the two reads |
| Lifecycle (`lib.rs`) | listeners, task handles | `start`, `wait`, `abort`, `Drop` | a bind that fails after others, cancellation of `wait`, a successor on the same addresses | a server is started as a whole or not at all; only a cancelled `wait` leaves listeners without an owner |
| Command line (`bootstrap.rs`) | none | flags and environment to a configuration; `start`, then `wait` | - | - |

How they interact: the transports call `AppState` directly; the store and the
channel are shared memory (an `Arc` with a mutex, a broadcast sender). The mutex
is never held across an `await`, so a critical section is one step of the
models. Between two calls into the store anything can happen, and that is where
the models interleave. `PROJECT.json` lists the hazards with their lines.

## Modules

| Module | Models | Relation to the others |
|---|---|---|
| `Events` | the six shapes of event, what serde accepts, what `validated` refuses | |
| `Lru` | an `lru::LruCache` (external crate, from its use) | |
| `Storage` | `LruStorage`: `Ingest` (all of `ingest`), `Query` | extends `Events`, `Lru` |
| `Queries` | what each query returns and in which order; the task page's forest | extends `Storage` |
| `AppState` | the write path as concurrent handlers run it | extends `Storage`; implements `Storage` and `EventLog` |
| `EventLog` | abstract: an append-only log whose entries are published once each, in any order | |
| `Pages` | the dashboard and the agent page as two reads with writers in between | extends `Queries` |
| `TcpConnection` | one TCP connection: buffers, frames, acks | |
| `Feed` | channel, feed sessions, sockets and browser tables | extends `EventLog` |
| `Session` | a client that streams to an ingest WebSocket or over TCP, with bounded sockets | |
| `Lifecycle` | `start`, `ServerHandle`, the listeners' tasks and sockets, several servers | |
| `Datagrams` | the UDP loop, its clients and the network | extends `Lifecycle`, and implements it |
| `Chart` | `confidence_svg` over the timeline an agent's page has read | extends `Pages` |
| `Lru_proofs`, `Storage_proofs`, `AppState_proofs`, `TcpConnection_proofs`, `Feed_proofs`, `Session_proofs` | theorems | each extends its module; the next level extends the proofs of the one below |
| `Datagrams_proofs` | theorems about `Lifecycle` and `Datagrams` | extends `Datagrams` |
| `Pages_proofs` | theorems about `Queries`, `Pages` and `Chart` | extends these and `Storage_proofs` |
| `MCStorage`, `MCAppState`, `MCPages`, `MCTcpConnection`, `MCFeed`, `MCSession`, `MCDatagrams` | inputs and constants for TLC | |

**Events.** An event is a record with the fields that reach state. Text that is
stored but never read back to decide anything (content, reflection, lesson) is
reduced to whether it is there. `Blank` stands for a name of white space only. A
confidence is a number of hundredths and may be one above the range.

**Lru.** A cache maps a key to a value and to `used`, the time it was last put
there; `Put` evicts the key with the smallest `used`. The time is the number of
the event that does it: every `put` and every `get_mut` of `ingest` happens
under a fresh `seq`, so the order of numbers is the order of the crate's list.
The queries use `iter` and `peek`, which leave that order alone.

**Storage.** `seq`, `agents`, `recent`, `tasks`, `lessons` are the fields of
`Inner`. `Ingest(transport, e, now)` is the whole critical section: the record of
the agent (created if unknown, with the sessions and the ring in it), the task
node, the lesson, the recent ring. `now` is any member of `Times`, because the
clock is read before the lock is taken (`storage.rs:187`). `MaxSeq` bounds the
number of events of a behaviour.

**AppState.** A worker takes a payload (`IngestJson`, or `RegisterAgent` for the
route without dry run), and for each event reads the clock (`ReadClock`), stores
it (`Commit`, an `Ingest` of `Storage`) and publishes it (`Publish`); then it
answers. `Tick` sets the clock to any reading: `now_ms` is the system's time, which
may be set back. A payload that is too long, blank or not JSON is
the one value `Malformed`. The dry run goes to an isolated store, so it reads
and writes nothing shared: it is the predicate `dry_run`. `taken` and `clock` are
bounded by `MaxRequests` and `MaxClock`.

**Queries.** Each query is an operator of one state of the store. `ByTime` is the
stable sort by a time, newest first, over the cache's own order; it is given by
counting, each entry standing after as many as are ahead of it. What
`ListsFollowTheLog` says of a list is relative to the times of its entries: the
clock is read before the lock, so the last event stored need not have the latest
time. `Rendered[d]` is the set of tasks `task_node` renders at depth d.

**Pages.** `ReadCards`/`ReadRows` and `ReadHeader`/`ReadTimeline` are the two locks
of a page; `Store` steps in between.

**TcpConnection.** `input` is what the client sends before it closes, `filled` and
`pos` delimit the `BufReader`'s buffer. `Fill` is a read of any size. `Scan`,
`ScanSplitDelimiter` and `EndOfInput` are the three ways through the loop of
`read_bounded_line`; `pc` is what it returned. `SkipBlank`, `Answer`, `Refuse` are
the branches of `serve`, `Fail` an I/O error. Bytes are four kinds: LF, CR, a byte
that no UTF-8 text contains, any other. What `ingest_json` makes of a line is in
`AppState`.

**Feed.** `EventLog` writes and publishes; `published` is the channel with a memory,
of which the last `FeedCapacity` messages can be received. `next` is a session's
receiver; `Receive` takes the next message or, when the receiver has been
overtaken, moves it to the oldest message there is, as tokio's channel does.
`Send` waits for a slow browser. `Lose` breaks a connection, `Connect` opens the
next one, with a fresh subscription. After `Close` the browser reads no more but
keeps its end of the socket: the session `notices` that in `select!` only, not
while it sends. That a session owns an `AppState`, and so a
sender, means that its receiver never sees `Closed`.

**Session.** Both ingest sessions are one loop: take a message (`Take`), do what it
asks for, write the answer (`Reply`), and only then take the next. A message is its
kind: events, refused, ping, one without an answer, too large, the end. A script is
of one transport's kinds. The socket holds `UpCapacity` messages, its other
direction `DownCapacity` answers. The client pipelines up to a `window` of
unanswered messages and reads only when it does not want to write, the least
favourable client; `Expects` is what it counts on, `Answered` what the code does.
`Break` loses what is in the sockets, at any time: also after the session has closed
its end, when messages, or the rest of one too large, are unread in it.

**Lifecycle.** `Bind` takes the sockets in the order of `Order`; `StartFails` is a
bind that fails, an address in use among the reasons, or a caller that drops the
future. `tasks` is the handle's Vec: `Wait` empties it (`mem::take`), so `aborted`
finds nothing when a `Return` or `CancelWait` drops the handle. An aborted task runs
on until its next await, when `End` closes its socket; the HTTP server may also end
by itself. `Kill` is the end of the process.

**Datagrams.** `loop` is where `udp::serve` awaits: in `recv_from` or in `send_to`;
between them it stores without an await, one step (`Serve`). Datagrams are numbered
as they are sent, so that a repeated one is another (`Duplicate`), and `flying` is a
set: they overtake each other. A client has one event, which the server stores or
refuses, and sends it again while it has heard nothing. A server and its successor
have the same address: a datagram to the first may be stored by the second. What
`ingest_json` does is in `AppState`; here a store is the sequence of the clients
whose events it took. With one event to a client, an ack says whose event it is about; which of
several events of one client it is about no ack says, and the model leaves that out.

**Chart.** Coordinates are integers, tenths of a unit as the SVG prints them, rounded
down instead of to the nearest. Two times of a long axis may fall on one tenth, so
a later mark is strictly to the right only if its distance comes to a tenth at
least. Grid, axis labels and tooltips are left out. `marks` is made from what
`ReadTimeline` returned, the summary it is compared with from what `ReadHeader` did.

Operators named after an operator of the model plus a word (`ScanDroppingCR`,
`RecordAgentInPlace`) are faulty variants. Nothing uses them; each is a plausible
slip in the code, and the property it breaks is listed in `PROJECT.json`.

## Runs

All of them with `tlc -workers 2 -config X.cfg M`.

| Run | Module, cfg | Shows |
|---|---|---|
| `store_agents` | `MCStorage`, `_agents` | Three agents for two places, readings of the clock in any order. Agents are forgotten only for others; their rings have no holes; the summary is what replaying the ring gives; an agent that returns brings nothing back; all caches stay bounded; the recent ring is the window of the last numbers. |
| `store_reports` | `MCStorage`, `_reports` | Three sessions for two places, lessons for the place a capacity of 0 leaves; or three tasks for two places, one that changes its parent and two that name each other. Sessions are forgotten in order of registration, lessons are the latest ones, every list the queries sort has each entry of its cache once, and first what the last event is about unless another has a later time. Task reports are kept; a shared task stays flagged; the recursion of the task page ends, renders nothing twice and hides only cycles. |
| `write_path` | `MCAppState`, `_payloads` | An HTTP handler and a TCP handler, two payloads of six kinds or registrations, raced or one after the other, and a clock that moves either way. Batches are all or nothing, their order survives, feed and store agree, no number is lost; `AppState` implements `EventLog`, liveness included; every payload is answered. |
| `pages` | `MCPages` | A dashboard or an agent page in two reads while reports and strategies arrive at three readings of the clock in any order, and agents are forgotten and come back. The two halves fit together; the chart keeps to its frame and its label to the summary read first. |
| `tcp_connection` | `MCTcpConnection` | All 1365 streams of up to five bytes, all ways to cut them. |
| `live_feed` | `MCFeed` | Four events stored and published in all orders, while a browser opens the dashboard, lags, is cut off, closes its connection, comes back. |
| `sessions` | `MCSession` | All scripts of up to four messages of either transport, windows from 1 to 4. Each answer belongs to its message; client and session wait for each other only when the window exceeds what the socket and the session hold; every other client is served. |
| `datagrams` | `MCDatagrams` | A server and its successor on the same addresses, a client whose event is stored and one whose event is refused, two datagrams or copies. No socket or task is left behind but by a cancelled `wait`, a dropped server gives its addresses back, acks are true, no datagram is stored twice. |
| `totals`, `task_trees`, `chart_order`, `feed_order` | | One divergence each, see below. |

**Bounds.** Evictions are the point of the store runs: capacities of one and two
with one key more, and five or six events, let every cache overflow, an evicted
key come back and be evicted again. The write path needs two handlers to race;
a batch of two to be interrupted between its events, or one handler to take a second
payload after its first. In `pages` four events are an agent that is heard, evicted
by two others and heard again, or one event more than its timeline of three shows.
A frame limit of two bytes, a buffer of three and streams of five bytes contain
frames below, at and above the limit, a CRLF cut in the middle, a CR before
another CR, two complete frames, and an unfinished last one. In `live_feed` a ring
of two with four messages makes a session lag and lose a message; a table of
three rows overflows. One browser is enough: sessions share nothing but the
channel, and the channel never waits for a receiver. In `store_reports` the
constraint `OneSubject` keeps behaviours about tasks apart from those about
sessions and lessons, which meet in no cache but those of the agents and of recent
events; `store_agents` fills these with what tells agents apart. In
`sessions` each socket holds one message, so that windows of two and three are the
last that is safe and the first that is not. In `datagrams` two copies are a retry,
a duplicate, or two clients whose acks overtake each other; what it shows of more
of them is proved.

**Deadlock.** `Storage` and `Pages` can stop at their bounds only for writing; reads
are always enabled. In `AppState` the payloads run out, a TCP connection or a session
ends, a process is killed: those cfgs say `CHECK_DEADLOCK FALSE`, and
`EveryRequestIsAnswered`, `ConnectionEnds` and `ModestClientsAreServed` say that
nothing stops before its end.

**Fairness.**

- `AppSpec`: weak fairness of each worker's `Work`. From payload to answer a handler
  is straight-line code without an `await`, and the mutex it takes is held for a
  bounded time. Taking payloads and the clock are not fair.
- `TcpSpec`: weak fairness of the connection's task. `Fill` being fair assumes that
  the client sends what it has to send, `Answer` that it reads its acks.
- `FeedSpec`: weak fairness of a session's `Receive` and `Send` and of the browser's
  `addRow`, strong fairness of `EndSession`: a session alternates between `select!`
  and a send, so what it may notice in `select!` is enabled again and again, not all
  the time, and `select!` polls its ready branches in a random order, so that
  messages in the ring do not for ever hide a Close. That live browsers read is an
  assumption on the environment. Writers, reconnection and page loads are not fair.
- `SessionSpec`: weak fairness of the session's task and of the client, which writes
  or reads whenever it can. A client that stops is its own affair.
- `UdpSpec` (`AbortedTasksEnd`): weak fairness of the end of an aborted task. tokio
  drops it at its next await, and no listener computes without one for long. Nothing
  else is fair: datagrams may all be lost, servers may never be stopped.

**Properties in words.** Each definition is preceded by its statement and the lines
it is about. The less obvious ones: `RingsHaveNoGaps` and
`SnapshotReplaysRing` (two rings and a summary, updated separately, tell one
story), `AnswersAreTrue` and `EveryNumberIsOneEvent` (handlers between lock and
publish), `ImplementsEventLog` (the promise behind the feed),
`TimelineBearsTheHeaderOut` (an agent evicted between the two reads of its page),
`FramesIgnoreTheCuts` (against a definition of frames that knows no buffers),
`OnlyGreedyClientsGetStuck` (what a client may have unanswered before both sides
wait for each other), `OnlyCancelledWaitsOrphan` (who owns a listener),
`AcksAreTrue` (of the server that sent it, however late it is heard),
`AbandonedSessionsEnd` (and which one does not), `StartIsAllOrNothing` (before, at
and after `start`), `ChartFitsTheAgent` (two reads of a page, one picture),
`RowsRepeatOnlyRaces` (a row may appear twice, exactly if the event was stored but not
yet published when the page was rendered).

## Theorems

`tlapm X_proofs.tla` proves, for every value of the constants that satisfies the
named assumptions (`StorageAssumption`, `AppStateAssumption`, `TcpAssumption`, `FeedAssumption`,
`SessionAssumption`, `LifecycleAssumption`):

| Theorem | States | Argument |
|---|---|---|
| `TypeCorrect` | `Spec => []TypeOK` | Inductive as it stands: lemma `PutIsCache` for the caches, and one lemma for each kind of value that `Ingest` puts there (`StoredIsTyped`, `UpdatedAgentIsTyped`, `UpdatedTaskIsTyped`). |
| `BoundedForEver` | `Spec => []CachesStayBounded` | Lemma `PutBounded`: a cache of at most n keys, after `Put` with capacity n, has at most n keys, because the evicted key is there and differs from the new one. Applied to the four caches and the two inside a record. |
| `RecentIsAlwaysTheWindow` | `Spec => []RecentIsLatestWindow` | The window alone is not inductive: which key is evicted depends on `used`. `RecentInv` adds that each entry was put at its own number, so the least recently used is the lowest number, and `WindowSize` counts the window. |
| `SharedTasksKeepTheirFlag` | `Spec => SharedTasksStayMeta` | A report updates the node it finds or creates one; a lemma for each, from the invariant that a node with two reporters is flagged. |
| `AgentsAlwaysForgottenForOthers`, `TasksAlwaysForgottenForOthers` | `Spec => []...` | `AgentsInv`, `TasksInv`: the cache *follows* a history, the recent ring's events as a function of their numbers. A key that is held was last put when its `used` says; one that is not is older than everything in a full cache (`Follows`). Lemma `PutFollows`: a `Put` at the next number keeps that. Lemma `ForgottenForOthers` counts: what is newer in a full cache are that many other keys. For tasks, each report also shows in its node (`ReportKept`). |
| `LessonsAreAlwaysTheLatest` | `Spec => []LessonsAreTheLatest` | `LessonsInv`: the cache of lessons follows the history of the learning events, whose keys are their numbers, all different, so following it is holding the latest. |
| `RingsNeverHaveGaps`, `SnapshotsAlwaysReplay` | `Spec => []...` | `AgentRecordsInv`, one part per record: the ring holds the agent's numbers without a hole and agrees with the recent ring (`RingIsFull`), and the summary shows its last entries (`Replayed`) and, while the ring lacks no event, nothing else (`Unsaid`). Lemma `RingPut` says what a `Put` with a new, highest key does to a ring. An agent that returns gets a new ring; its events from before are older than all of that ring, whose numbers are fresh. |
| `SessionsAlwaysForgottenForOthers` | `Spec => []SessionsForgottenOnlyForOthers` | In the same invariant, the session cache follows the registrations of the agent's ring. |
| `AppTypeCorrect` | `AppSpec => []AppTypeOK` | `WorkInv` adds what the program counter says of `done` and `request`: a worker before its lock has an event left. |
| `AppImplementsStorage` | `AppSpec => Spec` | `Commit` is an `Ingest` step of a validated input at a time of `Times`; every other step stutters. Uses `WorkInv`. |
| `ServerMemoryIsBounded`, `ServerKeepsTheStoresPromises` | `AppSpec => []...` | The preceding one, and what is proved of `Storage`: handlers that race leave the store as correct as one caller does. |
| `AnswersAreAlwaysTrue` | `AppSpec => []AnswersAreTrue` | `RequestInv`: what a worker has stored so far is the prefix of its request, under growing numbers, all but perhaps the last on the feed; a worker that will answer with an error has stored nothing, which is where the dry run comes in. |
| `EveryNumberIsAlwaysOneEvent` | `AppSpec => []EveryNumberIsOneEvent` | `AccountInv`: `Commit` adds one number and one worker that has not published; `Publish` moves it to the feed. Counting needs that the set of such workers is finite, whatever the number of workers is, because each came there by a `Commit`. |
| `FeedAlwaysMatchesStore` | `AppSpec => []FeedMatchesStore` | Not inductive alone, because what the feed shows next comes from a worker. `RememberedInv` says it of everything accounted for, on the feed or about to be: it is what the recent ring holds under its number, while it holds it. That a new number does not overwrite one of them is `AccountInv`. |
| `FeedAlwaysKeepsRequestOrder` | `AppSpec => []FeedKeepsRequestOrder` | `DistinctInv`: no number is on the feed twice, or there and about to be published, so a place on the feed is one event's; with `RequestInv`, what a worker publishes comes after all it has published before. |
| `WritePathImplementsTheLog` | `AppSpec => Log!Init /\ [][Log!Next]_(Log!logVars)` | Step by step: `Commit` appends to the abstract log the event whose number is its new length, `Publish` publishes one that is not published yet (`DistinctInv` again), every other step stutters. |
| `TcpTypeCorrect`, `FrameIsAlwaysBounded`, `FrameNeverLosesAByte` | `TcpSpec => []...` | `TcpInv` is the conjunction of the three. The heart is `GrownIsExact`: frame, deferred CR and the buffer's share, put together, are the bytes since the start of the frame less one CR at the end. |
| `EachFrameIsAlwaysExact` | `TcpSpec => EachFrameIsExact` | From `TcpInv`, by the three actions that give a frame. That a refused frame is really too long uses `FrameIsBounded`: what was kept fits, so the new share is what does not. |
| `FramesAlwaysIgnoreTheCuts` | `TcpSpec => []FramesIgnoreTheCuts` | The reference counts line feeds and knows no buffers: the k-th text ends at the k-th LF. `StreamInv`: the frames given so far are the first texts, and what is not yet given starts where the last of them ends. Each verdict adds the next text (`GiveKeepsStreamInv`), which is what the lemmas of `EachFrameIsAlwaysExact` say the bytes before it are (`NextFrameIsExact`). |
| `AcksAlwaysFollowTheFrames` | `TcpSpec => []AcksFollowTheFrames` | With `StreamInv`, which says that the frame in hand is the last of `lines`: a verdict makes an answer due, and `Answer`, `Refuse` or `SkipBlank` settles it before anything more is read. |
| `FeedTypeCorrect`, `FramesAlwaysComeOnceInOrder`, `OnlyLaggardsEverMiss` | `FeedSpec => []...` | `FeedInv`, one part per browser: what its table's frames, its socket and its session hold, put together, are increasing places of the log from `since` to below `next`; each place missing was overtaken by the ring; and what the phases of browser and session say of the socket. One lemma for each action. |
| `RowsAlwaysRepeatOnlyRaces` | `FeedSpec => []RowsRepeatOnlyRaces` | `Table`: row i is the i-th last frame or, below the frames, an event of the rendered page. Frames are of different events, rows of the page too, so an event has one row of each at most (`RowsOnce`), and both only if it was published after the page was rendered. |
| `SessionTypeCorrect`, `AnswersAlwaysFollowTheMessages`, `OnlyGreedyClientsEverGetStuck` | `SessionSpec => []...` | `SessionInv` counts: the i-th answer is that of the message with i questions up to it. A client that is stuck lacks the answers in its socket and one in the session, and still wants to write. |
| `StartIsAlwaysAllOrNothing`, `OnlyCancelledWaitsEverOrphan` | `LifeSpec => []...` | `LifeInv` says what each phase of the handle leaves in `tasks`, `task` and `bound`: no task before `start` returns, all of them when it does, and each with its socket until it ends; the handle holds all tasks or none, so `abort` reaches all or none. |
| `UdpImplementsLifecycle` | `UdpSpec => LifeSpec` | Every step of the network, the clients and the UDP loop leaves the lifecycle alone; the fairness is the same formula. |
| `AcksAreAlwaysTrue` | `UdpSpec => []AcksAreTrue` | `AckInv` says it also of the answer a loop is about to send; stores only grow, so a number never comes to mean another event. |
| `ServedOnce` | `UdpSpec => []StoredOncePerDatagram` | `CountInv` compares sets: each `Serve` adds one place to the stores and takes one datagram from those that fly. |
| `ListsAlwaysFollowTheLog` | `Spec => []ListsFollowTheLog` | `PlacesAreTaken`: in a finite set with a strict order, the number of those ahead gives each its place and leaves no place empty; so `ByTime` is a bijection, for agents, the sessions of each, tasks and lessons. `StampsInv` adds what makes the order strict: no two entries of a cache have the same `used`. What was stored last has the highest, so only a later time puts another before it. |
| `TaskPagesAlwaysEnd`, `OnlyCyclesAreEverHidden` | `Spec => []...` | Of any forest of parents, whatever loops are in it. Levels are disjoint (`LevelsAreDisjoint`) and none is skipped, so more levels than tasks would be an injection into a smaller set (`LevelsEnd`). A task is as many levels below one above it as there are reports between them (`LevelsFollowTheChain`). |
| `DashboardsMissNoOldAgent`, `TimelinesBearTheHeaderOut` | `PagesSpec => []...` | `PagesInv`, one part per browser: what is in its first read is borne out by the store as it is now, hence by the second read. An agent that was evicted in between bears everything out, because its ring has only events later than the read. |
| `ChartsAlwaysFitTheirAgents` | `PagesSpec => []ChartFitsTheAgent` | Integer arithmetic: `AxisHasRoom` (the axis holds every point and marker, and is not empty), `XFollowsTheAxis` (rounding keeps the order). The label is what `PagesInv` says the two reads have to do with each other (`LabelIsTheLast`). |

`Rendered` and `Up` are recursive functions, over numbers. That such a function
exists, and so is what its definition says, is lemma `Iteration`; what holds of all
its values is shown with `AllNumbers`, the principle of induction for a *set* of
numbers, proved from the library's well-foundedness of `<` because the library's
induction theorems take an operator and cannot be used. The other definitions in
the proofs are not recursive: lists are given by counting.

Only model-checked: the liveness properties (`EveryRequestIsAnswered`,
`ConnectionEnds`, `SubscribersCatchUp`, `AbandonedSessionsEnd`,
`ModestClientsAreServed`, `DroppedServersCloseTheirSockets`) and the fairness part
of `ImplementsEventLog`, which rest on ENABLED and are beyond the prover; and the
divergences below, where TLC's counterexample is the point. Every invariant
and every action property of a passing run has its theorem.

## Divergences between the code and what is said of it

| Run | Said | Done |
|---|---|---|
| `totals` | `model.rs:238`: "Total events ever ingested for this agent (not bounded by the LRU)." | The counter lives in the agent's record and restarts when the agent was evicted and returns. |
| `task_trees` | `model.rs:115`: "Tasks form trees via `parent_id`"; the page is titled "Task trees". | Tasks on a cycle of parents are in the store and on no tree of the page. |
| `chart_order` | `chart.rs:39-40`: the points are "in chronological order". | Points come in the order of numbers; the clock is read before the lock, so times may run backwards. |
| `feed_order` | `ui/mod.rs:256`: the live table is "newest first". | Frames are prepended in the order of publication, which is not the order of numbers. |
| - | `tcp.rs:1-2`: "the server answers each line with one ack line"; the repository's `README.md:129` likewise. | A line that is empty or white space only is skipped without an ack (`tcp.rs:145-147`): `SkipBlank`, and what `AcksFollowTheFrames` counts. |
| - | `ws.rs:6-7`: "every stored event is pushed as one JSON text frame". | A session that falls behind the ring of 256 messages skips those it has lost (`ws.rs:77-78`): the overtaking branch of `Receive`, and what `OnlyLaggardsMiss` allows. |
| - | `model.rs:259`: "Every agent that has reported on this task."; the repository's `README.md:106`: a task "reported by more than one agent is flagged". | Reporters and flag live in the task's node: after an eviction the next report starts them anew (`storage.rs:251-270`). `SharedTasksStayMeta` holds while the node stays. |

The first four have a run whose counterexample shows them. The last three are the
branch of the code that the definition named models.

## Not modelled

- Persistence: there is none to model. A server that is killed and its successor on
  the same addresses are in `Lifecycle` and `Datagrams`.
- Connections that are open when their server is aborted: their tasks are detached
  and go on storing. No code ends them or waits for them.
- Errors of `accept`, which the TCP loop retries at once, and port 0, with which no
  two servers can meet.
- A peer that vanishes without closing its socket: for the session it is a browser
  that does not read, until the operating system gives up.
- Bytes, JSON, HTTP and WebSocket framing: library code; what they refuse is
  `Malformed`, or a browser's `Lose`.
- Layout, wording, CSS, the backoff's duration, the liveness badge; HTTP status
  codes, the limit on a body and the clamp of a query's limit to 1000.
- The number of concurrent connections, tokio's scheduler beyond interleaving, and
  memory that libraries use.
- Overflow of `seq` (64 bits) and of the clock.
- `bootstrap.rs`, `main.rs`: pure configuration. The tooling around the
  repository (lint, environment files, packaging, connectors in `examples/`).

## Plan

The modules were written in this order: `Lru`, `Events`, `Storage`, `Queries`,
`AppState` with `EventLog`, `Pages`, `TcpConnection`, `Feed`, `Lifecycle`,
`Datagrams`, `Session`, `Chart`; each with its proofs once TLC had agreed.

What would be next:

1. Theorems about compositions: the pages and the feed over `AppSpec` instead of
   `Spec` and `EventLog`, whose refinements are proved.
2. `Session` over the frames of `TcpConnection`, instead of over messages.
3. The HTTP routes with their limits and status codes, if they come to depend on the
   state of the store.
