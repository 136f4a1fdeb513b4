------------------------------ MODULE AppState -------------------------------
(***************************************************************************)
(* The write path of src/state.rs, as the handlers of src/ingest run it:   *)
(* AppState::ingest_json, AppState::ingest and the store underneath.       *)
(*                                                                         *)
(* A worker is whatever runs a handler: an HTTP request, a WebSocket or    *)
(* TCP connection, the UDP loop.  Handlers run in parallel on the runtime's *)
(* threads and share the store, its mutex, the clock and the feed channel. *)
(* A handler does not wait between taking a payload and having the answer, *)
(* so it is not cancelled half-way, but its steps interleave with those of *)
(* others:                                                                 *)
(*   take a payload -> (read the clock -> lock and store -> publish)* -> answer *)
(***************************************************************************)
EXTENDS Storage, Sequences

CONSTANTS
  Workers,        \* the handlers
  TransportOf,    \* the transport each of them serves
  Payloads,       \* what clients send: sequences of events, or Malformed
  Malformed,      \* a payload that is too long, blank or not event JSON
  MaxBatch,       \* MAX_INGEST_BATCH_EVENTS
  MaxRequests,    \* bound: the number of payloads taken in a behaviour
  MaxClock        \* bound: the last reading of the clock

ASSUME AppStateAssumption ==
  /\ TransportOf \in [Workers -> Via]
  /\ \A p \in Payloads : p = Malformed \/ p \in Seq(Inputs)
  /\ \A n \in {MaxBatch, MaxRequests, MaxClock} : n \in Nat
  /\ 0 .. MaxClock \subseteq Times
  /\ MaxBatch >= 1
  /\ MaxRequests * MaxBatch <= MaxSeq

VARIABLES
  clock,     \* the millisecond clock
  taken,     \* the number of payloads taken so far
  pc,        \* where each worker is
  request,   \* the events of the payload it works on
  now,       \* what it last read from the clock
  done,      \* the events of the payload it has stored, as stored
  accepted,  \* whether the answer it is about to give is Ok
  feed       \* everything sent into the feed channel, in order

workVars == <<pc, request, now, done, accepted>>
vars == <<storageVars, clock, taken, workVars, feed>>

AppInit ==
  /\ Init
  /\ clock = 0
  /\ taken = 0
  /\ pc = [w \in Workers |-> "idle"]
  /\ request = [w \in Workers |-> << >>]
  /\ now = [w \in Workers |-> 0]
  /\ done = [w \in Workers |-> << >>]
  /\ accepted = [w \in Workers |-> FALSE]
  /\ feed = << >>

\* The dry run: the events go through the validation of an isolated store.
dry_run(events) == \A i \in DOMAIN events : validated(events[i])

\* Faulty variant: no dry run.
admittedUnchecked(p) ==
  /\ p # Malformed
  /\ Len(p) \in 1 .. MaxBatch

\* The checks of ingest_json before its first write.
admitted(p) ==
  /\ p # Malformed
  /\ Len(p) \in 1 .. MaxBatch
  /\ dry_run(p)

\* The event worker w is at.
Current(w) == request[w][Len(done[w]) + 1]

\* ingest_json on a payload, up to the first write.  It touches nothing but
\* the worker's own state.
IngestJson(w, p) ==
  /\ pc[w] = "idle"
  /\ taken < MaxRequests
  /\ taken' = taken + 1
  /\ request' = [request EXCEPT ![w] = IF p = Malformed THEN << >> ELSE p]
  /\ pc' = [pc EXCEPT ![w] = IF admitted(p) THEN "clock" ELSE "answer"]
  /\ accepted' = [accepted EXCEPT ![w] = admitted(p)]
  /\ UNCHANGED <<storageVars, clock, now, done, feed>>

\* register_agent hands its one event to AppState::ingest, with no dry run.
RegisterAgent(w, e) ==
  /\ pc[w] = "idle"
  /\ TransportOf[w] = "http"
  /\ e.type = "register"
  /\ taken < MaxRequests
  /\ taken' = taken + 1
  /\ request' = [request EXCEPT ![w] = <<e>>]
  /\ pc' = [pc EXCEPT ![w] = "clock"]
  /\ accepted' = [accepted EXCEPT ![w] = TRUE]
  /\ UNCHANGED <<storageVars, clock, now, done, feed>>

\* Faulty variant: the error path is missing.
ReadClockNoError(w) ==
  /\ pc[w] = "clock"
  /\ validated(Current(w))
  /\ now' = [now EXCEPT ![w] = clock]
  /\ pc' = [pc EXCEPT ![w] = "lock"]
  /\ UNCHANGED <<storageVars, clock, taken, request, done, accepted, feed>>

\* The start of the store's ingest, before the lock: validate the event, read
\* the clock.  The first invalid event ends the request with an error.
ReadClock(w) ==
  /\ pc[w] = "clock"
  /\ \/ /\ validated(Current(w))
        /\ now' = [now EXCEPT ![w] = clock]
        /\ pc' = [pc EXCEPT ![w] = "lock"]
        /\ UNCHANGED accepted
     \/ /\ ~validated(Current(w))
        /\ accepted' = [accepted EXCEPT ![w] = FALSE]
        /\ pc' = [pc EXCEPT ![w] = "answer"]
        /\ UNCHANGED now
  /\ UNCHANGED <<storageVars, clock, taken, request, done, feed>>

\* The critical section of the store.
Commit(w) ==
  /\ pc[w] = "lock"
  /\ Ingest(TransportOf[w], Current(w), now[w])
  /\ done' = [done EXCEPT
                ![w] = Append(@, Stored(TransportOf[w], Current(w), now[w]))]
  /\ pc' = [pc EXCEPT ![w] = "publish"]
  /\ UNCHANGED <<clock, taken, request, now, accepted, feed>>

\* Worker w sends the stored event, outside the lock, and the channel becomes
\* `sent`; the next event of the request follows, or the answer.
PublishAs(w, sent) ==
  /\ pc[w] = "publish"
  /\ feed' = sent
  /\ pc' = [pc EXCEPT ![w] =
              IF Len(done[w]) = Len(request[w]) THEN "answer" ELSE "clock"]
  /\ UNCHANGED <<storageVars, clock, taken, request, now, done, accepted>>

\* Faulty variants: the feed is filled from the wrong end; the event is stamped
\* again when it is published; only the last event of a batch is published.
PublishInFront(w) == PublishAs(w, <<done[w][Len(done[w])]>> \o feed)
PublishRestamped(w) ==
  PublishAs(w, Append(feed, [done[w][Len(done[w])] EXCEPT !.received_at_ms = clock]))
PublishLastOnly(w) ==
  PublishAs(w, IF Len(done[w]) = Len(request[w])
                 THEN Append(feed, done[w][Len(done[w])]) ELSE feed)

\* The event just stored goes to the end of the feed.
Publish(w) == PublishAs(w, Append(feed, done[w][Len(done[w])]))

\* The transport answers, or fails to: the handler takes no notice.
Answer(w) ==
  /\ pc[w] = "answer"
  /\ pc' = [pc EXCEPT ![w] = "idle"]
  /\ request' = [request EXCEPT ![w] = << >>]
  /\ done' = [done EXCEPT ![w] = << >>]
  /\ now' = [now EXCEPT ![w] = 0]
  /\ accepted' = [accepted EXCEPT ![w] = FALSE]
  /\ UNCHANGED <<storageVars, clock, taken, feed>>

\* The system time that now_ms reads goes on, or is set, back too.
Tick ==
  /\ \E t \in 0 .. MaxClock : clock' = t
  /\ UNCHANGED <<storageVars, taken, workVars, feed>>

Work(w) == ReadClock(w) \/ Commit(w) \/ Publish(w) \/ Answer(w)

AppNext ==
  \/ \E w \in Workers, p \in Payloads : IngestJson(w, p)
  \/ \E w \in Workers, e \in Inputs : RegisterAgent(w, e)
  \/ \E w \in Workers : Work(w)
  \/ Tick

\* A handler is straight-line code that holds the mutex for a bounded time.
AppSpec ==
  AppInit /\ [][AppNext]_vars /\ \A w \in Workers : WF_vars(Work(w))
-----------------------------------------------------------------------------
(***************************************************************************)
(* What the write path promises its clients.                               *)
(***************************************************************************)

\* The handlers' variables hold what they should (state.rs:16-22).
AppTypeOK ==
  /\ clock \in 0 .. MaxClock
  /\ taken \in 0 .. MaxRequests
  /\ pc \in [Workers -> {"idle", "clock", "lock", "publish", "answer"}]
  /\ request \in [Workers -> Seq(Inputs)]
  /\ now \in [Workers -> 0 .. MaxClock]
  /\ done \in [Workers -> Seq(StoredEvent)]
  /\ accepted \in [Workers -> BOOLEAN]
  /\ feed \in Seq(StoredEvent)

\* All or nothing: when an answer is due, Ok means that every event of the
\* payload is stored, in the payload's order and under growing numbers, and is
\* already on the feed; an error means that none was (state.rs:47-49, 82-93).
\* It takes the dry run: without it the first events of a batch are stored
\* when a later one turns out to be invalid.
AnswersAreTrue ==
  \A w \in Workers : pc[w] = "answer" =>
    IF accepted[w]
      THEN /\ Len(done[w]) = Len(request[w])
           /\ \A i \in DOMAIN done[w] :
                /\ done[w][i].event = request[w][i]
                /\ done[w][i].seq <= seq
                /\ \E j \in DOMAIN feed : feed[j] = done[w][i]
                /\ \A j \in 1 .. i - 1 : done[w][j].seq < done[w][i].seq
      ELSE done[w] = << >>

\* Handlers that race put their events on the feed in any order, but the events
\* of one payload keep theirs (state.rs:90-93).
FeedKeepsRequestOrder ==
  \A w \in Workers : \A i, j \in DOMAIN feed :
    \A m, n \in DOMAIN done[w] :
      feed[i] = done[w][m] /\ feed[j] = done[w][n] /\ m < n => i < j

\* What the feed showed is what the store answers for the same number, as long
\* as the store remembers it (state.rs:36-42, storage.rs:287).
FeedMatchesStore ==
  \A i \in DOMAIN feed :
    feed[i].seq \in DOMAIN recent => feed[i] = recent[feed[i].seq].val

\* Numbers are handed out once: the events on the feed and those about to be
\* put there are exactly the numbers up to seq, each with one event
\* (storage.rs:189-190, state.rs:37-42).
Unpublished == {w \in Workers : pc[w] = "publish"}
LastDone(w) == done[w][Len(done[w])]
Accounted == {feed[i] : i \in DOMAIN feed} \cup {LastDone(w) : w \in Unpublished}

EveryNumberIsOneEvent ==
  /\ {s.seq : s \in Accounted} = 1 .. seq
  /\ Len(feed) + Cardinality(Unpublished) = seq

\* The write path implements the log (state.rs:34-42): the log is what is
\* accounted for, by number, and the feed is what has been published.  With
\* fair handlers, nothing stored is kept from the feed for ever.
TheLog == [n \in 1 .. seq |-> CHOOSE s \in Accounted : s.seq = n]

Log == INSTANCE EventLog WITH
  Numbers <- 1 .. MaxSeq,
  Entries <- [seq : 1 .. MaxSeq, received_at_ms : Times, transport : Via,
              event : Inputs],
  log <- TheLog,
  published <- feed

ImplementsEventLog == Log!Spec

\* Every payload that is taken is answered, valid or not, whatever other handlers do
\* between its steps (state.rs:50-94, ws.rs:36-46, tcp.rs:148-154).  That the lock is
\* free in the end is part of the fairness: no section waits while it holds it.
EveryRequestIsAnswered ==
  \A w \in Workers : (pc[w] # "idle") ~> (pc[w] = "idle")

-----------------------------------------------------------------------------
(***************************************************************************)
(* What the repository says of the program and the program does not do.    *)
(***************************************************************************)

\* The points of an agent's chart are its events in ring order, which
\* chart.rs:39-40 takes to be chronological order.
RingsAreChronological ==
  \A name \in DOMAIN agents :
    LET ring == agents[name].val.events
    IN  \A i, j \in DOMAIN ring : i < j =>
          ring[i].val.received_at_ms <= ring[j].val.received_at_ms

\* The dashboard prepends each event of the feed to a table that says "newest
\* first" (ui/mod.rs:256, live.js), so the feed should run oldest first.
FeedIsOldestFirst ==
  \A i, j \in DOMAIN feed : i < j => feed[i].seq < feed[j].seq
=============================================================================
