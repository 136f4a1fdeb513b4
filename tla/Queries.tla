------------------------------ MODULE Queries --------------------------------
(***************************************************************************)
(* The read side of LruStorage (src/storage.rs:291-369): what each query   *)
(* returns for a state of the store, and the task page built from one.     *)
(* A query holds the mutex while it copies, so it is a function of one     *)
(* state of Storage.  Lists come in the order the code sorts them.         *)
(***************************************************************************)
EXTENDS Storage, Sequences

\* Faulty variant: the oldest first.
AheadIfOlder(c, at, a, b) ==
  at[a] < at[b] \/ (at[a] = at[b] /\ c[a].used < c[b].used)

\* Vec::sort_by_key(Reverse(at)) over the entries of a cache in the order of
\* `iter`, most recently used first, where `at` is the time of each.  The sort
\* is stable: the order of use decides between equal times.  The i-th entry of
\* the list is the one with i - 1 others ahead of it.
Ahead(c, at, a, b) ==
  at[a] > at[b] \/ (at[a] = at[b] /\ c[a].used > c[b].used)
ByTime(c, at) ==
  [i \in 1 .. Cardinality(DOMAIN c) |->
     CHOOSE k \in DOMAIN c : Cardinality({j \in DOMAIN c : Ahead(c, at, j, k)}) = i - 1]

\* Faulty variant: the first entries.
AtMostFirst(s, limit) == SubSeq(s, 1, IF Len(s) > limit THEN limit ELSE Len(s))

\* The last entries of a sequence, at most `limit`.
AtMost(s, limit) ==
  SubSeq(s, 1 + (IF Len(s) > limit THEN Len(s) - limit ELSE 0), Len(s))

\* What a function on a finite set of numbers holds, in the order of the numbers.
Listed(f) ==
  [i \in 1 .. Cardinality(DOMAIN f) |->
     f[CHOOSE n \in DOMAIN f : Cardinality({m \in DOMAIN f : m < n}) = i - 1]]

\* A ring of events as a list: sort_by_key(seq), and the key is the number.
RingList(ring) == Listed([n \in DOMAIN ring |-> ring[n].val])

\* Storage::agents, as names; sessions(name) is the list in the snapshot.
agents_list ==
  ByTime(agents, [a \in DOMAIN agents |-> agents[a].val.snapshot.last_seen_ms])
sessions(name) ==
  LET c == agents[name].val.sessions
  IN  ByTime(c, [s \in DOMAIN c |-> c[s].val])

\* Storage::events_for and Storage::recent_events
events_for(name, limit) ==
  IF name \in DOMAIN agents THEN AtMost(RingList(agents[name].val.events), limit)
                            ELSE << >>
recent_events(limit) == AtMost(RingList(recent), limit)

\* Storage::tasks, as ids, and the flag of a task as the query reports it.
tasks_list ==
  ByTime(tasks, [t \in DOMAIN tasks |-> tasks[t].val.updated_at_ms])
reported_meta(t) == tasks[t].val.meta \/ Cardinality(tasks[t].val.agents) > 1

\* Storage::lessons: the newest first; a filter selects the topics it occurs in.
lessons_list(selected) ==
  LET kept == {n \in DOMAIN lessons : lessons[n].val.topic \in selected}
      order == ByTime([n \in kept |-> lessons[n]], [n \in kept |-> lessons[n].val.seq])
  IN  [i \in DOMAIN order |-> lessons[order[i]].val]

-----------------------------------------------------------------------------
(***************************************************************************)
(* The task page (src/ui/mod.rs:408-477).  Every task is filed under its   *)
(* parent if the parent is in the store, else among the roots; task_node   *)
(* renders a task and, recursively, what is filed under it.                *)
(***************************************************************************)

\* Faulty variant: only a task reported without a parent is a root.
OrphanByReport(t) == tasks[t].val.parent_id = None
Orphan(t) == tasks[t].val.parent_id \notin DOMAIN tasks
\* Faulty variant: where every parent is known, any task will do as a root.
rootsOrAny == LET R == {t \in DOMAIN tasks : Orphan(t)}
              IN  IF R = {} THEN DOMAIN tasks ELSE R
roots == {t \in DOMAIN tasks : Orphan(t)}
children(S) == {t \in DOMAIN tasks : tasks[t].val.parent_id \in S}

\* The tasks rendered at each depth of the recursion.
Depths == 0 .. Cardinality(DOMAIN tasks)
Rendered[d \in Nat] == IF d = 0 THEN roots ELSE children(Rendered[d - 1])

Shown == UNION {Rendered[d] : d \in Depths}

-----------------------------------------------------------------------------
(***************************************************************************)
(* Properties.                                                             *)
(***************************************************************************)

\* The recursion of task_node ends, and renders no task twice, although the
\* parents the clients report may form cycles: below the roots there are no more
\* levels than tasks, and no task is on two of them (ui/mod.rs:408-417, 453-462).
TaskPageEnds ==
  /\ Rendered[Cardinality(DOMAIN tasks)] = {}
  /\ \A d1, d2 \in Depths : d1 # d2 => Rendered[d1] \cap Rendered[d2] = {}

\* The task reached from t by going up n times, while the parents are known.
Up(t, n) ==
  LET up[i \in Nat] ==
        IF i = 0 THEN t
        ELSE IF up[i - 1] \in DOMAIN tasks THEN tasks[up[i - 1]].val.parent_id
                                           ELSE None
  IN  up[n]

\* The page leaves out only the tasks on or below a cycle: a task whose chain of
\* parents leaves the store is shown, whatever evictions did to the chain.
OnlyCyclesAreHidden ==
  \A t \in DOMAIN tasks :
    t \in Shown <=> \E n \in Depths : Up(t, n) \notin DOMAIN tasks

\* A list of the keys of a cache: none is lost, and none is repeated.
Agrees(list, c) ==
  Len(list) = Cardinality(DOMAIN c) /\ {list[i] : i \in DOMAIN list} = DOMAIN c

\* The lists agree with the caches they are made from: no entry is lost or
\* repeated by the sort, and what an event is about is listed first as soon as it
\* is stored, unless something else there has a later time, the clock having been
\* read before the lock (storage.rs:187, 291-310, 329-369).
ListsFollowTheLog ==
  /\ Agrees(agents_list, agents) /\ Agrees(tasks_list, tasks)
  /\ Agrees([i \in DOMAIN lessons_list(Topic) |-> lessons_list(Topic)[i].seq], lessons)
  /\ \A a \in DOMAIN agents : Agrees(sessions(a), agents[a].val.sessions)
  /\ \A i \in DOMAIN recent : i = seq =>
       LET e == recent[i].val.event
           now == recent[i].val.received_at_ms
       IN  /\ (\A a \in DOMAIN agents : agents[a].val.snapshot.last_seen_ms <= now)
                => agents_list[1] = e.agent
           /\ e.type = "task" /\ (\A t \in DOMAIN tasks : tasks[t].val.updated_at_ms <= now)
                => tasks_list[1] = e.task_id
           /\ e.type = "learning" => lessons_list(Topic)[1].seq = seq
           /\ e.type = "register" /\ e.session # None =>
                LET known == agents[e.agent].val.sessions
                IN  (\A o \in DOMAIN known : known[o].val <= now)
                      => sessions(e.agent)[1] = e.session

-----------------------------------------------------------------------------
\* model.rs:115 says "Tasks form trees via `parent_id`", and the task page is
\* those trees; so every task in the store should be in one.
EveryTaskIsInATree == DOMAIN tasks \subseteq Shown
=============================================================================
