------------------------------- MODULE Lifecycle -------------------------------
(***************************************************************************)
(* Starting and stopping servers (src/lib.rs, src/bootstrap.rs).           *)
(*                                                                         *)
(* start binds three sockets one after another, hands each to a task of    *)
(* its own and returns a handle that holds the tasks.  The owner of the    *)
(* handle may abort them, drop the handle, or wait, which takes the tasks  *)
(* out of the handle; the wait may be cancelled, and the process may die.  *)
(* Servers may be configured with the same addresses, as a server and its  *)
(* successor are.                                                          *)
(***************************************************************************)
EXTENDS Naturals, Sequences

CONSTANTS
  Servers,  \* the calls of start
  Addr,     \* addresses; those of TCP and UDP sockets are different ones
  AddrOf    \* how each server is configured

\* The listeners in the order start binds them.
Order == <<"http", "tcp", "udp">>
Listeners == {Order[i] : i \in DOMAIN Order}

ASSUME LifecycleAssumption == AddrOf \in [Servers -> [Listeners -> Addr]]

VARIABLES
  phase,   \* how far a server is: see Phases
  bound,   \* the listeners whose sockets are open
  task,    \* the task of each listener
  tasks,   \* the listeners whose tasks are in the handle
  joined   \* how many tasks wait has seen end

lifeVars == <<phase, bound, task, tasks, joined>>

\* "binding" and "failed" are start's, "held" and "waiting" the handle's; the
\* rest are its ends: wait returned or was cancelled, the handle was dropped,
\* the process died.
Phases == {"new", "binding", "failed", "held", "waiting",
           "returned", "cancelled", "dropped", "dead"}

LifeInit ==
  /\ phase = [s \in Servers |-> "new"]
  /\ bound = [s \in Servers |-> {}]
  /\ task = [s \in Servers |-> [l \in Listeners |-> "none"]]
  /\ tasks = [s \in Servers |-> {}]
  /\ joined = [s \in Servers |-> 0]

Taken(a) == \E s \in Servers : \E l \in bound[s] : AddrOf[s][l] = a

\* start is about to bind the i-th socket.
NextToBind(s, i) ==
  Order[i] \notin bound[s] /\ \A j \in 1 .. i - 1 : Order[j] \in bound[s]

\* run parses the configuration and calls start.
Start(s) ==
  /\ phase[s] = "new"
  /\ phase' = [phase EXCEPT ![s] = "binding"]
  /\ UNCHANGED <<bound, task, tasks, joined>>

\* Faulty variant: each listener is spawned as soon as it is bound.
BindAndSpawn(s) ==
  /\ phase[s] = "binding"
  /\ \E i \in DOMAIN Order :
       /\ NextToBind(s, i)
       /\ ~Taken(AddrOf[s][Order[i]])
       /\ bound' = [bound EXCEPT ![s] = @ \cup {Order[i]}]
       /\ task' = [task EXCEPT ![s][Order[i]] = "running"]
  /\ UNCHANGED <<phase, tasks, joined>>

\* The next bind succeeds.
Bind(s) ==
  /\ phase[s] = "binding"
  /\ \E i \in DOMAIN Order :
       /\ NextToBind(s, i)
       /\ ~Taken(AddrOf[s][Order[i]])
       /\ bound' = [bound EXCEPT ![s] = @ \cup {Order[i]}]
  /\ UNCHANGED <<phase, task, tasks, joined>>

\* A bind or a local_addr fails, or the caller drops the future of start: the
\* sockets that no task has taken over are closed.
StartFails(s) ==
  /\ phase[s] = "binding"
  /\ phase' = [phase EXCEPT ![s] = "failed"]
  /\ bound' = [bound EXCEPT ![s] = {l \in @ : task[s][l] # "none"}]
  /\ UNCHANGED <<task, tasks, joined>>

\* Faulty variant: the UDP listener is left out.
SpawnTwo(s) ==
  /\ phase[s] = "binding" /\ bound[s] = Listeners
  /\ phase' = [phase EXCEPT ![s] = "held"]
  /\ task' = [task EXCEPT ![s] = [l \in Listeners |-> IF l = "udp" THEN "none" ELSE "running"]]
  /\ tasks' = [tasks EXCEPT ![s] = Listeners]
  /\ UNCHANGED <<bound, joined>>

\* With three sockets bound, start spawns the tasks and returns the handle.
Spawn(s) ==
  /\ phase[s] = "binding" /\ bound[s] = Listeners
  /\ phase' = [phase EXCEPT ![s] = "held"]
  /\ task' = [task EXCEPT ![s] = [l \in Listeners |-> "running"]]
  /\ tasks' = [tasks EXCEPT ![s] = Listeners]
  /\ UNCHANGED <<bound, joined>>

\* Faulty variant: only the first task is aborted.
abortedFirst(s) ==
  [l \in Listeners |->
     IF l \in tasks[s] \cap {Order[1]} /\ task[s][l] = "running"
       THEN "aborted" ELSE task[s][l]]

\* What aborting the tasks of the handle makes of them.
aborted(s) ==
  [l \in Listeners |->
     IF l \in tasks[s] /\ task[s][l] = "running"
       THEN "aborted" ELSE task[s][l]]

Abort(s) ==
  /\ phase[s] = "held"
  /\ task' = [task EXCEPT ![s] = aborted(s)]
  /\ UNCHANGED <<phase, bound, tasks, joined>>

\* The handle is dropped, and with it a wait that never ran.
Drop(s) ==
  /\ phase[s] = "held"
  /\ phase' = [phase EXCEPT ![s] = "dropped"]
  /\ task' = [task EXCEPT ![s] = aborted(s)]
  /\ UNCHANGED <<bound, tasks, joined>>

\* wait begins: mem::take leaves an empty Vec in the handle.
Wait(s) ==
  /\ phase[s] = "held"
  /\ phase' = [phase EXCEPT ![s] = "waiting"]
  /\ tasks' = [tasks EXCEPT ![s] = {}]
  /\ UNCHANGED <<bound, task, joined>>

\* wait awaits the tasks one after another.
Join(s) ==
  /\ phase[s] = "waiting" /\ joined[s] < Len(Order)
  /\ task[s][Order[joined[s] + 1]] = "ended"
  /\ joined' = [joined EXCEPT ![s] = @ + 1]
  /\ UNCHANGED <<phase, bound, task, tasks>>

\* Faulty variant: wait is over with the first task.
ReturnAtOnce(s) ==
  /\ phase[s] = "waiting" /\ joined[s] > 0
  /\ phase' = [phase EXCEPT ![s] = "returned"]
  /\ task' = [task EXCEPT ![s] = aborted(s)]
  /\ UNCHANGED <<bound, tasks, joined>>

\* wait returns or is cancelled.  The handle is dropped, the tasks that wait had
\* taken are detached.
Return(s) ==
  /\ phase[s] = "waiting" /\ joined[s] = Len(Order)
  /\ phase' = [phase EXCEPT ![s] = "returned"]
  /\ task' = [task EXCEPT ![s] = aborted(s)]
  /\ UNCHANGED <<bound, tasks, joined>>

CancelWait(s) ==
  /\ phase[s] = "waiting"
  /\ phase' = [phase EXCEPT ![s] = "cancelled"]
  /\ task' = [task EXCEPT ![s] = aborted(s)]
  /\ UNCHANGED <<bound, tasks, joined>>

\* A task ends and its socket is closed: an aborted one at its next await, the
\* HTTP server also with an error.
End(s, l) ==
  /\ \/ task[s][l] = "aborted"
     \/ l = "http" /\ task[s][l] = "running"
  /\ task' = [task EXCEPT ![s][l] = "ended"]
  /\ bound' = [bound EXCEPT ![s] = @ \ {l}]
  /\ UNCHANGED <<phase, tasks, joined>>

\* The process of the server is killed, and all of it is gone.
Kill(s) ==
  /\ phase[s] \notin {"new", "dead"}
  /\ phase' = [phase EXCEPT ![s] = "dead"]
  /\ bound' = [bound EXCEPT ![s] = {}]
  /\ task' = [task EXCEPT ![s] = [l \in Listeners |-> "ended"]]
  /\ tasks' = [tasks EXCEPT ![s] = {}]
  /\ UNCHANGED joined

LifeNext ==
  \E s \in Servers :
    \/ Start(s) \/ Bind(s) \/ StartFails(s) \/ Spawn(s)
    \/ Abort(s) \/ Drop(s) \/ Wait(s) \/ Join(s) \/ Return(s) \/ CancelWait(s)
    \/ \E l \in Listeners : End(s, l)
    \/ Kill(s)

\* A task that was aborted gets to its next await.
AbortedTasksEnd ==
  \A s \in Servers, l \in Listeners :
    WF_lifeVars(task[s][l] = "aborted" /\ End(s, l))

LifeSpec == LifeInit /\ [][LifeNext]_lifeVars /\ AbortedTasksEnd
-----------------------------------------------------------------------------
\* The variables hold what they should (lib.rs:44-51).
LifeTypeOK ==
  /\ phase \in [Servers -> Phases]
  /\ bound \in [Servers -> SUBSET Listeners]
  /\ task \in [Servers -> [Listeners -> {"none", "running", "aborted", "ended"}]]
  /\ tasks \in [Servers -> {{}, Listeners}]
  /\ joined \in [Servers -> 0 .. Len(Order)]

\* A server is started as a whole or not at all.  Until start returns no task runs,
\* and a start that fails, at whichever socket, leaves neither a task nor a socket
\* behind.  From then on every listener has had its task, and has its socket exactly
\* as long as the task has not ended; the TCP and the UDP listener serve together,
\* until both are aborted or the process dies, and the HTTP server not without them,
\* although it may end alone (lib.rs:84-130).
StartIsAllOrNothing ==
  \A s \in Servers :
    IF phase[s] \in {"new", "binding", "failed"}
      THEN /\ \A l \in Listeners : task[s][l] = "none"
           /\ phase[s] # "binding" => bound[s] = {}
      ELSE /\ \A l \in Listeners : task[s][l] # "none"
           /\ bound[s] = {l \in Listeners : task[s][l] \in {"running", "aborted"}}
           /\ task[s]["tcp"] = "running" <=> task[s]["udp"] = "running"
           /\ task[s]["http"] = "running" => task[s]["tcp"] = "running"

\* A listener runs on without an owner only after a wait that was cancelled: its
\* Drop finds an empty Vec.  Nothing else leaves one behind, and wait does not
\* return before the last has ended (lib.rs:54-73).
OnlyCancelledWaitsOrphan ==
  \A s \in Servers : \A l \in Listeners :
    /\ task[s][l] = "running" => phase[s] \in {"held", "waiting", "cancelled"}
    /\ phase[s] = "returned" => task[s][l] = "ended"

\* A server that is dropped gives its addresses back: its successor can bind them
\* (lib.rs:61-73).
DroppedServersCloseTheirSockets ==
  \A s \in Servers : phase[s] = "dropped" ~> bound[s] = {}
=============================================================================
