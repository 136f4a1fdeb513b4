---------------------------- MODULE Datagrams_proofs ----------------------------
(***************************************************************************)
(* What holds of servers that start and stop, for any number of them and   *)
(* any configuration, and what the UDP transport keeps to whatever the     *)
(* network does and however the servers start and end: proofs about the    *)
(* modules Lifecycle and Datagrams.                                        *)
(***************************************************************************)
EXTENDS Datagrams, FiniteSetTheorems, TLAPS

-----------------------------------------------------------------------------
(***************************************************************************)
(* The lifecycle.                                                          *)
(***************************************************************************)

LEMMA ListenersAre == /\ Listeners = {"http", "tcp", "udp"}
                      /\ DOMAIN Order = 1 .. 3 /\ Len(Order) = 3
                      /\ \A l \in Listeners : \E i \in 1 .. 3 : Order[i] = l
                      /\ \A i \in 1 .. 3 : Order[i] \in Listeners
<1>1. /\ Len(Order) = 3 /\ DOMAIN Order = 1 .. 3
      /\ Order[1] = "http" /\ Order[2] = "tcp" /\ Order[3] = "udp"
  BY DEF Order
<1>2. 1 .. 3 = {1, 2, 3}
  OBVIOUS
<1> QED
  BY <1>1, <1>2 DEF Listeners

\* Which tasks the handle holds in each phase, and what a wait has seen: the parts
\* of the invariant that the two properties rest on.
HandleHoldsTasks ==
  \A s \in Servers :
    tasks[s] = IF phase[s] \in {"held", "dropped"} THEN Listeners ELSE {}

JoinedTasksEnded ==
  \A s \in Servers :
    /\ phase[s] \in {"new", "binding", "held"} => joined[s] = 0
    /\ phase[s] = "waiting" => \A i \in 1 .. joined[s] : task[s][Order[i]] = "ended"

LifeInv ==
  LifeTypeOK /\ StartIsAllOrNothing /\ OnlyCancelledWaitsOrphan
  /\ HandleHoldsTasks /\ JoinedTasksEnded

-----------------------------------------------------------------------------
LEMMA LifeInitHolds == LifeInit => LifeInv
BY LifecycleAssumption, ListenersAre
   DEF LifeInit, LifeInv, LifeTypeOK, StartIsAllOrNothing, OnlyCancelledWaitsOrphan,
       HandleHoldsTasks, JoinedTasksEnded, Phases

\* What the invariant says of one server s.
OwnPart(s) ==
  /\ phase[s] \in {"new", "binding", "failed"} => \A l \in Listeners : task[s][l] = "none"
  /\ phase[s] \in {"new", "failed"} => bound[s] = {}
  /\ phase[s] \notin {"new", "binding", "failed"} =>
       /\ \A l \in Listeners : task[s][l] # "none"
       /\ bound[s] = {l \in Listeners : task[s][l] \in {"running", "aborted"}}
       /\ task[s]["tcp"] = "running" <=> task[s]["udp"] = "running"
       /\ task[s]["http"] = "running" => task[s]["tcp"] = "running"
  /\ \A l \in Listeners :
       /\ task[s][l] = "running" => phase[s] \in {"held", "waiting", "cancelled"}
       /\ phase[s] = "returned" => task[s][l] = "ended"
  /\ tasks[s] = IF phase[s] \in {"held", "dropped"} THEN Listeners ELSE {}
  /\ phase[s] \in {"new", "binding", "held"} => joined[s] = 0
  /\ phase[s] = "waiting" => \A i \in 1 .. joined[s] : task[s][Order[i]] = "ended"

LEMMA OwnPartHolds == LifeInv => \A s \in Servers : OwnPart(s)
BY DEF LifeInv, OwnPart, StartIsAllOrNothing, OnlyCancelledWaitsOrphan,
       HandleHoldsTasks, JoinedTasksEnded

\* Nothing but server s changes.
OnlyOf(s) ==
  \A t \in Servers \ {s} : /\ phase'[t] = phase[t] /\ bound'[t] = bound[t]
                            /\ task'[t] = task[t] /\ tasks'[t] = tasks[t]
                            /\ joined'[t] = joined[t]

LEMMA OthersKeep ==
  ASSUME LifeInv, LifeTypeOK', NEW s \in Servers, OnlyOf(s), OwnPart(s)'
  PROVE  LifeInv'
<1>1. \A t \in Servers : OwnPart(t)'
  BY OwnPartHolds DEF OnlyOf, OwnPart
<1>2. StartIsAllOrNothing'
  BY <1>1 DEF OwnPart, StartIsAllOrNothing
<1>3. OnlyCancelledWaitsOrphan'
  BY <1>1 DEF OwnPart, OnlyCancelledWaitsOrphan
<1>4. HandleHoldsTasks'
  BY <1>1 DEF OwnPart, HandleHoldsTasks
<1>5. JoinedTasksEnded'
  BY <1>1 DEF OwnPart, JoinedTasksEnded
<1> QED
  BY <1>2, <1>3, <1>4, <1>5 DEF LifeInv

\* aborted(s) touches the tasks in the handle that run, and no other.
LEMMA AbortedTasks ==
  ASSUME LifeInv, NEW s \in Servers
  PROVE  /\ aborted(s) \in [Listeners -> {"none", "running", "aborted", "ended"}]
         /\ \A l \in Listeners :
              /\ tasks[s] = {} => aborted(s)[l] = task[s][l]
              /\ tasks[s] = Listeners => aborted(s)[l] # "running"
              /\ aborted(s)[l] \in {"running", "aborted"} <=>
                   task[s][l] \in {"running", "aborted"}
              /\ aborted(s)[l] = "none" <=> task[s][l] = "none"
              /\ aborted(s)[l] = "ended" <=> task[s][l] = "ended"
              /\ aborted(s)[l] = "running" => task[s][l] = "running"
BY DEF LifeInv, LifeTypeOK, aborted

LEMMA StepKeeps ==
  ASSUME LifeInv, NEW s \in Servers,
         \/ Start(s) \/ Bind(s) \/ StartFails(s) \/ Spawn(s)
         \/ Abort(s) \/ Drop(s) \/ Wait(s) \/ Join(s) \/ Return(s) \/ CancelWait(s)
         \/ \E l \in Listeners : End(s, l)
         \/ Kill(s)
  PROVE  LifeInv'
<1> USE ListenersAre
<1>0. LifeTypeOK /\ OwnPart(s)
  BY OwnPartHolds DEF LifeInv
<1>1. CASE Start(s)
  <2>1. LifeTypeOK' /\ OnlyOf(s)
    BY <1>0, <1>1 DEF Start, OnlyOf, LifeTypeOK, Phases
  <2>2. OwnPart(s)'
    BY <1>0, <1>1 DEF Start, OwnPart, LifeTypeOK
  <2> QED
    BY <2>1, <2>2, OthersKeep
<1>11. CASE Bind(s)
  <2>1. /\ phase[s] = "binding" /\ UNCHANGED <<phase, task, tasks, joined>>
        /\ \E i \in DOMAIN Order : bound' = [bound EXCEPT ![s] = @ \cup {Order[i]}]
    BY <1>11 DEF Bind
  <2>2. LifeTypeOK' /\ OnlyOf(s)
    BY <1>0, <2>1 DEF OnlyOf, LifeTypeOK
  <2>3. OwnPart(s)'
    BY <1>0, <2>1 DEF OwnPart
  <2> QED
    BY <2>2, <2>3, OthersKeep
<1>2. CASE StartFails(s)
  <2>1. LifeTypeOK' /\ OnlyOf(s)
    BY <1>0, <1>2 DEF StartFails, OnlyOf, LifeTypeOK, Phases
  <2>2. OwnPart(s)'
    BY <1>0, <1>2 DEF StartFails, OwnPart, LifeTypeOK
  <2> QED
    BY <2>1, <2>2, OthersKeep
<1>3. CASE Spawn(s)
  <2>1. LifeTypeOK' /\ OnlyOf(s)
    BY <1>0, <1>3 DEF Spawn, OnlyOf, LifeTypeOK, Phases
  <2>2. OwnPart(s)'
    BY <1>0, <1>3 DEF Spawn, OwnPart, LifeTypeOK
  <2> QED
    BY <2>1, <2>2, OthersKeep
<1>4. CASE Abort(s)
  <2>1. LifeTypeOK' /\ OnlyOf(s)
    BY <1>0, <1>4, AbortedTasks DEF Abort, OnlyOf, LifeTypeOK, Phases
  <2>2. \A l \in Listeners : task'[s][l] = aborted(s)[l]
    BY <1>0, <1>4 DEF Abort, LifeTypeOK
  <2>3. /\ phase[s] = "held" /\ phase'[s] = "held"
        /\ UNCHANGED <<bound, tasks, joined>>
    BY <1>0, <1>4 DEF Abort, LifeTypeOK
  <2>4. \A l \in Listeners :
          /\ task'[s][l] \notin {"none", "running"}
          /\ task'[s][l] \in {"running", "aborted"} <=> task[s][l] \in {"running", "aborted"}
    BY <1>0, <2>2, <2>3, AbortedTasks DEF OwnPart
  <2>5. bound'[s] = {l \in Listeners : task'[s][l] \in {"running", "aborted"}}
    BY <1>0, <2>3, <2>4 DEF OwnPart
  <2>6. OwnPart(s)'
    BY <1>0, <2>3, <2>4, <2>5 DEF OwnPart
  <2> QED
    BY <2>1, <2>6, OthersKeep
<1>5. CASE Drop(s)
  <2>1. LifeTypeOK' /\ OnlyOf(s)
    BY <1>0, <1>5, AbortedTasks DEF Drop, OnlyOf, LifeTypeOK, Phases
  <2>2. \A l \in Listeners : task'[s][l] = aborted(s)[l]
    BY <1>0, <1>5 DEF Drop, LifeTypeOK
  <2>3. /\ phase[s] = "held" /\ phase'[s] = "dropped"
        /\ UNCHANGED <<bound, tasks, joined>>
    BY <1>0, <1>5 DEF Drop, LifeTypeOK
  <2>4. \A l \in Listeners :
          /\ task'[s][l] \notin {"none", "running"}
          /\ task'[s][l] \in {"running", "aborted"} <=> task[s][l] \in {"running", "aborted"}
    BY <1>0, <2>2, <2>3, AbortedTasks DEF OwnPart
  <2>5. bound'[s] = {l \in Listeners : task'[s][l] \in {"running", "aborted"}}
    BY <1>0, <2>3, <2>4 DEF OwnPart
  <2>6. OwnPart(s)'
    BY <1>0, <2>3, <2>4, <2>5 DEF OwnPart
  <2> QED
    BY <2>1, <2>6, OthersKeep
<1>6. CASE Wait(s)
  <2>1. LifeTypeOK' /\ OnlyOf(s)
    BY <1>0, <1>6 DEF Wait, OnlyOf, LifeTypeOK, Phases
  <2>2. OwnPart(s)'
    BY <1>0, <1>6 DEF Wait, OwnPart, LifeTypeOK
  <2> QED
    BY <2>1, <2>2, OthersKeep
<1>7. CASE Join(s)
  <2>1. LifeTypeOK' /\ OnlyOf(s)
    BY <1>0, <1>7 DEF Join, OnlyOf, LifeTypeOK, Phases
  <2>2. OwnPart(s)'
    BY <1>0, <1>7 DEF Join, OwnPart, LifeTypeOK
  <2> QED
    BY <2>1, <2>2, OthersKeep
<1>8. CASE Return(s) \/ CancelWait(s)
  <2>0. phase[s] = "waiting" /\ tasks[s] = {}
    BY <1>0, <1>8 DEF Return, CancelWait, OwnPart
  <2>1. /\ phase'[s] \in {"returned", "cancelled"} /\ phase' \in [Servers -> Phases]
        /\ \A t \in Servers \ {s} : phase'[t] = phase[t]
    BY <1>0, <1>8 DEF Return, CancelWait, LifeTypeOK, Phases
  <2>2. task' = [task EXCEPT ![s] = aborted(s)] /\ UNCHANGED <<bound, tasks, joined>>
    BY <1>8 DEF Return, CancelWait
  <2>3. task' = task
    BY <1>0, <2>0, <2>2, AbortedTasks DEF LifeTypeOK
  <2>4. phase'[s] = "returned" => \A l \in Listeners : task[s][l] = "ended"
    <3>1. CancelWait(s) => phase'[s] = "cancelled"
      BY <1>0 DEF CancelWait, LifeTypeOK
    <3>2. Return(s) => \A i \in 1 .. 3 : task[s][Order[i]] = "ended"
      BY <1>0, <2>0 DEF Return, OwnPart
    <3> QED
      BY <1>8, <3>1, <3>2
  <2>5. LifeTypeOK' /\ OnlyOf(s)
    BY <1>0, <2>1, <2>2, <2>3 DEF OnlyOf, LifeTypeOK
  <2>6. OwnPart(s)'
    BY <1>0, <2>0, <2>1, <2>2, <2>3, <2>4 DEF OwnPart
  <2> QED
    BY <2>5, <2>6, OthersKeep
<1>9. ASSUME NEW l \in Listeners, End(s, l) PROVE LifeInv'
  <2>1. LifeTypeOK' /\ OnlyOf(s)
    BY <1>0, <1>9 DEF End, OnlyOf, LifeTypeOK
  <2>2. OwnPart(s)'
    BY <1>0, <1>9 DEF End, OwnPart, LifeTypeOK
  <2> QED
    BY <2>1, <2>2, OthersKeep
<1>10. CASE Kill(s)
  <2>1. LifeTypeOK' /\ OnlyOf(s)
    BY <1>0, <1>10 DEF Kill, OnlyOf, LifeTypeOK, Phases
  <2>2. OwnPart(s)'
    BY <1>0, <1>10 DEF Kill, OwnPart, LifeTypeOK
  <2> QED
    BY <2>1, <2>2, OthersKeep
<1> QED
  BY <1>1, <1>2, <1>3, <1>4, <1>5, <1>6, <1>7, <1>8, <1>9, <1>10,
     <1>11

LEMMA LifeNextKeeps == LifeInv /\ [LifeNext]_lifeVars => LifeInv'
<1> SUFFICES ASSUME LifeInv, [LifeNext]_lifeVars PROVE LifeInv'
  OBVIOUS
<1>1. CASE UNCHANGED lifeVars
  BY <1>1 DEF lifeVars, LifeInv, LifeTypeOK, StartIsAllOrNothing,
              OnlyCancelledWaitsOrphan, HandleHoldsTasks, JoinedTasksEnded
<1>2. CASE LifeNext
  BY <1>2, StepKeeps DEF LifeNext
<1> QED
  BY <1>1, <1>2

-----------------------------------------------------------------------------
LEMMA LifeInvHolds == LifeSpec => []LifeInv
<1> QED
  BY LifeInitHolds, LifeNextKeeps, PTL DEF LifeSpec

\* For any servers at any addresses: the types,
THEOREM LifeTypeCorrect == LifeSpec => []LifeTypeOK
<1>1. LifeInv => LifeTypeOK
  BY DEF LifeInv
<1> QED
  BY <1>1, LifeInvHolds, PTL

\* that a server is started as a whole or not at all, and its listeners serve
\* together but for an HTTP server that ends alone,
THEOREM StartIsAlwaysAllOrNothing == LifeSpec => []StartIsAllOrNothing
<1>1. LifeInv => StartIsAllOrNothing
  BY DEF LifeInv
<1> QED
  BY <1>1, LifeInvHolds, PTL

\* and that only a cancelled wait leaves a listener without an owner.
THEOREM OnlyCancelledWaitsEverOrphan == LifeSpec => []OnlyCancelledWaitsOrphan
<1>1. LifeInv => OnlyCancelledWaitsOrphan
  BY DEF LifeInv
<1> QED
  BY <1>1, LifeInvHolds, PTL

-----------------------------------------------------------------------------
(***************************************************************************)
(* The datagrams.                                                          *)
(***************************************************************************)

\* What an ack says is so, by what the servers have stored.
Says(a, st) ==
  IF a.ok THEN a.seq \in DOMAIN st[a.server] /\ st[a.server][a.seq] = a.client
          ELSE a.client \in Refused

\* The ack a loop is about to send is one of them: it was made of a stored event,
\* and what is stored stays.
AnswersAreTrue ==
  \A s \in Servers : loop[s] = "send" => answer[s] \in Ack /\ Says(answer[s], stored)

AckInv == UdpTypeOK /\ AcksAreTrue /\ AnswersAreTrue

LEMMA AckInvInit == UdpInit => AckInv
BY DEF UdpInit, AckInv, UdpTypeOK, AcksAreTrue, AnswersAreTrue

\* An ack that is true stays so while the stores only grow.
LEMMA SaysStays ==
  ASSUME UdpTypeOK, NEW a \in Ack, Says(a, stored),
         \A s \in Servers : /\ DOMAIN stored[s] \subseteq DOMAIN stored'[s]
                            /\ \A n \in DOMAIN stored[s] : stored'[s][n] = stored[s][n]
  PROVE  Says(a, stored')
BY DEF Says, Ack

LEMMA AckInvReceive ==
  ASSUME AckInv, NEW s \in Servers, Receive(s)
  PROVE  AckInv'
<1>1. PICK m \in flying : Serve(s, copies[m], flying \ {m})
  BY DEF Receive
<1> DEFINE c == copies[m]
<1>2. c \in Clients /\ m \in DOMAIN copies
  BY DEF AckInv, UdpTypeOK
<1>3. /\ stored' = [stored EXCEPT ![s] = Ingested(s, c)]
      /\ Ingested(s, c) \in Seq(Clients)
      /\ stored[s] \in Seq(Clients)
  BY <1>1, <1>2 DEF Serve, Ingested, AckInv, UdpTypeOK
<1> DEFINE new == [client |-> c, server |-> s, ok |-> c \notin Refused,
                   seq |-> IF c \in Refused THEN 0 ELSE Len(stored'[s])]
<1>4. stored' \in [Servers -> Seq(Clients)] /\ stored'[s] = Ingested(s, c)
  BY <1>3 DEF AckInv, UdpTypeOK
<1>5. new \in Ack
  BY <1>2, <1>4 DEF Ack
<1>6. answer' = [answer EXCEPT ![s] = new] /\ loop' = [loop EXCEPT ![s] = "send"]
      /\ flying' = flying \ {m} /\ UNCHANGED <<copies, acks, told>>
  BY <1>1 DEF Serve
<1>7. UdpTypeOK'
  BY <1>4, <1>5, <1>6 DEF AckInv, UdpTypeOK
<1>8. \A t \in Servers : /\ DOMAIN stored[t] \subseteq DOMAIN stored'[t]
                         /\ \A n \in DOMAIN stored[t] : stored'[t][n] = stored[t][n]
  BY <1>2, <1>3, <1>4 DEF Ingested, AckInv, UdpTypeOK
<1>9. Says(new, stored')
  <2>1. CASE c \in Refused
    BY <2>1 DEF Says
  <2>2. CASE c \notin Refused
    <3>1. stored'[s] = Append(stored[s], c)
      BY <2>2, <1>4 DEF Ingested
    <3>2. Len(stored'[s]) \in DOMAIN stored'[s] /\ stored'[s][Len(stored'[s])] = c
      BY <3>1, <1>2, <1>3
    <3>3. new.ok /\ new.server = s /\ new.client = c /\ new.seq = Len(stored'[s])
      BY <2>2
    <3> QED
      BY <3>2, <3>3 DEF Says
  <2> QED
    BY <2>1, <2>2
<1> HIDE DEF new
<1>10. \A a \in Ack : Says(a, stored) => Says(a, stored')
  BY <1>8, SaysStays DEF AckInv
<1>11. AnswersAreTrue'
  <2>1. answer'[s] = new
    BY <1>6 DEF AckInv, UdpTypeOK
  <2>2. ASSUME NEW t \in Servers \ {s}, loop'[t] = "send"
        PROVE  answer'[t] \in Ack /\ Says(answer'[t], stored')
    <3>1. answer'[t] = answer[t] /\ loop'[t] = loop[t]
      BY <1>6 DEF AckInv, UdpTypeOK
    <3> QED
      BY <3>1, <2>2, <1>10 DEF AckInv, AnswersAreTrue
  <2> QED
    BY <2>1, <2>2, <1>5, <1>9 DEF AnswersAreTrue
<1>12. AcksAreTrue'
  <2>1. \A d \in Clients : \A a \in acks \cup told[d] : a \in Ack /\ Says(a, stored)
    BY DEF AckInv, AcksAreTrue, UdpTypeOK, Says
  <2>2. \A t \in Servers : \A n \in DOMAIN stored'[t] : stored'[t][n] \notin Refused
    BY <1>2, <1>3, <1>4 DEF Ingested, AckInv, AcksAreTrue, UdpTypeOK
  <2> QED
    BY <1>6, <1>10, <2>1, <2>2 DEF AckInv, AcksAreTrue, Says
<1> QED
  BY <1>7, <1>11, <1>12 DEF AckInv

LEMMA AckInvNext == AckInv /\ [UdpNext]_vars => AckInv'
<1> SUFFICES ASSUME AckInv, [UdpNext]_vars PROVE AckInv'
  OBVIOUS
<1> USE DEF AckInv
<1>1. CASE UNCHANGED udpVars
  BY <1>1 DEF udpVars, UdpTypeOK, AcksAreTrue, AnswersAreTrue, Says
<1>2. ASSUME NEW s \in Servers, SendAck(s) PROVE AckInv'
  <2>1. answer[s] \in Ack /\ Says(answer[s], stored)
    BY <1>2 DEF SendAck, AnswersAreTrue
  <2>2. \A a \in acks' : a \in acks \/ a = answer[s]
    BY <1>2 DEF SendAck
  <2>3. UdpTypeOK'
    BY <1>2, <2>1 DEF SendAck, UdpTypeOK
  <2>4. UNCHANGED <<answer, stored, told>> /\ \A t \in Servers : loop'[t] = "send" => loop[t] = "send"
    BY <1>2 DEF SendAck, UdpTypeOK
  <2>5. AcksAreTrue'
    BY <2>1, <2>2, <2>4 DEF AcksAreTrue, Says
  <2>6. AnswersAreTrue'
    BY <2>4 DEF AnswersAreTrue
  <2> QED
    BY <2>3, <2>5, <2>6
<1>3. ASSUME NEW c \in Clients, SendDatagram(c) PROVE AckInv'
  BY <1>3 DEF SendDatagram, UdpTypeOK, AcksAreTrue, AnswersAreTrue
<1>4. ASSUME NEW c \in Clients, HearAck(c) PROVE AckInv'
  <2>1. PICK a \in acks : /\ a.client = c
                         /\ told' = [told EXCEPT ![c] = @ \cup {a}]
                         /\ acks' = acks \ {a}
    BY <1>4 DEF HearAck
  <2>2. UNCHANGED <<loop, answer, stored, copies, flying>>
    BY <1>4 DEF HearAck
  <2>3. UdpTypeOK'
    BY <2>1, <2>2 DEF UdpTypeOK
  <2>4. \A d \in Clients : \A b \in told'[d] : b \in told[d] \/ (b = a /\ d = c)
    BY <2>1 DEF UdpTypeOK
  <2>5. AcksAreTrue'
    BY <2>1, <2>2, <2>4 DEF AcksAreTrue
  <2> QED
    BY <2>2, <2>3, <2>5 DEF AnswersAreTrue
<1>5. CASE LoseDatagram
  BY <1>5 DEF LoseDatagram, UdpTypeOK, AcksAreTrue, AnswersAreTrue
<1>6. CASE Duplicate
  <2>1. PICK m \in flying : copies' = Append(copies, copies[m])
    BY <1>6 DEF Duplicate
  <2>2. UNCHANGED <<loop, answer, stored, acks, told>> /\ flying' = flying \cup {Len(copies')}
    BY <1>6 DEF Duplicate
  <2>3. UdpTypeOK'
    BY <2>1, <2>2 DEF UdpTypeOK
  <2> QED
    BY <2>2, <2>3 DEF AcksAreTrue, AnswersAreTrue
<1> QED
  BY <1>1, <1>2, <1>3, <1>4, <1>5, <1>6, AckInvReceive DEF UdpNext, vars, udpVars

\* The acks are true in every behaviour, for any servers and clients and however
\* many datagrams: none is made of an event that is not stored, and no number an
\* ack has named ever comes to mean another event.
THEOREM AcksAreAlwaysTrue == UdpSpec => []AcksAreTrue
<1>1. AckInv => AcksAreTrue
  BY DEF AckInv
<1> QED
  BY <1>1, AckInvInit, AckInvNext, PTL DEF UdpSpec

\* The variables keep their types.
THEOREM UdpTypeCorrect == UdpSpec => []UdpTypeOK
<1>1. AckInv => UdpTypeOK
  BY DEF AckInv
<1> QED
  BY <1>1, AckInvInit, AckInvNext, PTL DEF UdpSpec

\* Whatever the datagrams do, the servers start and stop as Lifecycle has it: what
\* is proved of it holds of the servers and their clients together.
THEOREM UdpImplementsLifecycle == UdpSpec => LifeSpec
<1>1. UdpInit => LifeInit
  BY DEF UdpInit
<1>2. [UdpNext]_vars => [LifeNext]_lifeVars
  BY DEF UdpNext, vars, lifeVars, Receive, Serve, SendAck, SendDatagram, HearAck,
         LoseDatagram, Duplicate
<1> QED
  BY <1>1, <1>2, PTL DEF UdpSpec, LifeSpec

-----------------------------------------------------------------------------
\* The count of what is stored, against the datagrams that no longer fly.
AllArrived == DOMAIN copies \ flying

CountInv ==
  /\ \A c \in Clients : /\ IsFiniteSet(Places(c))
                        /\ Cardinality(Places(c)) <= Cardinality(Arrived(c))
  /\ \A s \in Servers : Len(stored[s]) <= Cardinality(AllArrived)

LEMMA NumbersFinite ==
  ASSUME NEW cs \in Seq(Clients), NEW S \in SUBSET DOMAIN cs
  PROVE  IsFiniteSet(S) /\ Cardinality(S) \in Nat /\ Cardinality(S) <= Len(cs)
<1> DEFINE n == Len(cs)
<1>1. n \in Nat /\ DOMAIN cs = 1 .. n
  OBVIOUS
<1> HIDE DEF n
<1>2. IsFiniteSet(1 .. n) /\ Cardinality(1 .. n) = IF 1 > n THEN 0 ELSE n - 1 + 1
  BY <1>1, FS_Interval
<1>3. Cardinality(1 .. n) = n
  BY <1>1, <1>2
<1>4. IsFiniteSet(S) /\ Cardinality(S) <= n
  BY <1>1, <1>2, <1>3, FS_Subset
<1> QED
  BY <1>4, FS_CardinalityType DEF n

LEMMA ArrivedFinite ==
  ASSUME UdpTypeOK
  PROVE  /\ IsFiniteSet(AllArrived) /\ Cardinality(AllArrived) \in Nat
         /\ Cardinality(AllArrived) <= Len(copies)
         /\ \A c : IsFiniteSet(Arrived(c)) /\ Cardinality(Arrived(c)) \in Nat
<1>1. AllArrived \in SUBSET DOMAIN copies /\ \A c : Arrived(c) \in SUBSET DOMAIN copies
  BY DEF AllArrived, Arrived
<1> QED
  BY <1>1, NumbersFinite DEF UdpTypeOK

LEMMA ArrivedFiniteNext ==
  ASSUME UdpTypeOK'
  PROVE  /\ IsFiniteSet(AllArrived') /\ Cardinality(AllArrived') \in Nat
         /\ Cardinality(AllArrived') <= Len(copies')
         /\ \A c : IsFiniteSet(Arrived(c)') /\ Cardinality(Arrived(c)') \in Nat
<1>1. /\ AllArrived' \in SUBSET DOMAIN copies'
      /\ \A c : Arrived(c)' \in SUBSET DOMAIN copies'
  BY DEF AllArrived, Arrived
<1> QED
  BY <1>1, NumbersFinite DEF UdpTypeOK

\* Nothing more is stored, and no datagram flies again: the count stays right.
LEMMA CountKeeps ==
  ASSUME UdpTypeOK, UdpTypeOK', CountInv, stored' = stored,
         \A m \in DOMAIN copies : m \in DOMAIN copies' /\ copies'[m] = copies[m],
         flying' \cap DOMAIN copies \subseteq flying
  PROVE  CountInv'
<1>1. \A s \in Servers : DOMAIN stored[s] = 1 .. Len(stored[s]) /\ Len(stored[s]) \in Nat
  BY DEF UdpTypeOK
<1>2. \A s \in Servers : DOMAIN stored[s] \subseteq DOMAIN copies
  BY <1>1, ArrivedFinite DEF CountInv, UdpTypeOK
<1>3. \A c \in Clients : Places(c)' = Places(c)
  BY <1>2 DEF Places
<1>4. AllArrived \subseteq AllArrived' /\ \A c \in Clients : Arrived(c) \subseteq Arrived(c)'
  BY DEF AllArrived, Arrived
<1>5. /\ IsFiniteSet(AllArrived') /\ Cardinality(AllArrived') \in Nat
      /\ \A c : IsFiniteSet(Arrived(c)') /\ Cardinality(Arrived(c)') \in Nat
  BY ArrivedFiniteNext
<1>6. Cardinality(AllArrived) <= Cardinality(AllArrived')
  BY <1>4, <1>5, FS_Subset
<1>7. \A c \in Clients : Cardinality(Arrived(c)) <= Cardinality(Arrived(c)')
  BY <1>4, <1>5, FS_Subset
<1>8. \A c \in Clients : Cardinality(Places(c)) \in Nat
  BY FS_CardinalityType DEF CountInv
<1>9. \A c \in Clients : Cardinality(Places(c)) <= Cardinality(Arrived(c)')
  BY <1>5, <1>7, <1>8, ArrivedFinite DEF CountInv
<1>10. \A s \in Servers : Len(stored[s]) <= Cardinality(AllArrived')
  BY <1>1, <1>5, <1>6, ArrivedFinite DEF CountInv
<1> QED
  BY <1>3, <1>9, <1>10 DEF CountInv

\* A datagram is served: what is stored grows by one event at most, in the place
\* after the last, and one datagram has arrived.
LEMMA CountReceive ==
  ASSUME AckInv, AckInv', CountInv, NEW s \in Servers, Receive(s)
  PROVE  CountInv'
<1>1. PICK m \in flying : Serve(s, copies[m], flying \ {m})
  BY DEF Receive
<1>2. m \in DOMAIN copies /\ UdpTypeOK /\ UdpTypeOK'
  BY DEF AckInv, UdpTypeOK
<1> PICK c \in Clients : c = copies[m]
  BY <1>2 DEF UdpTypeOK
<1>3. copies' = copies /\ flying' = flying \ {m}
      /\ stored' = [stored EXCEPT ![s] = Ingested(s, c)]
  BY <1>1 DEF Serve
<1>4. /\ AllArrived' = AllArrived \cup {m} /\ m \notin AllArrived
      /\ Arrived(c)' = Arrived(c) \cup {m} /\ m \notin Arrived(c)
      /\ \A d \in Clients \ {c} : Arrived(d)' = Arrived(d)
  BY <1>2, <1>3 DEF AllArrived, Arrived
<1>5. /\ Cardinality(AllArrived') = Cardinality(AllArrived) + 1
      /\ Cardinality(Arrived(c)') = Cardinality(Arrived(c)) + 1
  BY <1>2, <1>4, ArrivedFinite, FS_AddElement
<1>6. /\ \A t \in Servers \ {s} : stored'[t] = stored[t]
      /\ stored'[s] = Ingested(s, c)
      /\ \A t \in Servers : stored[t] \in Seq(Clients)
  BY <1>2, <1>3 DEF UdpTypeOK
<1>7. CASE c \in Refused
  <2>1. stored' = stored
    BY <1>2, <1>3, <1>7 DEF Ingested, UdpTypeOK
  <2> QED
    BY <1>2, <1>3, <2>1, CountKeeps
<1>8. CASE c \notin Refused
  <2> DEFINE place == <<s, Len(stored[s]) + 1>>
  <2>1. stored'[s] = Append(stored[s], c)
    BY <1>6, <1>8 DEF Ingested
  <2>2. /\ Len(stored'[s]) = Len(stored[s]) + 1 /\ Len(stored[s]) \in Nat
        /\ DOMAIN stored'[s] = DOMAIN stored[s] \cup {Len(stored[s]) + 1}
        /\ stored'[s][Len(stored[s]) + 1] = c
        /\ \A n \in DOMAIN stored[s] : stored'[s][n] = stored[s][n]
    BY <1>2, <1>6, <2>1
  <2>3. \A t \in Servers : Len(stored'[t]) <= Cardinality(AllArrived')
    <3>1. Cardinality(AllArrived) \in Nat /\ \A t \in Servers : Len(stored[t]) \in Nat
      BY <1>2, <1>6, ArrivedFinite
    <3>2. \A t \in Servers : Len(stored[t]) <= Cardinality(AllArrived)
      BY DEF CountInv
    <3>3. \A t \in Servers : Len(stored'[t]) <= Len(stored[t]) + 1
      BY <1>6, <2>2, <3>1
    <3>4. \A t \in Servers : Len(stored'[t]) \in Nat
      BY <1>2 DEF UdpTypeOK
    <3> QED
      BY <1>5, <3>1, <3>2, <3>3, <3>4
  <2>4. Places(c)' \in SUBSET (Places(c) \cup {place})
    <3> SUFFICES ASSUME NEW p \in Places(c)', p # place PROVE p \in Places(c)
      OBVIOUS
    <3>1. /\ p \in Servers \X DOMAIN copies
          /\ p[2] \in DOMAIN stored'[p[1]] /\ stored'[p[1]][p[2]] = c
      BY <1>3 DEF Places
    <3>2. p[1] = s => p[2] \in DOMAIN stored[s] /\ stored[s][p[2]] = c
      BY <3>1, <2>2
    <3> QED
      BY <1>6, <3>1, <3>2 DEF Places
  <2>5. \A d \in Clients \ {c} : Places(d)' = Places(d)
    <3> TAKE d \in Clients \ {c}
    <3>1. \A t \in Servers : \A n : n \in DOMAIN stored'[t] /\ stored'[t][n] = d
                                <=> n \in DOMAIN stored[t] /\ stored[t][n] = d
      BY <1>6, <2>2
    <3> QED
      BY <1>3, <3>1 DEF Places
  <2> HIDE DEF place
  <2>6. IsFiniteSet(Places(c)) /\ Cardinality(Places(c)) \in Nat
    BY <1>2, FS_CardinalityType DEF CountInv
  <2>7. /\ IsFiniteSet(Places(c) \cup {place})
        /\ Cardinality(Places(c) \cup {place}) <= Cardinality(Places(c)) + 1
    <3>1. Cardinality(Places(c) \cup {place})
            = IF place \in Places(c) THEN Cardinality(Places(c)) ELSE Cardinality(Places(c)) + 1
      BY <2>6, FS_AddElement
    <3> QED
      BY <2>6, <3>1, FS_AddElement
  <2>8. /\ IsFiniteSet(Places(c)')
        /\ Cardinality(Places(c)') <= Cardinality(Places(c) \cup {place})
    BY <2>4, <2>7, FS_Subset
  <2>9. Cardinality(Places(c)') \in Nat /\ Cardinality(Places(c) \cup {place}) \in Nat
    BY <2>7, <2>8, FS_CardinalityType
  <2>10. Cardinality(Places(c)') <= Cardinality(Arrived(c)')
    BY <1>2, <1>5, <2>6, <2>7, <2>8, <2>9, ArrivedFinite DEF CountInv
  <2>11. \A d \in Clients : /\ IsFiniteSet(Places(d)')
                           /\ Cardinality(Places(d)') <= Cardinality(Arrived(d)')
    <3> TAKE d \in Clients
    <3>1. CASE d = c
      BY <2>8, <2>10, <3>1
    <3>2. CASE d # c
      BY <1>4, <2>5, <3>2 DEF CountInv
    <3> QED
      BY <3>1, <3>2
  <2> QED
    BY <2>3, <2>11 DEF CountInv
<1> QED
  BY <1>7, <1>8

LEMMA CountNext == AckInv /\ AckInv' /\ CountInv /\ [UdpNext]_vars => CountInv'
<1> SUFFICES ASSUME AckInv, AckInv', CountInv, [UdpNext]_vars PROVE CountInv'
  OBVIOUS
<1>0. UdpTypeOK /\ UdpTypeOK'
  BY DEF AckInv
<1>1. CASE \E s \in Servers : Receive(s)
  BY <1>1, CountReceive
<1>2. CASE \/ UNCHANGED udpVars \/ LoseDatagram \/ \E s \in Servers : SendAck(s)
           \/ \E c \in Clients : HearAck(c)
  <2>1. stored' = stored /\ copies' = copies /\ flying' \subseteq flying
    BY <1>2 DEF udpVars, LoseDatagram, SendAck, HearAck
  <2> QED
    BY <1>0, <2>1, CountKeeps
<1>3. CASE Duplicate \/ \E c \in Clients : SendDatagram(c)
  <2>1. PICK x \in Clients : copies' = Append(copies, x)
    BY <1>0, <1>3 DEF Duplicate, SendDatagram, UdpTypeOK
  <2>2. stored' = stored /\ flying' = flying \cup {Len(copies')}
    BY <1>3 DEF Duplicate, SendDatagram
  <2>3. \A m \in DOMAIN copies : m \in DOMAIN copies' /\ copies'[m] = copies[m]
    BY <1>0, <2>1 DEF UdpTypeOK
  <2>4. Len(copies') \notin DOMAIN copies
    BY <1>0, <2>1 DEF UdpTypeOK
  <2> QED
    BY <1>0, <2>2, <2>3, <2>4, CountKeeps
<1> QED
  BY <1>1, <1>2, <1>3 DEF UdpNext, vars, udpVars

LEMMA CountInit == UdpInit => CountInv
<1> SUFFICES ASSUME UdpInit PROVE CountInv
  OBVIOUS
<1>1. UdpTypeOK
  BY AckInvInit DEF AckInv
<1>2. \A c \in Clients : Places(c) = {}
  BY DEF UdpInit, Places
<1>3. \A s \in Servers : Len(stored[s]) = 0
  BY DEF UdpInit
<1> QED
  <2>1. IsFiniteSet({}) /\ Cardinality({}) = 0
    BY FS_EmptySet
  <2>2. \A n \in Nat : 0 <= n
    OBVIOUS
  <2> QED
    BY <1>1, <1>2, <1>3, <2>1, <2>2, ArrivedFinite DEF CountInv

\* No datagram is served twice: an event is in the stores of all servers together
\* no more often than it arrived, for any number of servers, clients and datagrams.
THEOREM ServedOnce == UdpSpec => []StoredOncePerDatagram
<1>1. AckInv /\ CountInv => StoredOncePerDatagram
  <2> SUFFICES ASSUME AckInv, CountInv PROVE StoredOncePerDatagram
    OBVIOUS
  <2>1. \A s \in Servers : Len(stored[s]) \in Nat
    BY DEF AckInv, UdpTypeOK
  <2>2. Len(copies) \in Nat
    BY DEF AckInv, UdpTypeOK
  <2> QED
    BY <2>1, <2>2, ArrivedFinite DEF StoredOncePerDatagram, CountInv, AckInv
<1>2. AckInv /\ CountInv /\ [UdpNext]_vars => (AckInv /\ CountInv)'
  BY AckInvNext, CountNext
<1>3. UdpInit => AckInv /\ CountInv
  BY AckInvInit, CountInit
<1> QED
  BY <1>1, <1>2, <1>3, PTL DEF UdpSpec
=============================================================================
