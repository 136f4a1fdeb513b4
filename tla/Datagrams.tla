------------------------------- MODULE Datagrams -------------------------------
(***************************************************************************)
(* The UDP transport (src/ingest/udp.rs): the loop that is the third       *)
(* listener of a server, the clients that send it events, and a network    *)
(* that loses, duplicates and reorders datagrams both ways.                *)
(*                                                                         *)
(* The loop has one buffer and serves one datagram after another: receive  *)
(* and store without a wait in between, then send the ack.  Where it waits *)
(* it can be aborted, so an event may be stored and its ack never sent.    *)
(* A client that has no answer may send its event again.                   *)
(***************************************************************************)
EXTENDS Lifecycle, FiniteSets

CONSTANTS
  Clients,   \* each has one event to report
  Refused,   \* those whose event ingest_json refuses
  Target,    \* the address they send to
  MaxCopies  \* bound: the datagrams of a behaviour, sent or duplicated

ASSUME DatagramsAssumption ==
  Refused \subseteq Clients /\ Target \in Addr /\ MaxCopies \in Nat

VARIABLES
  loop,     \* what the loop of each server awaits: "recv" or "send"
  answer,   \* the ack it has made of the datagram in its buffer
  stored,   \* what each server has stored over UDP: whose event, by number
  copies,   \* whose the datagrams so far are, sent or duplicated
  flying,   \* those of them on the way to the server
  acks,     \* the acks on the way to their clients
  told      \* the acks each client has received

udpVars == <<loop, answer, stored, copies, flying, acks, told>>
vars == <<lifeVars, udpVars>>

NoAnswer == [client |-> "nobody", server |-> "none", ok |-> FALSE, seq |-> 0]

UdpInit ==
  /\ LifeInit
  /\ loop = [s \in Servers |-> "recv"]
  /\ answer = [s \in Servers |-> NoAnswer]
  /\ stored = [s \in Servers |-> << >>]
  /\ copies = << >>
  /\ flying = {}
  /\ acks = {}
  /\ told = [c \in Clients |-> {}]

\* A client sends its event, again if it has heard nothing.
SendDatagram(c) ==
  /\ told[c] = {} /\ Len(copies) < MaxCopies
  /\ copies' = Append(copies, c)
  /\ flying' = flying \cup {Len(copies')}
  /\ UNCHANGED <<lifeVars, loop, answer, stored, acks, told>>

\* The loop runs until its task ends, also for a moment after an abort.
Running(s) == task[s]["udp"] \in {"running", "aborted"}

\* ingest_json on the datagram of client c, and the ack of the last number.
Ingested(s, c) == IF c \in Refused THEN stored[s] ELSE Append(stored[s], c)

Serve(s, c, rest) ==
  /\ Running(s) /\ loop[s] = "recv"
  /\ flying' = rest
  /\ stored' = [stored EXCEPT ![s] = Ingested(s, c)]
  /\ answer' = [answer EXCEPT ![s] =
                  [client |-> c, server |-> s, ok |-> c \notin Refused,
                   seq |-> IF c \in Refused THEN 0 ELSE Len(stored'[s])]]
  /\ loop' = [loop EXCEPT ![s] = "send"]
  /\ UNCHANGED <<lifeVars, copies, acks, told>>

\* Faulty variants: after an error of recv_from the buffer is served once more;
\* the ack goes out before the event is stored.
ReceiveStale(s) ==
  \/ /\ AddrOf[s]["udp"] = Target
     /\ \E m \in flying : Serve(s, copies[m], flying \ {m})
  \/ /\ answer[s] # NoAnswer
     /\ Serve(s, answer[s].client, flying)
ReceiveAckFirst(s) ==
  /\ AddrOf[s]["udp"] = Target /\ Running(s) /\ loop[s] = "recv"
  /\ \E m \in flying :
       /\ flying' = flying \ {m}
       /\ answer' = [answer EXCEPT ![s] =
                       [client |-> copies[m], server |-> s, ok |-> copies[m] \notin Refused,
                        seq |-> IF copies[m] \in Refused THEN 0 ELSE Len(stored[s]) + 1]]
       /\ acks' = acks \cup {answer'[s]}
  /\ loop' = [loop EXCEPT ![s] = "send"]
  /\ UNCHANGED <<lifeVars, stored, copies, told>>

\* recv_from: any datagram that has arrived.  (An error of recv_from changes
\* nothing.)
Receive(s) ==
  /\ AddrOf[s]["udp"] = Target
  /\ \E m \in flying : Serve(s, copies[m], flying \ {m})

\* send_to, best effort: the ack is on its way to the peer, or lost.
SendAck(s) ==
  /\ Running(s) /\ loop[s] = "send"
  /\ acks' \in {acks, acks \cup {answer[s]}}
  /\ loop' = [loop EXCEPT ![s] = "recv"]
  /\ UNCHANGED <<lifeVars, answer, stored, copies, flying, told>>

HearAck(c) ==
  /\ \E a \in acks :
       /\ a.client = c
       /\ told' = [told EXCEPT ![c] = @ \cup {a}]
       /\ acks' = acks \ {a}
  /\ UNCHANGED <<lifeVars, loop, answer, stored, copies, flying>>

\* The network loses a datagram, or makes another one of it.
LoseDatagram ==
  /\ \/ /\ \E m \in flying : flying' = flying \ {m}
        /\ UNCHANGED acks
     \/ /\ \E a \in acks : acks' = acks \ {a}
        /\ UNCHANGED flying
  /\ UNCHANGED <<lifeVars, loop, answer, stored, copies, told>>

Duplicate ==
  /\ Len(copies) < MaxCopies
  /\ \E m \in flying : copies' = Append(copies, copies[m])
  /\ flying' = flying \cup {Len(copies')}
  /\ UNCHANGED <<lifeVars, loop, answer, stored, acks, told>>

UdpNext ==
  \/ LifeNext /\ UNCHANGED udpVars
  \/ \E s \in Servers : Receive(s) \/ SendAck(s)
  \/ \E c \in Clients : SendDatagram(c) \/ HearAck(c)
  \/ LoseDatagram \/ Duplicate

UdpSpec == UdpInit /\ [][UdpNext]_vars /\ AbortedTasksEnd
-----------------------------------------------------------------------------
\* The variables hold what they should (udp.rs:11-33).
Ack == [client : Clients, server : Servers, ok : BOOLEAN, seq : Nat]

UdpTypeOK ==
  /\ loop \in [Servers -> {"recv", "send"}]
  /\ answer \in [Servers -> Ack \cup {NoAnswer}]
  /\ stored \in [Servers -> Seq(Clients)]
  /\ copies \in Seq(Clients)
  /\ flying \subseteq DOMAIN copies
  /\ acks \subseteq Ack
  /\ told \in [Clients -> SUBSET Ack]

\* What an ack says is so, whatever was lost, repeated or overtaken, and however
\* the server ended: ok names the number under which the server that sent it has
\* stored this client's event; an error means that it was refused, and what is
\* refused is stored nowhere (udp.rs:21-32).
AcksAreTrue ==
  /\ \A c \in Clients : \A a \in acks \cup told[c] :
       IF a.ok THEN a.seq \in DOMAIN stored[a.server]
                      /\ stored[a.server][a.seq] = a.client
               ELSE a.client \in Refused
  /\ \A c \in Clients : \A a \in told[c] : a.client = c
  /\ \A s \in Servers : \A n \in DOMAIN stored[s] : stored[s][n] \notin Refused

\* An event is stored no more often than its datagram was sent or duplicated: the
\* loop serves no datagram twice, whatever goes wrong between its receipt and its
\* ack.  A client that sends only once is not stored twice unless the network
\* does it (udp.rs:13-20).
Places(c) == {p \in Servers \X DOMAIN copies :
                p[2] \in DOMAIN stored[p[1]] /\ stored[p[1]][p[2]] = c}
Arrived(c) == {m \in DOMAIN copies \ flying : copies[m] = c}

StoredOncePerDatagram ==
  /\ \A c \in Clients : Cardinality(Places(c)) <= Cardinality(Arrived(c))
  /\ \A s \in Servers : Len(stored[s]) <= Len(copies)
=============================================================================
