-------------------------------- MODULE Session --------------------------------
(***************************************************************************)
(* A client that streams events over one connection, to a raw TCP          *)
(* connection (src/ingest/tcp.rs) or an ingest WebSocket                   *)
(* (src/ingest/ws.rs).  Both sessions take one message, answer it, and     *)
(* only then take the next.  The sockets hold a bounded amount each way: a *)
(* session that cannot write its answer does not read either.              *)
(*                                                                         *)
(* The client pipelines: it writes, without reading, until Window of its   *)
(* messages are unanswered or it has nothing left to write.                *)
(***************************************************************************)
EXTENDS Naturals, Sequences, FiniteSets

CONSTANTS
  Scripts,      \* the messages a client may send, in their order
  UpCapacity,   \* bound: the messages its socket holds
  DownCapacity, \* bound: the answers the session's socket holds
  MaxWindow     \* bound: the widest window

\* What a message is to a session: JSON of events, a payload that ingest_json
\* refuses or that is not UTF-8, a ping, one that calls for no answer (a blank
\* line, a binary frame, a pong), a line that is too large, or the end: a Close,
\* an error of recv, the end of the stream.
TcpKinds == {"events", "refused", "silent", "too_large", "close"}
WebsocketKinds == {"events", "refused", "ping", "silent", "close"}

ASSUME SessionAssumption ==
  /\ Scripts \subseteq Seq(TcpKinds) \cup Seq(WebsocketKinds)
  /\ UpCapacity \in Nat \ {0} /\ DownCapacity \in Nat \ {0} /\ MaxWindow \in Nat

VARIABLES
  script,   \* what this client sends
  window,   \* how many unanswered messages it allows itself
  sent,     \* how many messages it has written
  taken,    \* how many of those the session has taken
  pending,  \* the messages whose answer the session is about to write
  down,     \* the messages whose answers are in the socket
  heard,    \* the messages whose answers the client has read
  session   \* "open", "closed" or "lost"

vars == <<script, window, sent, taken, pending, down, heard, session>>

SessionInit ==
  /\ script \in Scripts
  /\ window \in 1 .. MaxWindow
  /\ sent = 0 /\ taken = 0
  /\ pending = << >> /\ down = << >> /\ heard = << >>
  /\ session = "open"

\* The messages to which a client expects an answer, as the protocol has it.
Expects(kind) == kind \notin {"silent", "close"}
Asked(n) == {i \in 1 .. n : Expects(script[i])}
Unanswered == Cardinality(Asked(sent)) - Len(heard)
Writing == sent < Len(script) /\ Unanswered < window

\* The client writes if there is room, and waits there if there is none.
ClientWrites ==
  /\ session = "open" /\ Writing
  /\ sent - taken < UpCapacity
  /\ sent' = sent + 1
  /\ UNCHANGED <<script, window, taken, pending, down, heard, session>>

ClientReads ==
  /\ ~Writing
  /\ down # << >>
  /\ heard' = Append(heard, Head(down))
  /\ down' = Tail(down)
  /\ UNCHANGED <<script, window, sent, taken, pending, session>>

\* Faulty variants: a session also acknowledges what calls for no answer; it
\* answers no ping.
AnsweredAll(kind) == kind # "close"
AnsweredEvents(kind) == kind \in {"events", "refused", "too_large"}

\* The messages a session answers, and those after which it ends.
Answered(kind) == kind \in {"events", "refused", "ping", "too_large"}
Final(kind) == kind \in {"too_large", "close"}

\* The session takes the next message, and whether it goes on with it is `state`.
TakeAs(state) ==
  /\ session = "open" /\ pending = << >>
  /\ taken < sent
  /\ taken' = taken + 1
  /\ pending' = IF Answered(script[taken']) THEN <<taken'>> ELSE << >>
  /\ session' = state
  /\ UNCHANGED <<script, window, sent, down, heard>>

\* Faulty variant: the session ends before its last answer is written.
TakeAndEnd == TakeAs(IF Final(script[taken + 1]) THEN "closed" ELSE "open")

\* recv, or read_bounded_line, when the last answer is written.
Take ==
  LET kind == script[taken + 1]
  IN  TakeAs(IF Final(kind) /\ ~Answered(kind) THEN "closed" ELSE "open")

\* send, or write_ack, when there is room for the answer.
Reply ==
  /\ session = "open" /\ pending # << >>
  /\ Len(down) < DownCapacity
  /\ down' = down \o pending
  /\ pending' = << >>
  /\ session' = IF Final(script[taken]) THEN "closed" ELSE "open"
  /\ UNCHANGED <<script, window, sent, taken, heard>>

\* The connection breaks, or it is reset because the session closed it with bytes
\* unread: whole messages, or the rest of one that was too large.  What is in the
\* sockets is lost, the last answer too.
Break ==
  /\ session # "lost"
  /\ session' = "lost"
  /\ pending' = << >> /\ down' = << >>
  /\ UNCHANGED <<script, window, sent, taken, heard>>

SessionNext == ClientWrites \/ ClientReads \/ Take \/ Reply \/ Break

\* The session's task runs on, and so does the client.
SessionSpec ==
  /\ SessionInit /\ [][SessionNext]_vars
  /\ WF_vars(Take \/ Reply) /\ WF_vars(ClientWrites \/ ClientReads)
-----------------------------------------------------------------------------
\* The variables hold what they should; a session holds one answer at most
\* (ws.rs:30-57, tcp.rs:114-155).
SessionTypeOK ==
  /\ script \in Scripts
  /\ window \in 1 .. MaxWindow
  /\ sent \in 0 .. Len(script)
  /\ taken \in 0 .. sent
  /\ pending \in Seq(1 .. taken) /\ Len(pending) <= 1
  /\ down \in Seq(1 .. taken) /\ Len(down) <= DownCapacity
  /\ heard \in Seq(1 .. taken)
  /\ session \in {"open", "closed", "lost"}

\* The n-th answer a client reads is the answer to the n-th of its messages that
\* call for one, however far it writes ahead; and unless the connection was lost
\* every message that was taken has its answer, on the way or about to be written.
\* Of what was stored, a client whose connection is lost so lacks the answers that
\* were in the sockets and at most one more (ws.rs:36-54, tcp.rs:117-154).
Answers == heard \o down \o IF session = "open" THEN pending ELSE << >>

AnswersFollowTheMessages ==
  /\ \A i \in DOMAIN Answers :
       /\ Answers[i] \in Asked(taken)
       /\ Cardinality(Asked(Answers[i])) = i
  /\ session # "lost" => Len(Answers) = Cardinality(Asked(taken))

\* Both sides wait for each other: the client to write, the session to answer.
Stuck ==
  /\ session = "open" /\ Writing
  /\ sent - taken >= UpCapacity
  /\ pending # << >> /\ Len(down) >= DownCapacity

\* Only a client whose window is wider than what the session's socket holds, and
\* the one answer the session holds, can come to that (tcp.rs:152, ws.rs:44).
OnlyGreedyClientsGetStuck == Stuck => window > DownCapacity + 1

\* Any other client has all its messages taken and all its answers, unless the
\* connection ends before (tcp.rs:116-155, ws.rs:31-56).
AllAnswered ==
  sent = Len(script) /\ Len(heard) = Cardinality(Asked(Len(script)))

ModestClientsAreServed ==
  window <= DownCapacity + 1 => <>(AllAnswered \/ session # "open")
=============================================================================
