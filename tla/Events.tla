------------------------------- MODULE Events --------------------------------
(***************************************************************************)
(* The event schema of src/model.rs and its validation (`validated` in     *)
(* src/storage.rs).                                                        *)
(*                                                                         *)
(* Free text that nothing reads back into state (introspection content and *)
(* kind, reflections, titles, lesson text) is left out or is one bit; the  *)
(* status of a task is written and read exactly as its percent is, which   *)
(* stands for both.  Blank is a string that trims to the empty string.     *)
(***************************************************************************)
EXTENDS Integers

CONSTANTS
  AgentName,   \* agent names that are not blank
  TaskId,      \* task ids that are not blank
  Topic,       \* lesson topics that are not blank
  Session,     \* session identifiers
  Strategy,    \* strategy names
  Blank,       \* a name, id or topic that is empty after trim()
  None         \* Option::None

ASSUME EventsAssumption ==
  /\ Blank \notin AgentName \cup TaskId \cup Topic
  /\ None \notin TaskId \cup {Blank} \cup Session \cup Strategy \cup Int

Provider  == {"chatgpt", "claude", "gemini", "other"}
Transport == {"http", "websocket", "tcp", "udp", "internal"}

\* Confidence is an f64 in JSON; here it is counted in percent points, so that
\* 0.0 ..= 1.0 is 0 .. 100.  percent is a u8: a larger number does not parse.
Confidence == Int \cup {None}
Percent    == 0 .. 255

AnyName == AgentName \cup {Blank}
AnyTask == TaskId \cup {Blank}

Register      == [type : {"register"}, agent : AnyName, provider : Provider,
                  session : Session \cup {None}]
Introspection == [type : {"introspection"}, agent : AnyName]
Metacognition == [type : {"metacognition"}, agent : AnyName,
                  confidence : Confidence, strategy : Strategy \cup {None},
                  reflection : BOOLEAN]
TaskReport    == [type : {"task"}, agent : AnyName, task_id : AnyTask,
                  parent_id : AnyTask \cup {None}, percent : Percent,
                  meta : BOOLEAN]
Learning      == [type : {"learning"}, agent : AnyName,
                  topic : Topic \cup {Blank}]
Heartbeat     == [type : {"heartbeat"}, agent : AnyName]

Event == Register \cup Introspection \cup Metacognition \cup TaskReport
           \cup Learning \cup Heartbeat

\* Event::agent_name: every event names an agent.
agent_name(e) == e.agent

\* Faulty variant: a blank agent name is accepted.
validatedAnyName(e) ==
  /\ e.type = "metacognition" =>
       /\ e.confidence # None => e.confidence \in 0 .. 100
       /\ e.confidence # None \/ e.strategy # None \/ e.reflection
  /\ e.type = "task" => e.task_id # Blank /\ e.percent <= 100
  /\ e.type = "learning" => e.topic # Blank

\* What the store accepts.
validated(e) ==
  /\ agent_name(e) # Blank
  /\ e.type = "metacognition" =>
       /\ e.confidence # None => e.confidence \in 0 .. 100
       /\ e.confidence # None \/ e.strategy # None \/ e.reflection
  /\ e.type = "task" => e.task_id # Blank /\ e.percent <= 100
  /\ e.type = "learning" => e.topic # Blank

\* StoredEvent: an event with its number, arrival time and transport.
StoredEvent == [seq : Nat, received_at_ms : Nat, transport : Transport,
                event : Event]
=============================================================================
