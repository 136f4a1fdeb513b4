------------------------------ MODULE MCStorage ------------------------------
(***************************************************************************)
(* Inputs for checking Storage and Queries: one set per group of read      *)
(* models, each with events that validation refuses.                       *)
(***************************************************************************)
EXTENDS Queries

beat(a) == [type |-> "heartbeat", agent |-> a]
reg(a, p, s) == [type |-> "register", agent |-> a, provider |-> p, session |-> s]
meta(a, c, s) == [type |-> "metacognition", agent |-> a, confidence |-> c,
                  strategy |-> s, reflection |-> FALSE]
task(a, t, p, n, m) == [type |-> "task", agent |-> a, task_id |-> t,
                        parent_id |-> p, percent |-> n, meta |-> m]
learn(a, t) == [type |-> "learning", agent |-> a, topic |-> t]

\* Agents: three names for two places, reports with and without each field.
AgentInputs ==
  {beat("a1"), beat("a2"), beat("a3"), beat(Blank),
   reg("a1", "claude", None), meta("a1", 40, None), meta("a1", None, "s1"),
   meta("a2", 100, "s2"), meta("a1", 101, None), meta("a1", None, None)}

\* Sessions and lessons: one agent, three sessions for two places, lessons of
\* two agents, an agent for whom the first is forgotten.
SessionInputs ==
  {reg("a1", "claude", "x"), reg("a1", "gemini", "y"), reg("a1", "other", "z"),
   reg("a1", "claude", None), learn("a1", "rust"), learn("a2", "prompting"),
   learn("a2", Blank)}

\* Tasks: three ids for two places, two reporters, a child that changes parent,
\* two tasks that may name each other as parent.
TaskInputs ==
  {task("a1", "t1", None, 0, FALSE), task("a2", "t1", None, 50, FALSE),
   task("a1", "t1", Blank, 100, TRUE), task("a1", "t2", "t1", 10, FALSE),
   task("a2", "t2", "t3", 20, FALSE), task("a1", "t3", "t2", 0, FALSE),
   task("a1", "t2", None, 101, FALSE), task("a1", Blank, None, 1, FALSE)}

\* Sessions and lessons, or tasks: what one run shows of either.
ReportInputs == SessionInputs \cup TaskInputs

\* Bound: the events of a behaviour are all about tasks, at one time, or none is.
\* The two meet in no cache but those of agents and recent events.
OneSubject ==
  \/ \A n \in DOMAIN recent' :
       recent'[n].val.event.type = "task" /\ recent'[n].val.received_at_ms = 0
  \/ \A n \in DOMAIN recent' : recent'[n].val.event.type # "task"

TwoTimes == 0 .. 1
OneTime == {0}
=============================================================================
