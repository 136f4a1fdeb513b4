----------------------------- MODULE MCAppState ------------------------------
(***************************************************************************)
(* Handlers and payloads for checking AppState.                            *)
(***************************************************************************)
EXTENDS AppState

beat(a) == [type |-> "heartbeat", agent |-> a]
reg(a, p) == [type |-> "register", agent |-> a, provider |-> p, session |-> None]
task(a, n) == [type |-> "task", agent |-> a, task_id |-> "t1",
               parent_id |-> None, percent |-> n, meta |-> FALSE]

\* Events that are valid and events that are not, over both routes.
MixedInputs == {beat("a1"), task("a2", 50), task("a2", 101),
                reg("a1", "claude"), reg(Blank, "other")}

\* Single events, batches of two, a batch whose second event is invalid, an
\* empty batch, a batch that is too long, and a payload that does not parse.
MixedPayloads ==
  {<<beat("a1")>>, <<beat("a1"), task("a2", 50)>>,
   <<task("a2", 50), task("a2", 101)>>, << >>,
   <<beat("a1"), beat("a1"), beat("a1")>>, Malformed}

\* An HTTP client and a TCP connection.
HttpAndTcp == [w \in Workers |-> IF w = "api" THEN "http" ELSE "tcp"]
Clock == 0 .. MaxClock

BeatInputs == {beat("a1")}
BeatPayloads == {<<beat("a1")>>}
=============================================================================
