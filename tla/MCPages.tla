------------------------------- MODULE MCPages -------------------------------
(***************************************************************************)
(* Agents' reports, for checking Pages and Chart.                          *)
(***************************************************************************)
EXTENDS Chart

beat(a) == [type |-> "heartbeat", agent |-> a]
rate(a, c) == [type |-> "metacognition", agent |-> a, confidence |-> c,
               strategy |-> None, reflection |-> FALSE]

\* Reports and strategies of one agent in any order of the times, and two others
\* for whom the first is forgotten.
PagesInputs == {beat("a2"), beat("a3"), rate("a1", 40), rate("a1", 100),
                [rate("a1", None) EXCEPT !.strategy = "s1"]}
ThreeTimes == {0, 1, 10}
=============================================================================
