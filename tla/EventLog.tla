------------------------------ MODULE EventLog -------------------------------
(***************************************************************************)
(* What the write side promises, whatever the caches and the concurrency   *)
(* of the handlers: every accepted event takes the next number of an       *)
(* append-only log, keeps that number and its content, and is published to *)
(* the live feed once, sooner or later, not necessarily in number order.   *)
(***************************************************************************)
EXTENDS Naturals, Sequences

CONSTANTS
  Numbers,  \* the numbers the log can reach, from 1 on
  Entries   \* the stored events: records with at least a field seq

VARIABLES
  log,        \* the stored events: the entry at n has number n
  published   \* the entries that reached the live feed, in that order

logVars == <<log, published>>

Init == log = << >> /\ published = << >>

Accept(s) ==
  /\ s.seq = Len(log) + 1
  /\ log' = Append(log, s)
  /\ UNCHANGED published

Publish(n) ==
  /\ n \in DOMAIN log
  /\ \A i \in DOMAIN published : published[i].seq # n
  /\ published' = Append(published, log[n])
  /\ UNCHANGED log

Next == (\E s \in Entries : Accept(s)) \/ (\E n \in Numbers : Publish(n))

\* Every number is published in the end, whichever others are delayed.
Fairness == \A n \in Numbers : WF_logVars(Publish(n))

Spec == Init /\ [][Next]_logVars /\ Fairness
=============================================================================
