----------------------------- MODULE MCDatagrams -----------------------------
(***************************************************************************)
(* A server and its successor on the same addresses, for checking          *)
(* Lifecycle and Datagrams together.                                       *)
(***************************************************************************)
EXTENDS Datagrams

SameAddresses == [s \in Servers |-> [l \in Listeners |-> l]]
=============================================================================
