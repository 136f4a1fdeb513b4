--------------------------- MODULE MCTcpConnection ---------------------------
(***************************************************************************)
(* Every stream of up to MaxStream bytes, for checking TcpConnection.      *)
(***************************************************************************)
EXTENDS TcpConnection

CONSTANT MaxStream   \* bound: the longest stream

AllStreams == UNION {[1 .. n -> Byte] : n \in 0 .. MaxStream}
=============================================================================
