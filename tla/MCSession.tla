------------------------------ MODULE MCSession ------------------------------
(***************************************************************************)
(* Every script of up to MaxScript messages, for checking Session.         *)
(***************************************************************************)
EXTENDS Session

CONSTANT MaxScript   \* bound: the longest script

AllScripts ==
  UNION {[1 .. n -> TcpKinds] \cup [1 .. n -> WebsocketKinds] : n \in 0 .. MaxScript}
=============================================================================
