-------------------------------- MODULE MCFeed ---------------------------------
(***************************************************************************)
(* Events that are no more than their numbers, for checking Feed.          *)
(***************************************************************************)
EXTENDS Feed

JustNumbers == [seq : Numbers]
=============================================================================
