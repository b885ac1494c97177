----------------------------- MODULE MCLiveFeed -----------------------------
(* Instances of LiveFeed for TLC: all constants are numbers. *)
EXTENDS LiveFeed
=============================================================================
