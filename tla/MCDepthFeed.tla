----------------------------- MODULE MCDepthFeed -----------------------------
(* The instance of DepthFeed that TLC checks. *)
EXTENDS DepthFeed, TLC
==============================================================================
