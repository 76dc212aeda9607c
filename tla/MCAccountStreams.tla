--------------------------- MODULE MCAccountStreams ---------------------------
(* Model checking of AccountStreams. *)
EXTENDS AccountStreams, TLC

OrderSymmetry == Permutations(Orders)
===============================================================================
