----------------------------- MODULE MCOrderActions -----------------------------
(* Model checking of OrderActions. *)
EXTENDS OrderActions, TLC

ActionSymmetry == Permutations(Orders) \cup Permutations(Requests)
================================================================================
