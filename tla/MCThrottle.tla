------------------------------ MODULE MCThrottle ------------------------------
(* Model checking of Throttle: a few seconds of a clock whose real time is   *)
(* ahead by Offset; quotas that expire in the past, soon and late.           *)
EXTENDS Throttle

MCRemains == {0, 1}
MCExpires == {0, 3, 8, 13}
===============================================================================
