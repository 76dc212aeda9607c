----------------------------- MODULE MCWireParser -----------------------------
(* WireParser for one symbol; the settings are chosen in the initial state. *)
EXTENDS WireParser
===============================================================================
