---------------------------- MODULE MCSubscriptions ----------------------------
(* Model checking of Subscriptions: a download lists one or two symbols, clients  *)
(* subscribe up to two, repeats included.                                         *)
EXTENDS Subscriptions

CONSTANT Halting  \* the symbols whose trading the exchange may disable

MCLists == UNION {[1..n -> Symbol] : n \in 0..2}

MCItem(s, o, e) == [symbol |-> s, online |-> o, enabled |-> e]
MCDownloads ==
    {<<MCItem(s, o, TRUE)>> : s \in Symbol, o \in BOOLEAN}
    \cup {<<MCItem(s, TRUE, FALSE)>> : s \in Halting}
    \cup {<<MCItem(p[1], TRUE, TRUE), MCItem(p[2], TRUE, TRUE)>> :
              p \in {q \in Symbol \X Symbol : q[1] # q[2]}}
================================================================================
