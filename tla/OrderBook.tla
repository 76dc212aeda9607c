------------------------------ MODULE OrderBook ------------------------------
(***************************************************************************)
(* The book of one symbol as its readers see it.  The exchange changes its *)
(* book; what has been published is always, under the number it was        *)
(* published with, the whole book of the exchange at some time, and never  *)
(* an earlier one than was published before.                               *)
(***************************************************************************)
EXTENDS Naturals

VARIABLES
    now,   \* changes the exchange has made
    book   \* what is published: a number, and the changes it contains

vars == <<now, book>>

NoBook == [sequence |-> 0, levels |-> {}]
BookAt(n) == [sequence |-> n, levels |-> 1..n]

Init == now \in Nat \ {0} /\ book = NoBook

Change == now' = now + 1 /\ UNCHANGED book

Publish ==
    /\ \E n \in book.sequence..now : n > 0 /\ book' = BookAt(n)
    /\ UNCHANGED now

Next == Change \/ Publish

Spec == Init /\ [][Next]_vars
==============================================================================
