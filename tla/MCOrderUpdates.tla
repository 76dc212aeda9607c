---------------------------- MODULE MCOrderUpdates ----------------------------
(* One order, of every kind a client may ask for or another may have placed.    *)
EXTENDS OrderUpdates

\* The side takes part in no decision: one sale, and buys of every kind, post-only
\* if they have a limit (KindFor looks at nothing else of the others).
MCAsks == {ask \in AllAsks :
              \/ ask.side = "BUY" /\ (ask.maker => ask.type = "LIMIT")
              \/ ask.type = "LIMIT" /\ ask.tif = "GTC" /\ ~ask.maker}

\* The types that no ask is converted to.
MCForeign == [side : {"SELL"}, kind : {"stop_limit", "stop_limit_fok"}]
===============================================================================
