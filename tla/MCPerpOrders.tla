---------------------------- MODULE MCPerpOrders ----------------------------
(***************************************************************************)
(* Values of the constants of PerpOrders for the model checker: which       *)
(* orders one user may ask for in a behaviour, and with how many faults.    *)
(***************************************************************************)
EXTENDS PerpOrders, TLC

CONSTANTS o1, o2, o3, alice

Ask(user, kind, side, size) == [owner |-> user, kind |-> kind, side |-> side, size |-> size, filled |-> FALSE]
Held      == [owner |-> alice, kind |-> "OPEN", side |-> 1, size |-> 1, filled |-> TRUE]
OpenOne   == Ask(alice, "OPEN", 1, 1)
OpenTwo   == Ask(alice, "OPEN", 1, 2)
SellTwo   == Ask(alice, "OPEN", -1, 2)
Close     == Ask(alice, "CLOSE", 1, 1)
Trigger   == Ask(alice, "TRIGGER", 1, 1)
Liquidate == Ask(alice, "LIQUIDATION", 1, 1)
Three(a, b, c) == (o1 :> a) @@ (o2 :> b) @@ (o3 :> c)
NoOrder   == Ask(alice, "NONE", 1, 1)

Mix(asked, faults, cancels) == [asked |-> asked, faults |-> faults, cancels |-> cancels]

\* An order that is filled in parts or not at all, with a fault and a cancellation;
\* closing it while it still fills; a close, a trigger and a liquidation of a position; a
\* trigger that is cancelled;
\* an opening order that turns the position round.
Mixed ==
  {Mix(Three(OpenOne, NoOrder, NoOrder), 1, 1), Mix(Three(OpenTwo, NoOrder, NoOrder), 1, 0),
   Mix(Three(OpenTwo, Close, NoOrder), 0, 0), Mix(Three(OpenOne, Close, NoOrder), 1, 0),
   Mix(Three(Held, Close, Trigger), 0, 0), Mix(Three(Held, NoOrder, Trigger), 0, 1),
   Mix(Three(Held, Liquidate, NoOrder), 1, 0),
   Mix(Three(Held, SellTwo, NoOrder), 1, 0)}

Filling == {Mix(Three(OpenTwo, NoOrder, NoOrder), 0, 0)}
=============================================================================
