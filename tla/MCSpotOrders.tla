----------------------------- MODULE MCSpotOrders -----------------------------
(***************************************************************************)
(* Values of the constants of SpotOrders for the model checker.  Sizes and  *)
(* prices are such that every fee is a whole number.                        *)
(***************************************************************************)
EXTENDS SpotOrders, TLC

CONSTANTS o1, o2, o3, alice, i1, i2

SomeBooks == {b \in [bid : {2, 4}, ask : {2, 4}] : b.bid <= b.ask}
TwoRates == {0, 1}

\* A limit buy that may be filled at a better price, a market buy that repeats its
\* client order id, and a limit sell of what is owned or bought; one user, whose money
\* covers only some of them.
OfAlice   == (o1 :> alice) @@ (o2 :> alice) @@ (o3 :> alice)
Repeated  == (o1 :> i1) @@ (o2 :> i1) @@ (o3 :> i2)
Sides     == (o1 :> "BUY") @@ (o2 :> "BUY") @@ (o3 :> "SELL")
Sizes     == (o1 :> 1) @@ (o2 :> 2) @@ (o3 :> 1)
Limits    == (o1 :> 4) @@ (o2 :> Market) @@ (o3 :> 4)
Money     == (alice :> [base |-> 1, quote |-> 10])
===============================================================================
