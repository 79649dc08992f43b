-------------------------------- MODULE Escrow --------------------------------
(***************************************************************************)
(* What every service that reserves a user's money promises of it:          *)
(* a withdrawal, a limit order and a conversion each take an amount from    *)
(* the spot balance, hold it, and then spend it or give it back.  Doing     *)
(* both is possible only for an item that has been contested, that is, for  *)
(* which the service acted without knowing what it had to know.             *)
(***************************************************************************)
EXTENDS Naturals

CONSTANT Items

VARIABLES
  stage,      \* what has become of each item's money
  contested   \* the items for which the promise has been given up

evars == <<stage, contested>>

Stages == {"none", "held", "returned", "spent", "both"}

Init ==
  /\ stage = [i \in Items |-> "none"]
  /\ contested = {}

Moves(i, from, to) ==
  /\ stage[i] = from
  /\ stage' = [stage EXCEPT ![i] = to]

\* The reserve is posted.
Hold(i) == Moves(i, "none", "held")

\* Money moves without a reserve: an internal transfer, a market order.
Pay(i) == Moves(i, "none", "spent")

\* The reserve is spent: a transfer is mined, an order filled.
Spend(i) ==
  \/ Moves(i, "held", "spent")
  \/ Moves(i, "returned", "both") /\ i \in contested'

\* The reserve is given back.
Return(i) ==
  \/ Moves(i, "held", "returned")
  \/ Moves(i, "spent", "both") /\ i \in contested'

\* The service gives the promise up for an item it holds or has disposed of.
Contest(i) == stage[i] # "none" /\ UNCHANGED stage

Next ==
  \E i \in Items :
    /\ contested' \in {contested, contested \cup {i}}
    /\ Hold(i) \/ Pay(i) \/ Spend(i) \/ Return(i) \/ Contest(i)

Spec == Init /\ [][Next]_evars
===============================================================================
