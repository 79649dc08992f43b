------------------------------ MODULE MCDeposits ------------------------------
(***************************************************************************)
(* Values of the constants of Deposits for the model checker.               *)
(***************************************************************************)
EXTENDS Deposits, TLC

CONSTANTS t1, t2, c1

\* A transfer that matches an intent and one that does not, of different amounts.
TwoAmounts == (t1 :> 1) @@ (t2 :> 2)
===============================================================================
