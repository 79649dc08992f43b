---------------------------- MODULE MCDepositsLive ----------------------------
(***************************************************************************)
(* That deposits are found: those of a token whose transfers leave logs     *)
(* (Deposits), those the scans without logs and the comparison with the     *)
(* balance look for (DepositScans), and the addresses they come to          *)
(* (DepositAddresses).  A behaviour is of one of the three, "part", and the *)
(* others stay as they started.                                             *)
(***************************************************************************)
EXTENDS Deposits, DepositScans, DepositAddresses, TLC

CONSTANTS t1, t2, c1, k1, k2, p1, p2

VARIABLE part

TwoAmounts == (t1 :> 1) @@ (t2 :> 2)
Sums       == (p1 :> 1) @@ (p2 :> 2)
Heights    == [native |-> 5, btc |-> 4, tron |-> 5, spl |-> 4]
Failures   == [native |-> 1, btc |-> 1, tron |-> 1, spl |-> 0]

FindInit ==
  /\ part \in {"logs", "scans", "addresses"} /\ Init
  /\ ScanInit /\ (part # "scans" => stream = "btc")
  /\ AddressInit /\ (part # "addresses" => home = "evm")

\* Bound: the webhook's event for one of the transfers is lost.
EventLost == \A l \in scan'["webhook"].todo : l[1] # t2

FindNext ==
  \/ part = "logs" /\ Next /\ EventLost /\ UNCHANGED <<part, scanVars, addressVars>>
  \/ part = "scans" /\ ScanNext /\ UNCHANGED <<part, vars, addressVars>>
  \/ part = "addresses" /\ AddressNext /\ UNCHANGED <<part, vars, scanVars>>

\* The fairness of Deposits for the one part, and the fairness of the schedulers for the others.
FindSpec ==
  /\ FindInit /\ [][FindNext]_<<part, vars, scanVars, addressVars>>
  /\ WF_vars(part = "logs" /\ StartScan)
  /\ \A s \in Scanners : WF_vars(part = "logs" /\ Look(s)) /\ WF_vars(part = "logs" /\ RecordLog(s))
  /\ \A t \in Transfers : SF_vars(part = "logs" /\ Reconcile(t))
  /\ WF_vars(part = "logs" /\ RecordCheck) /\ WF_vars(part = "logs" /\ FailGone)
  /\ WF_scanVars(part = "scans" /\ NewBlock)
  /\ WF_scanVars(part = "scans" /\ CronStep) /\ WF_scanVars(part = "scans" /\ UserStep)
  /\ WF_addressVars(part = "addresses" /\ ReconcileStep)

-----------------------------------------------------------------------------
\* A payment is credited in the end, with logs or without, however scans fail, and an
\* address is subscribed with the webhook provider in the end (recordTokenTransferLogs,
\* reconcilePendingDeposits, runIndexer, reconcileCron); asked of one payment of each kind.
DepositsAreFound ==
  /\ part = "scans" => IsFound(p1)
  /\ part = "addresses" => IsWatched
===============================================================================
