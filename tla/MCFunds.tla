------------------------------- MODULE MCFunds -------------------------------
(***************************************************************************)
(* What moves the platform's own funds: the sweeps of deposits to the       *)
(* treasury, and the top-ups of the withdrawal hot wallet from it.  Each is *)
(* checked for itself: a behaviour is of one of them, "part", and the other *)
(* stays as it started.                                                     *)
(***************************************************************************)
EXTENDS DepositSweeps, Treasury

CONSTANTS d1, w1, c1, tm

VARIABLE part

Init ==
  /\ part \in {"sweeps", "hot wallet"}
  /\ SInit /\ (part # "sweeps" => family[w1] = CHOOSE k \in Kinds : TRUE)
  /\ TInit

Next ==
  \/ part = "sweeps" /\ SNext /\ UNCHANGED <<part, tvars>>
  \/ part = "hot wallet" /\ TNext /\ UNCHANGED <<part, svars>>

\* The fairness of the two modules.
FundsSpec ==
  /\ Init /\ [][Next]_<<part, svars, tvars>>
  /\ WF_svars(part = "sweeps" /\ PassStep)
  /\ WF_svars(part = "sweeps" /\ \E t \in DOMAIN transfer : Mine(t))
  /\ WF_svars(part = "sweeps" /\ HookWrites)
  /\ WF_tvars(part = "hot wallet" /\ (TimerBegins \/ FailStale))
  /\ WF_tvars(part = "hot wallet" /\ GasArrives)
  /\ WF_tvars(part = "hot wallet" /\ TopUpStep(c1))
  /\ WF_tvars(part = "hot wallet" /\ TopUpStep(tm))
  /\ WF_tvars(part = "hot wallet" /\ MineTopUp(1))
  /\ WF_tvars(part = "hot wallet" /\ MineTopUp(2))

-----------------------------------------------------------------------------
\* A credited deposit gets into a sweep and a sweep does not stay in an intermediate status
\* (runOnce, createPendingSweeps, confirmSweep); asked of one deposit and the first sweep.
SweepSettles == part = "sweeps" => IsCollected(d1) /\ IsSettled(1)

\* A transfer does not stay in BROADCASTING, and a hot wallet below its minimum is filled up,
\* unless the treasury is empty or a transfer approved by hand holds the others back
\* (failStalePreBroadcastTransfers, runAutoRebalance).
HotIsRefilled == part = "hot wallet" => IsLeft(1) /\ HotFillsUp
=============================================================================
