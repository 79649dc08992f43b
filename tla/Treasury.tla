------------------------------- MODULE Treasury -------------------------------
(***************************************************************************)
(* Topping up the withdrawal hot wallet from the deposit treasury           *)
(* (src/apps/api/src/modules/treasury/treasury.service.ts) for one ERC-20   *)
(* asset of one network.  A timer does it every two minutes up to a target; *)
(* a withdrawal does it for what it needs, and waits.  A withdrawal that    *)
(* gave up waiting leaves its top-up running, so several can be under way.  *)
(* A transfer row is not locked: the calls meet only through its status.    *)
(***************************************************************************)
EXTENDS Ledger

CONSTANTS
  Calls,         \* withdrawals that fund the hot wallet; Timer is another caller
  Timer,
  Rows,          \* treasury_transfers rows; a finished row is used again
  Needs,         \* what a withdrawal may need
  HotMin, HotTarget, MaxSingle,   \* TREASURY_REBALANCE_*
  Funds,         \* what the treasury holds at first
  MaxTopUpFaults \* bound: failed calls, crashes, reverted transfers, admin transfers

ASSUME TreasuryAssumption ==
  /\ IsFiniteSet(Calls) /\ Rows \subseteq Nat /\ IsFiniteSet(Rows) /\ Rows # {}
  /\ Needs \subseteq Nat /\ IsFiniteSet(Needs)
  /\ HotMin \in Nat /\ HotTarget \in Nat /\ MaxSingle \in Nat /\ Funds \in Nat /\ MaxTopUpFaults \in Nat

Callers == Calls \cup {Timer}

VARIABLES
  row,       \* row -> [status, amount, known: the hash is stored, tx: its transaction]
  byHand,    \* the status of a transfer of the same kind that an administrator proposed
  pot,       \* on chain: [hot, safe: the asset, gas: of the treasury, coming: gas under way]
  call,      \* caller -> [pc, need, amount, row, tried]
  faults         \* what is left of them
tvars == <<row, byHand, pot, call, faults>>

NoTransfer == [status |-> "NONE", amount |-> 0, known |-> FALSE, tx |-> "none"]
NoCall     == [pc |-> "idle", need |-> 0, amount |-> 0, row |-> CHOOSE r \in Rows : TRUE, tried |-> FALSE]

TInit ==
  /\ row = [r \in Rows |-> NoTransfer] /\ byHand = "NONE"
  /\ pot = [hot |-> 0, safe |-> Funds, gas |-> 0, coming |-> 0]
  /\ call = [c \in Callers |-> NoCall]
  /\ faults = MaxTopUpFaults

TFault == faults > 0 /\ faults' = faults - 1
Live(r)   == \E c \in Callers : call[c].pc \in {"gas", "wait", "send", "sent"} /\ call[c].row = r
Over(x)   == x.status \in {"NONE", "CONFIRMED", "FAILED"} /\ x.tx # "sent"
FreeRows  == {r \in Rows : Over(row[r]) /\ ~Live(r)}
FreeRow   == Min(FreeRows)
Goto(c, pc)   == call' = [call EXCEPT ![c].pc = pc]
GoAfter(c)    == call' = [call EXCEPT ![c] = [NoCall EXCEPT !.pc = "after", !.need = call[c].need]]

-----------------------------------------------------------------------------
(* The chain and the administrator. *)
MineTopUp(r) ==
  LET x == row[r]
      paid == pot.gas > 0 /\ pot.safe >= x.amount
  IN  /\ x.tx = "sent"
      /\ \/ /\ paid /\ row' = [row EXCEPT ![r].tx = "mined"] /\ UNCHANGED faults
            /\ pot' = [pot EXCEPT !.gas = @ - 1, !.safe = @ - x.amount, !.hot = @ + x.amount]
         \/ /\ row' = [row EXCEPT ![r].tx = "reverted"]
            /\ pot' = [pot EXCEPT !.gas = IF @ > 0 THEN @ - 1 ELSE 0]
            /\ IF paid THEN TFault ELSE UNCHANGED faults
      /\ UNCHANGED <<byHand, call>>

GasArrives ==
  /\ pot.coming > 0 /\ pot' = [pot EXCEPT !.coming = @ - 1, !.gas = @ + 1]
  /\ UNCHANGED <<row, byHand, call, faults>>

\* proposeTransfer and approveTransfer, for the same two accounts: nothing sends it.
Propose ==
  /\ byHand = "NONE" /\ byHand' = "PROPOSED" /\ TFault
  /\ UNCHANGED <<row, pot, call>>

Approve ==
  /\ byHand = "PROPOSED" /\ byHand' = "APPROVED"
  /\ UNCHANGED <<row, pot, call, faults>>

-----------------------------------------------------------------------------
(* runAutoRebalance, and ensureHotWalletFunded of a withdrawal. *)

\* confirmBroadcastedTransfers: the rows do not depend on each other.  A row that is
\* finished, which nothing reads again, is forgotten.
Confirmed ==
  [r \in Rows |->
     LET x == IF row[r].status # "BROADCASTED" \/ row[r].tx = "sent" THEN row[r]
              ELSE [row[r] EXCEPT !.status = IF row[r].tx = "mined" THEN "CONFIRMED" ELSE "FAILED"]
     IN  IF Over(x) /\ ~Live(r) THEN NoTransfer ELSE x]

TimerBegins ==
  /\ call[Timer].pc = "idle" /\ row' = Confirmed
  /\ Goto(Timer, "stale") /\ UNCHANGED <<byHand, pot, faults>>

\* Mutant: rows without a hash, which a crash leaves, are not looked for.
StaleKnown(r) == row[r].status = "BROADCASTING" /\ row[r].known

Stale(r) == row[r].status = "BROADCASTING" /\ ~row[r].known

\* failStalePreBroadcastTransfers: rows that nobody wrote for TREASURY_REBALANCE_WAIT_MS,
\* as a row whose call is still waiting may be, and one that no call is at will be (the
\* passes until then do nothing).  recoverBroadcastingTransfers, which comes next, looks for
\* BROADCASTING rows with a request id: an id is written only together with BROADCASTED.
FailStale ==
  /\ call[Timer].pc = "stale"
  /\ \E slow \in SUBSET {r \in Rows : Live(r)} :
       row' = [r \in Rows |-> IF Stale(r) /\ (r \in slow \/ ~Live(r)) THEN [row[r] EXCEPT !.status = "FAILED"]
                             ELSE row[r]]
  /\ Goto(Timer, "read") /\ UNCHANGED <<byHand, pot, faults>>

Begin(c) ==
  /\ c # Timer /\ call[c].pc = "idle"
  /\ \E n \in Needs : call' = [call EXCEPT ![c] = [NoCall EXCEPT !.pc = "look", !.need = n]]
  /\ UNCHANGED <<row, byHand, pot, faults>>

\* waitForHotWalletBalance: the withdrawal is paid when the money is there, asks for a
\* top-up once, and otherwise polls until its time is over.
Look(c) ==
  /\ call[c].pc = "look"
  /\ \/ /\ pot.hot >= call[c].need /\ pot' = [pot EXCEPT !.hot = @ - call[c].need]
        /\ call' = [call EXCEPT ![c] = NoCall]
     \/ pot.hot < call[c].need /\ ~call[c].tried /\ Goto(c, "read") /\ UNCHANGED pot
     \/ pot.hot < call[c].need /\ call[c].tried /\ call' = [call EXCEPT ![c] = NoCall] /\ UNCHANGED pot
  /\ UNCHANGED <<row, byHand, faults>>

\* Mutant: a transfer that waits for its confirmations does not hold another one back.
ActiveUnsent(r) == row[r].status = "BROADCASTING"

Active(r) == row[r].status \in {"BROADCASTING", "BROADCASTED"}

\* createAndBroadcastHotWalletTopup: is there a transfer under way?
ReadActive(c) ==
  /\ call[c].pc = "read"
  /\ IF byHand = "APPROVED" \/ \E r \in Rows : Active(r) THEN GoAfter(c) ELSE Goto(c, "balances")
  /\ UNCHANGED <<row, byHand, pot, faults>>

\* How much to move, from the balances as they are now.
TopUp(need) ==
  LET wanted == IF need = 0 THEN HotTarget - pot.hot ELSE Max({need - pot.hot, HotMin - pot.hot})
  IN  IF (need = 0 /\ pot.hot >= HotMin) \/ (need # 0 /\ pot.hot >= need) THEN 0
      ELSE Min({wanted, pot.safe, MaxSingle})

ReadBalances(c) ==
  /\ call[c].pc = "balances"
  /\ IF TopUp(call[c].need) <= 0 THEN GoAfter(c)
     ELSE call' = [call EXCEPT ![c].amount = TopUp(call[c].need), ![c].pc = "create"]
  /\ UNCHANGED <<row, byHand, pot, faults>>

\* A call that finds no free row gives up: the bound on the transfers under way.
Create(c) ==
  /\ call[c].pc = "create"
  /\ IF FreeRows = {} THEN GoAfter(c) /\ UNCHANGED row
     ELSE /\ row' = [row EXCEPT ![FreeRow] = [NoTransfer EXCEPT !.status = "BROADCASTING", !.amount = call[c].amount]]
          /\ call' = [call EXCEPT ![c].row = FreeRow, ![c].pc = "gas"]
  /\ UNCHANGED <<byHand, pot, faults>>

\* ensureTreasuryTransactionGas asks for gas and waits for it.  Each try asks again; as many
\* as there are callers are counted (bound).
Gas(c) ==
  /\ call[c].pc = "gas"
  /\ IF pot.gas > 0 THEN Goto(c, "send") /\ UNCHANGED pot
     ELSE Goto(c, "wait") /\ pot' = [pot EXCEPT !.coming = Min({@ + 1, Cardinality(Callers)})]
  /\ UNCHANGED <<row, byHand, faults>>

GasThere(c) ==
  /\ call[c].pc = "wait" /\ pot.gas > 0 /\ Goto(c, "send")
  /\ UNCHANGED <<row, byHand, pot, faults>>

GasLate(c) ==
  /\ call[c].pc = "wait" /\ GoAfter(c) /\ row' = [row EXCEPT ![call[c].row].status = "FAILED"]
  /\ UNCHANGED <<byHand, pot, faults>>

\* Whatever goes wrong while gas is awaited or the transfer is sent, the row is FAILED,
\* though the transfer may be under way.
Fails(c) ==
  /\ call[c].pc \in {"gas", "wait", "send"} /\ TFault
  /\ GoAfter(c)
  /\ \/ row' = [row EXCEPT ![call[c].row].status = "FAILED"]
     \/ call[c].pc = "send" /\ row' = [row EXCEPT ![call[c].row].status = "FAILED", ![call[c].row].tx = "sent"]
  /\ UNCHANGED <<byHand, pot>>

SendTopUp(c) ==
  /\ call[c].pc = "send" /\ row' = [row EXCEPT ![call[c].row].tx = "sent"] /\ Goto(c, "sent")
  /\ UNCHANGED <<byHand, pot, faults>>

\* BROADCASTED is written over whatever the row has become.
TopUpSent(c) ==
  /\ call[c].pc = "sent" /\ GoAfter(c)
  /\ row' = [row EXCEPT ![call[c].row].status = "BROADCASTED", ![call[c].row].known = TRUE]
  /\ UNCHANGED <<byHand, pot, faults>>

\* The timer's pass is over.  A withdrawal confirms, then looks again, unless even all of
\* the custody's money is not enough.
After(c) ==
  /\ call[c].pc = "after"
  /\ IF c = Timer THEN call' = [call EXCEPT ![c] = NoCall] /\ UNCHANGED row
     ELSE /\ row' = Confirmed
          /\ call' = [call EXCEPT ![c] = IF pot.hot + pot.safe < @.need THEN NoCall ELSE [@ EXCEPT !.pc = "look", !.tried = TRUE]]
  /\ UNCHANGED <<byHand, pot, faults>>

\* The process stops with all its calls.
Crash ==
  /\ TFault /\ call' = [c \in Callers |-> NoCall]
  /\ UNCHANGED <<row, byHand, pot>>

TopUpStep(c) == \/ ReadActive(c) \/ ReadBalances(c) \/ Create(c) \/ Gas(c) \/ GasThere(c) \/ GasLate(c)
                \/ SendTopUp(c) \/ TopUpSent(c) \/ After(c)

TNext ==
  \/ \E r \in Rows : MineTopUp(r)
  \/ GasArrives \/ Propose \/ Approve \/ TimerBegins \/ FailStale \/ Crash
  \/ \E c \in Callers : Begin(c) \/ Look(c) \/ TopUpStep(c) \/ Fails(c)

TSpec == TInit /\ [][TNext]_tvars

\* The timer fires, calls go on, the chain mines, time passes.
TFairness ==
  /\ WF_tvars(TimerBegins \/ FailStale) /\ WF_tvars(GasArrives)
  /\ \A c \in Callers : WF_tvars(TopUpStep(c))
  /\ \A r \in Rows : WF_tvars(MineTopUp(r))

-----------------------------------------------------------------------------
(* Properties. *)
UnderWay == SumOver([r \in Rows |-> IF row[r].tx = "sent" THEN row[r].amount ELSE 0])

\* The hot wallet is overfunded by one top-up at most for every other call that may run
\* at the same time, and again by one for every call whose outcome a fault lost.
HotIsBounded ==
  pot.hot + UnderWay <= Max(Needs \cup {HotMin, HotTarget})
                        + MaxSingle * (Cardinality(Callers) * (1 + MaxTopUpFaults - faults) - 1)

\* No transfer stays in BROADCASTING, whatever call it was of and wherever it died.
IsLeft(r) == row[r].status = "BROADCASTING" ~> row[r].status # "BROADCASTING"

\* A hot wallet below its minimum is filled up, or the treasury is empty, or a transfer
\* that was approved by hand holds every later one back.
HotFillsUp ==
  pot.hot < HotMin ~> pot.hot >= HotMin \/ pot.safe = 0 \/ byHand = "APPROVED"
===============================================================================
