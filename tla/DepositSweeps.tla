---------------------------- MODULE DepositSweeps ----------------------------
(***************************************************************************)
(* Sweeping credited deposits from the users' wallets to the treasury       *)
(* (src/apps/api/src/modules/deposits/deposit-sweep.service.ts): a timer    *)
(* collects them into sweeps, tops a wallet up with gas, sends, and asks    *)
(* the chain; the custody provider reports on its own by webhook.           *)
(*                                                                          *)
(* A wallet's family says which of the four flows its sweeps take: "erc20"  *)
(* and "native" (processSweep), "sol" (processSolanaSweep), "tron"          *)
(* (processTronSweep, a TRC20 token).  A transfer costs one unit of gas;    *)
(* in "sol" and "native" wallets gas is the asset itself.                   *)
(***************************************************************************)
EXTENDS Integers, FiniteSets, FiniteSetsExt

CONSTANTS
  Credits,       \* deposits
  Purses,        \* deposit addresses with a wallet at the custody provider
  Kinds,         \* which families a behaviour's wallets may have
  Amount,        \* what a deposit brings
  GasNeed,       \* SWEEP_GAS_TOPUP_WEI: the gas a wallet must hold
  MaxAttempts,   \* DEPOSIT_SWEEP_MAX_ATTEMPTS
  MaxFaults      \* bound: failed calls, crashes, reverted transfers, operator calls and
                 \* webhook events

SweepAssumption ==
  /\ IsFiniteSet(Credits) /\ Purses # {}
  /\ Kinds \subseteq {"erc20", "native", "sol", "tron"} /\ Amount \in Nat \ {0}
  /\ {GasNeed, MaxAttempts} \subseteq Nat \ {0} /\ MaxFaults \in Nat
ASSUME SweepSizes == SweepAssumption

VARIABLES
  credit,    \* deposit -> [purse, credited, sweep]
  family,    \* wallet -> its family
  sweep,     \* id -> the deposit_sweeps row
  wallet,    \* wallet -> [tok, gas] on chain
  transfer,  \* <<"gas" or "sweep", sweep, attempt>> -> [value, state]
  worker,    \* the pass of the timer
  hook,      \* the webhook call in progress
  putBack,   \* history: sweeps that a webhook, an operator or a change of the
             \* configuration returned to another status
  fuel       \* how many of the faults are left
svars == <<credit, family, sweep, wallet, transfer, worker, hook, putBack, fuel>>

Ids    == 1 .. Cardinality(Credits)
NoRow  == [status |-> "NONE", purse |-> CHOOSE w \in Purses : TRUE, raw |-> 0, attempts |-> 0,
           tx |-> 0, gasTx |-> 0, req |-> FALSE, why |-> "NONE"]
Resting == [pc |-> "idle", group |-> {}, todo |-> {}, id |-> 0, row |-> NoRow, att |-> 0, value |-> 0]
NoHook  == [pc |-> "idle", id |-> 0, kind |-> "gas", att |-> 0, event |-> "NONE", row |-> NoRow]

SInit ==
  /\ credit \in [Credits -> [purse : Purses, credited : {FALSE}, sweep : {0}]]
  /\ family \in [Purses -> Kinds]
  /\ sweep = [s \in Ids |-> NoRow]
  /\ wallet = [w \in Purses |-> [tok |-> 0, gas |-> 0]]
  /\ transfer = [t \in {} |-> 0]
  /\ worker = Resting /\ hook = NoHook
  /\ putBack = {} /\ fuel = MaxFaults

SFault == fuel > 0 /\ fuel' = fuel - 1
FamilyOf(s) == family[sweep[s].purse]
Moving == {"PENDING", "FUNDING_GAS", "BROADCASTING"}

-----------------------------------------------------------------------------
(* Deposits, the chain, and the operator. *)

\* A deposit is credited: its money is on the wallet (module Deposits).
Arrive(d) ==
  /\ ~credit[d].credited
  /\ credit' = [credit EXCEPT ![d].credited = TRUE]
  /\ wallet' = [wallet EXCEPT ![credit[d].purse].tok = @ + Amount]
  /\ UNCHANGED <<family, sweep, transfer, worker, hook, putBack, fuel>>

\* A transfer is mined or reverts; a token transfer burns a unit of gas either way.
Mine(t) ==
  LET w == sweep[t[2]].purse
      f == family[w]
      v == transfer[t].value
      covered == CASE t[1] = "gas" -> TRUE
                   [] f \in {"erc20", "tron"} -> wallet[w].tok >= v /\ wallet[w].gas > 0
                   [] OTHER -> wallet[w].tok > v
      After(state) ==
        /\ transfer' = [transfer EXCEPT ![t].state = state]
        /\ wallet' = [wallet EXCEPT ![w] =
             IF t[1] = "gas" THEN (IF state = "reverted" THEN wallet[w]
                                   ELSE IF f = "sol" THEN [wallet[w] EXCEPT !.tok = wallet[w].tok + v]
                                   ELSE [wallet[w] EXCEPT !.gas = wallet[w].gas + v])
             ELSE IF f \in {"erc20", "tron"}
             THEN [tok |-> IF state = "mined" THEN wallet[w].tok - v ELSE wallet[w].tok,
                   gas |-> IF wallet[w].gas > 0 THEN wallet[w].gas - 1 ELSE 0]
             ELSE [wallet[w] EXCEPT !.tok = IF state = "mined" THEN wallet[w].tok - v - 1 ELSE wallet[w].tok]]
  IN  /\ transfer[t].state = "sent"
      /\ \/ After(IF covered THEN "mined" ELSE "reverted") /\ UNCHANGED fuel
         \/ SFault /\ After("reverted")
      /\ UNCHANGED <<credit, family, sweep, worker, hook, putBack>>

\* Mutant: all that is in the wallet.
AllOfIt(raw, held) == held

\* A sweep asks for no more than it did, nor than the wallet holds.
Capped(raw, held) == IF raw < held THEN raw ELSE held

\* scripts/recover-bnb-blocked-sweeps.ts: a sweep blocked by the limit or by a policy
\* starts again, when nothing of it is known to have been sent and money is there.
RecoverBlocked(s) ==
  /\ sweep[s].status = "BLOCKED" /\ sweep[s].tx = 0 /\ ~sweep[s].req /\ sweep[s].why \in {"limit", "policy"}
  /\ FamilyOf(s) \in {"erc20", "native"} /\ wallet[sweep[s].purse].tok > 0 /\ SFault
  /\ sweep[s].gasTx # 0 => transfer[<<"gas", s, sweep[s].gasTx>>].state # "reverted"
  /\ LET tok == wallet[sweep[s].purse].tok
     IN  sweep' = [sweep EXCEPT ![s] = [sweep[s] EXCEPT !.status = "PENDING", !.attempts = 0, !.why = "NONE",
                                        !.raw = Capped(sweep[s].raw, tok)]]
  /\ putBack' = putBack \cup {s}
  /\ UNCHANGED <<credit, family, wallet, transfer, worker, hook>>

-----------------------------------------------------------------------------
(* runOnce. *)

\* Blocked because the wallet was no Privy one, which it is again: whatever the sweep
\* was doing, it starts from PENDING.
Requeued == {s \in Ids : sweep[s].status = "BLOCKED" /\ sweep[s].why = "ineligible"}

\* requeueRecoverableBlockedSweeps, backfillDepositAddressLinks and the list of
\* deposits that createPendingSweeps reads: a deposit credited before its address was
\* known is linked to it first, so that each is found.
PassBegins ==
  /\ worker.pc = "idle"
  /\ sweep' = [s \in Ids |-> IF s \in Requeued THEN [sweep[s] EXCEPT !.status = "PENDING", !.why = "NONE"]
                             ELSE sweep[s]]
  /\ putBack' = putBack \cup Requeued
  /\ worker' = [Resting EXCEPT !.pc = "create", !.group = {d \in Credits : credit[d].credited /\ credit[d].sweep = 0}]
  /\ UNCHANGED <<credit, family, wallet, transfer, hook, fuel>>

\* The deposits of a wallet that are still free when the sweep is written.
Collected(w) == {d \in worker.group : credit[d].purse = w /\ credit[d].sweep = 0}

\* createPendingSweeps: one transaction per wallet and asset.
PassCreates ==
  /\ worker.pc = "create"
  /\ IF worker.group = {}
     THEN worker' = [worker EXCEPT !.pc = "list"] /\ UNCHANGED <<credit, sweep>>
     ELSE LET w == credit[CHOOSE d \in worker.group : TRUE].purse
              s == Min({i \in Ids : sweep[i].status = "NONE"})
          IN  /\ sweep' = [sweep EXCEPT ![s] = [NoRow EXCEPT !.status = "PENDING", !.purse = w,
                                                             !.raw = Amount * Cardinality(Collected(w))]]
              /\ credit' = [d \in Credits |-> IF d \in Collected(w) THEN [credit[d] EXCEPT !.sweep = s] ELSE credit[d]]
              /\ worker' = [worker EXCEPT !.group = {d \in @ : credit[d].purse # w}]
  /\ UNCHANGED <<family, wallet, transfer, hook, putBack, fuel>>

\* Mutant: BROADCASTING sweeps are left out of the limit.
OverLimitQuiet(row) == row.status \in {"PENDING", "FUNDING_GAS"} /\ row.attempts >= MaxAttempts

OverLimit(row) == row.status \in Moving /\ row.attempts >= MaxAttempts

\* The limit of attempts, then the rows to work on, which are not read again.
PassLists ==
  /\ worker.pc = "list"
  /\ sweep' = [s \in Ids |-> IF OverLimit(sweep[s]) THEN [sweep[s] EXCEPT !.status = "BLOCKED", !.why = "limit"]
                             ELSE sweep[s]]
  /\ worker' = [worker EXCEPT !.pc = "rows",
                  !.todo = {<<s, sweep[s]>> : s \in {i \in Ids : /\ sweep[i].status \in Moving \cup {"BROADCASTED"}
                                                               /\ sweep[i].attempts < MaxAttempts}}]
  /\ UNCHANGED <<credit, family, wallet, transfer, hook, putBack, fuel>>

NextRow == worker' = [Resting EXCEPT !.pc = "rows", !.todo = worker.todo]
Set(s, fields) == sweep' = [sweep EXCEPT ![s] = fields]
Block(s, why)  == Set(s, [sweep[s] EXCEPT !.status = "BLOCKED", !.why = why])

\* Mutant: a sweep found in BROADCASTING starts over.
StageForgets(f, status) ==
  CASE status = "BROADCASTED" -> "confirm"
    [] OTHER -> IF f = "native" THEN "mark" ELSE "gas"

\* Where a row of a family and status goes.
Stage(f, status) ==
  CASE status = "BROADCASTED" -> "confirm"
    [] status = "BROADCASTING" /\ f # "tron" -> "provider"
    [] OTHER -> IF f = "native" THEN "mark" ELSE "gas"

\* The wallet is no Privy one, or getSweepTarget and the readiness checks refuse the row.
Refusals == {"ineligible", "unready"}

\* The next row, oldest first; configuration that is missing blocks it.
TakeRow ==
  /\ worker.pc = "rows"
  /\ IF worker.todo = {} THEN worker' = Resting /\ UNCHANGED <<sweep, fuel>>
     ELSE LET x == CHOOSE y \in worker.todo : \A z \in worker.todo : y[1] <= z[1]
              rest == worker.todo \ {x}
          IN  \/ /\ worker' = [Resting EXCEPT !.pc = Stage(family[x[2].purse], x[2].status), !.todo = rest,
                                              !.id = x[1], !.row = x[2]]
                 /\ UNCHANGED <<sweep, fuel>>
              \/ /\ SFault /\ worker' = [Resting EXCEPT !.pc = "rows", !.todo = rest]
                 /\ \E why \in Refusals : Block(x[1], why)
  /\ UNCHANGED <<credit, family, wallet, transfer, hook, putBack>>

\* Mutant: a transfer that reverted counts as done.
MatchedAnyway(f, t, raw) == TRUE

\* What the chain must show: a Solana or ERC-20 transfer of the exact amount; any
\* amount for a native one; for Tron, that the transaction did not fail.
Matched(f, t, raw) == t.state = "mined" /\ (f \in {"erc20", "sol"} => t.value = raw)

\* confirmSweep and its counterparts.  A Solana transfer that failed is left as it is.
Confirm ==
  LET s == worker.id
      f == family[worker.row.purse]
      t == transfer[<<"sweep", s, worker.row.tx>>]
  IN  /\ worker.pc = "confirm" /\ NextRow
      /\ IF t.state = "sent" \/ (f = "sol" /\ t.state = "reverted") THEN UNCHANGED sweep
         ELSE IF Matched(f, t, worker.row.raw) THEN Set(s, [sweep[s] EXCEPT !.status = "CONFIRMED", !.why = "NONE"])
         ELSE Block(s, "mismatch")
      /\ UNCHANGED <<credit, family, wallet, transfer, hook, putBack, fuel>>

\* A sweep found in BROADCASTING: the provider is asked, by the id it gave.  It may have
\* no hash yet.
AskProvider ==
  LET s == worker.id
      sent == {t \in DOMAIN transfer : t[1] = "sweep" /\ t[2] = s}
  IN  /\ worker.pc = "provider" /\ NextRow
      /\ \/ /\ UNCHANGED fuel
            /\ IF ~worker.row.req THEN Block(s, "ambiguous")
               ELSE IF sent # {} THEN Set(s, [sweep[s] EXCEPT !.status = "BROADCASTED", !.tx = Max({t[3] : t \in sent})])
               ELSE Block(s, "provider")
         \/ worker.row.req /\ SFault /\ UNCHANGED sweep
      /\ UNCHANGED <<credit, family, wallet, transfer, hook, putBack>>

\* How much is missing for the transfer to be paid for.
Missing(f, w, raw) ==
  IF f = "sol" THEN raw + 1 - wallet[w].tok ELSE GasNeed - wallet[w].gas

\* Whether a wallet short of gas is topped up now: a sweep that waits for its gas
\* already is only when some has arrived, but a Solana one always is.
TopsUp(f, row, w) ==
  CASE f = "sol"  -> TRUE
    [] f = "tron" -> row.status # "FUNDING_GAS" \/ row.gasTx = 0
    [] OTHER      -> row.status # "FUNDING_GAS" \/ wallet[w].gas > 0

\* The balance and gas checks of a PENDING or FUNDING_GAS sweep.  Tron reads the token
\* balance first and blocks an empty wallet.  A sweep blocked for its reverted top-up
\* is topped up all the same when the wallet holds some gas.
CheckGas ==
  LET s == worker.id
      w == worker.row.purse
      f == family[w]
      gasTx == IF worker.row.gasTx = 0 THEN "none" ELSE transfer[<<"gas", s, worker.row.gasTx>>].state
      raw == IF f = "tron" THEN Capped(worker.row.raw, wallet[w].tok) ELSE worker.row.raw
      waits == worker.row.status = "FUNDING_GAS" /\ f # "sol"
  IN  /\ worker.pc = "gas"
      /\ IF f = "tron" /\ wallet[w].tok = 0 THEN Block(s, "empty") /\ NextRow
         ELSE IF Missing(f, w, raw) <= 0
         THEN /\ Set(s, [sweep[s] EXCEPT !.raw = IF f = "tron" THEN raw ELSE @])
              /\ worker' = [worker EXCEPT !.pc = "mark", !.row.raw = raw]
         ELSE IF waits /\ gasTx = "reverted" /\ (f = "tron" \/ wallet[w].gas = 0) THEN Block(s, "gas") /\ NextRow
         ELSE IF waits /\ f = "tron" /\ gasTx = "mined" THEN Set(s, [sweep[s] EXCEPT !.status = "PENDING", !.raw = raw, !.why = "NONE"]) /\ NextRow
         ELSE IF ~TopsUp(f, worker.row, w) THEN UNCHANGED sweep /\ NextRow
         ELSE /\ Set(s, [sweep[s] EXCEPT !.attempts = @ + 1, !.raw = IF f = "tron" THEN raw ELSE @,
                                         !.status = IF waits /\ gasTx = "reverted" THEN "BLOCKED" ELSE @,
                                         !.why = IF waits /\ gasTx = "reverted" THEN "gas" ELSE @])
              /\ worker' = [worker EXCEPT !.pc = "fund", !.att = sweep[s].attempts + 1, !.value = Missing(f, w, raw)]
      /\ UNCHANGED <<credit, family, wallet, transfer, hook, putBack, fuel>>

Transferred(kind) ==
  transfer' = [t \in DOMAIN transfer \cup {<<kind, worker.id, worker.att>>} |->
                 IF t = <<kind, worker.id, worker.att>> THEN [value |-> worker.value, state |-> "sent"] ELSE transfer[t]]

\* The gas top-up is sent under a reference of its own.  An error, after which the
\* transfer may be under way, leaves the sweep as it is or, for a policy, blocks it.
Fund ==
  /\ worker.pc = "fund"
  /\ \/ Transferred("gas") /\ worker' = [worker EXCEPT !.pc = "funded"] /\ UNCHANGED <<sweep, fuel>>
     \/ /\ SFault /\ NextRow
        /\ \/ Transferred("gas") /\ UNCHANGED sweep
           \/ UNCHANGED <<transfer, sweep>>
           \/ FamilyOf(worker.id) = "erc20" /\ Block(worker.id, "policy") /\ UNCHANGED transfer
  /\ UNCHANGED <<credit, family, wallet, hook, putBack>>

Funded ==
  /\ worker.pc = "funded" /\ NextRow
  /\ Set(worker.id, [sweep[worker.id] EXCEPT !.status = "FUNDING_GAS", !.gasTx = worker.att])
  /\ UNCHANGED <<credit, family, wallet, transfer, hook, putBack, fuel>>

Mark ==
  /\ worker.pc = "mark"
  /\ Set(worker.id, [sweep[worker.id] EXCEPT !.status = "BROADCASTING", !.attempts = @ + 1])
  /\ worker' = [worker EXCEPT !.pc = "send", !.att = sweep[worker.id].attempts + 1, !.value = worker.row.raw]
  /\ UNCHANGED <<credit, family, wallet, transfer, hook, putBack, fuel>>

\* What an EVM wallet can still send.
Room(f, w) == IF f = "native" THEN wallet[w].tok - 1 ELSE wallet[w].tok

\* The EVM flow looks at the balance once more, after BROADCASTING is written, and
\* sends what there is: BROADCASTING is left only when there is nothing.
LessThanAsked ==
  LET s == worker.id
      w == worker.row.purse
      f == family[w]
  IN  /\ worker.pc = "send" /\ f \in {"erc20", "native"} /\ Room(f, w) < worker.value
      /\ IF Room(f, w) <= 0 THEN Block(s, "empty") /\ NextRow
         ELSE /\ worker' = [worker EXCEPT !.value = Room(f, w)]
              /\ Set(s, [sweep[s] EXCEPT !.raw = IF f = "erc20" THEN Room(f, w) ELSE @])
      /\ UNCHANGED <<credit, family, wallet, transfer, hook, putBack, fuel>>

\* The transfer.  After an error an EVM sweep is blocked, a Tron sweep goes back to
\* PENDING, a Solana sweep stays in BROADCASTING; unless a policy refused it, the
\* transfer may be under way.
Send ==
  LET s == worker.id
      f == family[worker.row.purse]
      evm == f \in {"erc20", "native"}
      Errs == CASE f = "tron" -> Set(s, [sweep[s] EXCEPT !.status = "PENDING", !.why = "send"])
                [] f = "sol"  -> UNCHANGED sweep
                [] OTHER      -> Block(s, "ambiguous")
  IN  /\ worker.pc = "send" /\ (evm => Room(f, worker.row.purse) >= worker.value)
      /\ \/ Transferred("sweep") /\ worker' = [worker EXCEPT !.pc = "sent"] /\ UNCHANGED <<sweep, fuel>>
         \/ Transferred("sweep") /\ Errs /\ SFault /\ NextRow
         \/ UNCHANGED transfer /\ (Errs \/ (evm /\ Block(s, "policy"))) /\ SFault /\ NextRow
      /\ UNCHANGED <<credit, family, wallet, hook, putBack>>

\* BNB transfers come back without a request id.
Sent ==
  /\ worker.pc = "sent" /\ NextRow
  /\ \E known \in BOOLEAN :
       Set(worker.id, [sweep[worker.id] EXCEPT !.status = "BROADCASTED", !.tx = worker.att, !.req = known])
  /\ UNCHANGED <<credit, family, wallet, transfer, hook, putBack, fuel>>

\* The process dies; the rows stay.
Dies ==
  /\ SFault /\ worker' = Resting
  /\ UNCHANGED <<credit, family, sweep, wallet, transfer, hook, putBack>>

-----------------------------------------------------------------------------
(* handlePrivyWebhook, for the EVM families: the row is read, then written, with what *)
(* was read where the event says nothing.  An event id is taken once; events come     *)
(* late and in any order.                                                             *)
HookReads(t) ==
  LET s == t[2]
  IN  /\ hook.pc = "idle" /\ SFault /\ FamilyOf(s) \in {"erc20", "native"}
      /\ \E event \in {"accepted", "broadcasted", "failed"} :
           /\ event = "failed" => transfer[t].state = "reverted"
           /\ hook' = [pc |-> "write", id |-> s, kind |-> t[1], att |-> t[3], event |-> event, row |-> sweep[s]]
      /\ UNCHANGED <<credit, family, sweep, wallet, transfer, worker, putBack>>

HookWrites ==
  LET s == hook.id
      hash == hook.event = "broadcasted"
      status == CASE hook.event = "failed" -> "BLOCKED"
                  [] hook.kind = "sweep" /\ hash -> "BROADCASTED"
                  [] OTHER -> hook.row.status
  IN  /\ hook.pc = "write" /\ hook' = NoHook
      /\ Set(s, [sweep[s] EXCEPT !.status = status,
                                 !.why = IF hook.event = "failed" THEN "event" ELSE hook.row.why,
                                 !.req = @ \/ hook.kind = "sweep",
                                 !.tx = IF hook.kind = "gas" THEN @ ELSE IF hash THEN hook.att ELSE hook.row.tx,
                                 !.gasTx = IF hook.kind = "sweep" THEN @ ELSE IF hash THEN hook.att ELSE hook.row.gasTx])
      /\ putBack' = IF status # sweep[s].status /\ hook.event # "failed" THEN putBack \cup {s} ELSE putBack
      /\ UNCHANGED <<credit, family, wallet, transfer, worker, fuel>>

PassStep == \/ PassBegins \/ PassCreates \/ PassLists \/ TakeRow \/ Confirm \/ AskProvider \/ CheckGas
            \/ Fund \/ Funded \/ Mark \/ LessThanAsked \/ Send \/ Sent

SNext ==
  \/ \E d \in Credits : Arrive(d)
  \/ \E t \in DOMAIN transfer : Mine(t) \/ HookReads(t)
  \/ \E s \in Ids : RecoverBlocked(s)
  \/ PassStep \/ HookWrites \/ Dies

SSpec == SInit /\ [][SNext]_svars

\* The timer fires and a pass goes on; transfers are mined or revert.
SFairness == WF_svars(PassStep) /\ WF_svars(\E t \in DOMAIN transfer : Mine(t)) /\ WF_svars(HookWrites)

-----------------------------------------------------------------------------
(* Properties. *)
InSweep(s) == {d \in Credits : credit[d].sweep = s}
Sends(kind, s) == {t \in DOMAIN transfer : t[1] = kind /\ t[2] = s}

\* A sweep asks for what its deposits brought, or less when the wallet holds less, and
\* has deposits of one wallet only (createPendingSweeps, processSweep).
SweepIsItsDeposits ==
  \A s \in Ids : sweep[s].status # "NONE" =>
    /\ InSweep(s) # {} /\ \A d \in InSweep(s) : credit[d].purse = sweep[s].purse
    /\ sweep[s].raw <= Amount * Cardinality(InSweep(s))

\* CONFIRMED is written only when a transfer of the sweep has been mined, and every
\* mined transfer moved something (confirmSweep, transactionMatchesErc20Sweep).
ConfirmedIsSwept ==
  \A s \in Ids : sweep[s].status = "CONFIRMED" =>
    \E t \in Sends("sweep", s) : transfer[t].state = "mined" /\ transfer[t].value > 0

\* However calls fail and the process dies, a sweep that nobody put back is sent once
\* (except on Tron, see RetriedOnlyIfNotSent).
TransferOnce ==
  \A s \in Ids \ putBack : FamilyOf(s) # "tron" => Cardinality(Sends("sweep", s)) <= 1

\* An empty wallet has one gas top-up under way for a sweep, and one more for each call
\* whose outcome was lost, since it is sent again under a new reference.  (On Solana, and
\* when the wallet holds some gas but too little, every pass sends one more.)
OneTopUpPerFault ==
  \A s \in Ids : FamilyOf(s) # "sol" =>
    Cardinality({t \in Sends("gas", s) : transfer[t] = [value |-> GasNeed, state |-> "sent"]}) <= 1 + (MaxFaults - fuel)

\* A sweep is sent once and topped up once, but for lost outcomes (reserveSweepAttempt,
\* sendSweepGasTopup, processSweep's catch).
SentOnce == TransferOnce /\ OneTopUpPerFault

\* A credited deposit gets into a sweep, and a sweep does not stay in an intermediate
\* status for ever (runOnce, createPendingSweeps, confirmSweep).  A broadcast one is settled too, unless it was its last attempt (such
\* a sweep is not looked at again) or it failed on Solana.
IsCollected(d) == credit[d].credited ~> credit[d].sweep # 0
IsSettled(s) ==
  /\ sweep[s].status \in Moving ~> sweep[s].status \notin Moving \/ s \in putBack
  /\ sweep[s].status = "BROADCASTED" /\ sweep[s].attempts < MaxAttempts /\ FamilyOf(s) # "sol"
       ~> sweep[s].status # "BROADCASTED" \/ sweep[s].attempts >= MaxAttempts \/ s \in putBack

\* "Blocked sweeps are never retried automatically when the provider result is ambiguous"
\* (docs/personal-deposit-operations.md:58), and "Nothing was broadcast, so keep the sweep
\* retryable" (the comment in processTronSweep's catch).
RetriedOnlyIfNotSent == \A s \in Ids \ putBack : Cardinality(Sends("sweep", s)) <= 1
===============================================================================
