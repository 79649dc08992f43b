----------------------------- MODULE Withdrawals -----------------------------
(***************************************************************************)
(* Withdrawals of an EVM asset: the request and decision endpoints, the     *)
(* ten-second worker that broadcasts and confirms, the Privy webhook, and   *)
(* the custody provider and chain they talk to                              *)
(* (src/apps/api/src/modules/withdrawals/withdrawals.service.ts).           *)
(*                                                                          *)
(* Every interactive database transaction is one action.  Whatever a        *)
(* handler reads before it opens the transaction (or before an await on the *)
(* provider) is a separate, earlier action, so that what it read may have   *)
(* changed when it writes.                                                  *)
(***************************************************************************)
EXTENDS Ledger

CONSTANTS
  Withdrawals,   \* the withdrawals that may be requested
  Users,         \* the account owners
  Owner,         \* the user who requests each withdrawal
  Recipient,     \* the user who owns the destination address, or External
  External,      \* no user of the exchange owns the destination
  Amount,        \* amount of each withdrawal
  Fee,           \* its fee (resolveWithdrawalFeeAmount)
  Funding,       \* spot balance each user starts with
  Thresholds,    \* values WITHDRAWAL_MANUAL_APPROVAL_THRESHOLD may be given
  DailyLimit,    \* WITHDRAWAL_DAILY_LIMIT
  Decisions,     \* the decision endpoints in use
  Batch,         \* rows a worker query takes (20 in the code)
  Workers,       \* processes that run the worker
  Api,           \* the process that also serves the endpoints
  MaxFaults,     \* bound on crashes, failed passes and failed reads
  None           \* no withdrawal

ASSUME WithdrawalsAssumption ==
  /\ None \notin Withdrawals
  /\ IsFiniteSet(Withdrawals) /\ IsFiniteSet(Users)
  /\ External \notin Users
  /\ Owner \in [Withdrawals -> Users]
  /\ Recipient \in [Withdrawals -> Users \cup {External}]
  /\ \A w \in Withdrawals : Recipient[w] # Owner[w]
  /\ Amount \in [Withdrawals -> Nat \ {0}]
  /\ Fee \in [Withdrawals -> Nat]
  /\ Funding \in [Users -> Nat]
  /\ Thresholds \subseteq Int
  /\ DailyLimit \in Int
  /\ Decisions \subseteq {"approve", "reject", "cancel"}
  /\ Batch \in Nat \ {0}
  /\ Api \in Workers
  /\ MaxFaults \in Nat

VARIABLES
  wd,         \* the Withdrawal rows
  journal,    \* ledger transactions by idempotency key
  calls,      \* endpoint calls that have read and not yet written
  worker,     \* where each worker process is in its pass
  threshold,  \* the configured manual approval threshold
  custody,    \* what the provider and the chain did with each withdrawal
  inflight,   \* send requests on their way to the provider
  emitted,    \* webhook events the provider has emitted, by withdrawal
  processed,  \* ProviderWebhookEvent rows: the events already applied
  race,       \* history: the race windows each withdrawal went through
  faults      \* faults so far

db       == <<wd, journal>>
provider == <<custody, inflight, emitted>>
vars     == <<wd, journal, calls, worker, threshold, custody, inflight,
              emitted, processed, race, faults>>

-----------------------------------------------------------------------------
(* Rows, ledger keys and entries *)

Refunded == {"FAILED", "REJECTED", "CANCELLED"}
Terminal == Refunded \cup {"CONFIRMED"}
\* REQUESTED exists only inside the transaction that creates the row.
Status   == {"ABSENT", "PENDING_APPROVAL", "APPROVED", "BROADCASTING", "BROADCASTED"}
              \cup Terminal

Internal == {w \in Withdrawals : Recipient[w] # External}

Keys == {"reserve", "release", "settle", "internal"} \X Withdrawals

Spot(u)   == <<"USER_SPOT", u>>
Pending   == <<"PENDING_WITHDRAWAL", "platform">>
GasFees   == <<"GAS_FEES", "platform">>
Clearing  == <<"PROVIDER_CLEARING", "platform">>

\* The entries each idempotency key posts; a zero fee has no entry.
ReserveEntries(w) ==
  <<Debit(Spot(Owner[w]), Amount[w] + Fee[w]), Credit(Pending, Amount[w])>>
    \o (IF Fee[w] > 0 THEN <<Credit(GasFees, Fee[w])>> ELSE <<>>)
ReleaseEntries(w) ==
  <<Debit(Pending, Amount[w]), Credit(Spot(Owner[w]), Amount[w] + Fee[w])>>
    \o (IF Fee[w] > 0 THEN <<Debit(GasFees, Fee[w])>> ELSE <<>>)
SettleEntries(w) ==
  <<Debit(Pending, Amount[w]), Credit(Clearing, Amount[w])>>
InternalEntries(w) ==
  <<Debit(Spot(Owner[w]), Amount[w]), Credit(Spot(Recipient[w]), Amount[w])>>

EntriesOf ==
  [k \in Keys |-> CASE k[1] = "reserve"  -> ReserveEntries(k[2])
                    [] k[1] = "release"  -> ReleaseEntries(k[2])
                    [] k[1] = "settle"   -> SettleEntries(k[2])
                    [] k[1] = "internal" -> InternalEntries(k[2])]

SpotBalance(u) == Funding[u] + Balance(journal, EntriesOf, Spot(u))

Posted(op, w) == journal[<<op, w>>] > 0

\* The row's next value: fresh says that updatedAt is within the interrupt
\* grace, which only matters while the row is BROADCASTING.
WithStatus(row, status) ==
  [row EXCEPT !.status = status, !.fresh = (status = "BROADCASTING")]

\* Mutant: the row is failed and its reserve is kept.
FailWithoutRelease(w) ==
  IF wd[w].status \in Refunded
  THEN UNCHANGED db
  ELSE /\ wd' = [wd EXCEPT ![w] = WithStatus(@, "FAILED")]
       /\ UNCHANGED journal

\* What the provider's answers tell of a row: its request id, maybe its hash.
Traced(row, hash) == [row EXCEPT !.prov = TRUE, !.tx = row.tx \/ hash]

\* failAndRelease: rereads the row in its transaction; refunds it and fails it
\* unless it has already been failed, rejected or cancelled.
FailAndRelease(w) ==
  IF wd[w].status \in Refunded
  THEN UNCHANGED db
  ELSE /\ journal' = Post(journal, <<"release", w>>)
       /\ wd' = [wd EXCEPT ![w] = WithStatus(@, "FAILED")]

-----------------------------------------------------------------------------
(* The initial state *)

Absent == [status |-> "ABSENT", tx |-> FALSE, prov |-> FALSE, fresh |-> FALSE,
           admin |-> FALSE]

At(phase) == [phase |-> phase, step |-> "find", todo |-> {}, cur |-> None,
              got |-> "none"]

Init ==
  /\ wd = [w \in Withdrawals |-> Absent]
  /\ journal = [k \in Keys |-> 0]
  /\ calls = {}
  /\ worker = [p \in Workers |-> At("idle")]
  /\ threshold \in Thresholds
  /\ custody = [w \in Withdrawals |-> "none"]
  /\ inflight = {}
  /\ emitted = [w \in Withdrawals |-> {}]
  /\ processed = [w \in Withdrawals |-> {}]
  /\ race = [w \in Withdrawals |-> {}]
  /\ faults = 0

-----------------------------------------------------------------------------
(* Endpoints: POST /withdrawals, and the decisions on a pending one *)

\* The 24-hour total requestWithdrawal reads before its transaction (the window
\* never closes here).  Rejected and cancelled withdrawals do not count.
DailyTotal(u) ==
  MapThenSumSet(LAMBDA w : Amount[w],
                {w \in Withdrawals :
                   /\ Owner[w] = u
                   /\ wd[w].status \notin {"ABSENT", "REJECTED", "CANCELLED"}})

Call(op, w) == [op |-> op, w |-> w]

\* requestWithdrawal up to its transaction: the daily limit is checked.
CheckRequest(w) ==
  /\ wd[w].status = "ABSENT"
  /\ Call("request", w) \notin calls
  /\ DailyTotal(Owner[w]) + Amount[w] <= DailyLimit
  /\ calls' = calls \cup {Call("request", w)}
  /\ UNCHANGED <<db, worker, threshold, provider, processed, race, faults>>

\* Mutant: a threshold of zero switches manual approval off.
NeedsApprovalAbove(w) == threshold > 0 /\ Amount[w] > threshold

\* A threshold of zero or less sends every withdrawal to an administrator.
NeedsApproval(w) == threshold <= 0 \/ Amount[w] > threshold

\* Mutant: the update that ends the transaction is missing.
LeftRequested(w) == "REQUESTED"

\* The status the transaction leaves the new row in.
InitialStatus(w) == IF NeedsApproval(w) THEN "PENDING_APPROVAL" ELSE "APPROVED"

\* What the request takes from the spot balance; an internal transfer is free.
TotalDebit(w) == Amount[w] + (IF w \in Internal THEN 0 ELSE Fee[w])

\* Mutant: the fee is reserved but not asked for.
AffordableWithoutFee(w) == SpotBalance(Owner[w]) >= Amount[w]

\* assertSufficientUserSpotBalance, inside the transaction.
Affordable(w) == SpotBalance(Owner[w]) >= TotalDebit(w)

\* The Serializable transaction of requestWithdrawal.
CreateWithdrawal(w) ==
  /\ Call("request", w) \in calls
  /\ w \notin Internal
  /\ Affordable(w)
  /\ journal' = Post(journal, <<"reserve", w>>)
  /\ wd' = [wd EXCEPT ![w].status = InitialStatus(w)]
  /\ calls' = calls \ {Call("request", w)}
  /\ UNCHANGED <<worker, threshold, provider, processed, race, faults>>

\* createInternalTransferWithdrawal: the destination is another user's deposit
\* address, so the ledger moves the amount at once and no fee is taken.
CreateInternalTransfer(w) ==
  /\ Call("request", w) \in calls
  /\ w \in Internal
  /\ Affordable(w)
  /\ journal' = Post(journal, <<"internal", w>>)
  /\ wd' = [wd EXCEPT ![w].status = "CONFIRMED"]
  /\ calls' = calls \ {Call("request", w)}
  /\ UNCHANGED <<worker, threshold, provider, processed, race, faults>>

\* assertSufficientUserSpotBalance throws and the request leaves no trace.
RefuseRequest(w) ==
  /\ Call("request", w) \in calls
  /\ ~Affordable(w)
  /\ calls' = calls \ {Call("request", w)}
  /\ UNCHANGED <<db, worker, threshold, provider, processed, race, faults>>

\* approveWithdrawal, rejectWithdrawal and cancelWithdrawal read the row first.
ReadForDecision(op, w) ==
  /\ op \in Decisions
  /\ wd[w].status = "PENDING_APPROVAL"
  /\ Call(op, w) \notin calls
  /\ calls' = calls \cup {Call(op, w)}
  /\ UNCHANGED <<db, worker, threshold, provider, processed, race, faults>>

\* The write that follows is not conditional on the status it read.
Decided(op, w) ==
  /\ Call(op, w) \in calls
  /\ calls' = calls \ {Call(op, w)}
  /\ race' = IF wd[w].status = "PENDING_APPROVAL" THEN race
             ELSE [race EXCEPT ![w] = @ \cup {"stale"}]
  /\ UNCHANGED <<worker, threshold, provider, processed, faults>>

Approve(w) ==
  /\ Decided("approve", w)
  /\ wd' = [wd EXCEPT ![w] = [WithStatus(@, "APPROVED") EXCEPT !.admin = TRUE]]
  /\ UNCHANGED journal

Reject(w) ==
  /\ Decided("reject", w)
  /\ journal' = Post(journal, <<"release", w>>)
  /\ wd' = [wd EXCEPT ![w] = WithStatus(@, "REJECTED")]

Cancel(w) ==
  /\ Decided("cancel", w)
  /\ journal' = Post(journal, <<"release", w>>)
  /\ wd' = [wd EXCEPT ![w] = WithStatus(@, "CANCELLED")]

-----------------------------------------------------------------------------
(* The worker: processApprovedWithdrawals runs four loops over row snapshots *)

Phases == {"interrupted", "approved", "broadcasting", "broadcasted"}

NextPhase ==
  [interrupted |-> "approved", approved |-> "broadcasting",
   broadcasting |-> "broadcasted", broadcasted |-> "idle"]

\* Mutant: only rows the provider has named are recovered.
InterruptedKnown(w) ==
  wd[w].status = "BROADCASTING" /\ ~wd[w].tx /\ ~wd[w].fresh /\ wd[w].prov

\* BROADCASTING, without a hash, and not written within the grace.
Interrupted(w) == wd[w].status = "BROADCASTING" /\ ~wd[w].tx /\ ~wd[w].fresh

\* The where clause of the query each loop starts with.
Rows(phase) ==
  {w \in Withdrawals :
     CASE phase = "interrupted"  -> Interrupted(w)
       [] phase = "approved"     -> wd[w].status = "APPROVED"
       [] phase = "broadcasting" -> wd[w].status = "BROADCASTING" /\ wd[w].prov
       [] phase = "broadcasted"  -> wd[w].status = "BROADCASTED" /\ wd[w].tx}

\* What take: 20 may return: as many rows as there are, up to the limit.
Batches(S) ==
  {b \in SUBSET S : Cardinality(b) = IF Cardinality(S) < Batch THEN Cardinality(S)
                                                               ELSE Batch}

Looping(p, phase, w) ==
  /\ worker[p].phase = phase
  /\ worker[p].step = "loop"
  /\ w \in worker[p].todo

Handling(p, phase, step, w) ==
  /\ worker[p].phase = phase
  /\ worker[p].step = step
  /\ worker[p].cur = w

\* The loop goes on to its next row, or to the next loop when none is left.
Continue(p, w) ==
  LET rest == worker[p].todo \ {w}
  IN  worker' = [worker EXCEPT ![p] =
        IF rest = {} THEN At(NextPhase[@.phase])
        ELSE [@ EXCEPT !.step = "loop", !.todo = rest, !.cur = None, !.got = "none"]]

Hold(p, step, w) ==
  worker' = [worker EXCEPT ![p].step = step, ![p].cur = w]

\* A pass starts (workerRunning was false) with autoApproveEligiblePending.
StartPass(p) ==
  /\ worker[p].phase = "idle"
  /\ worker' = [worker EXCEPT ![p] = At("interrupted")]
  /\ wd' = [w \in Withdrawals |->
              IF /\ threshold > 0
                 /\ wd[w].status = "PENDING_APPROVAL"
                 /\ Amount[w] <= threshold
              THEN WithStatus(wd[w], "APPROVED") ELSE wd[w]]
  /\ UNCHANGED <<journal, calls, threshold, provider, processed, race, faults>>

\* The findMany that opens a loop.
Find(p) ==
  /\ worker[p].step = "find"
  /\ worker[p].phase # "idle"
  /\ \E b \in Batches(Rows(worker[p].phase)) :
       worker' = [worker EXCEPT ![p] =
         IF b = {} THEN At(NextPhase[@.phase])
         ELSE [@ EXCEPT !.step = "loop", !.todo = b]]
  /\ UNCHANGED <<db, calls, threshold, provider, processed, race, faults>>

\* The provider has, or may still get, a request it can pay this withdrawal for.
Unresolved(w) ==
  \/ custody[w] \in {"accepted", "broadcasted", "mined"}
  \/ custody[w] = "none" /\ w \in inflight

Marked(w, label) ==
  IF Unresolved(w) /\ wd[w].status \notin Refunded
  THEN [race EXCEPT ![w] = @ \cup {label}] ELSE race

\* recoverInterruptedBroadcasting: no hash after the grace, so refund.
FailInterrupted(p, w) ==
  /\ Looping(p, "interrupted", w)
  /\ FailAndRelease(w)
  /\ race' = Marked(w, "unresolved")
  /\ Continue(p, w)
  /\ UNCHANGED <<calls, threshold, provider, processed, faults>>

\* broadcastNextApproved: custody disabled, not ready, token not verified, or
\* the hot wallet missing: deferApprovedWithdrawal leaves the row APPROVED.
Defer(p, w) ==
  /\ Looping(p, "approved", w)
  /\ Continue(p, w)
  /\ UNCHANGED <<db, calls, threshold, provider, processed, race, faults>>

\* Liquid custody is short of the amount.
FailUnderfunded(p, w) ==
  /\ Looping(p, "approved", w)
  /\ FailAndRelease(w)
  /\ race' = Marked(w, "rival")
  /\ Continue(p, w)
  /\ UNCHANGED <<calls, threshold, provider, processed, faults>>

\* Mutant: the row is not looked at again.
AnyStatus(w) == TRUE

\* The where clause of the two updateMany that guard a broadcast.
StillApproved(w) == wd[w].status = "APPROVED"

\* The first updateMany: it goes on only if the row is still APPROVED.
Claim(p, w) ==
  /\ Looping(p, "approved", w)
  /\ IF StillApproved(w) THEN Hold(p, "prepare", w) ELSE Continue(p, w)
  /\ UNCHANGED <<db, calls, threshold, provider, processed, race, faults>>

\* prepareEvmWithdrawalBroadcast throws: the hot wallet was not funded in time.
PrepareFails(p, w) ==
  /\ Handling(p, "approved", "prepare", w)
  /\ FailAndRelease(w)
  /\ race' = Marked(w, "rival")
  /\ Continue(p, w)
  /\ UNCHANGED <<calls, threshold, provider, processed, faults>>

\* The second updateMany, and the request leaves for the provider.
Send(p, w) ==
  /\ Handling(p, "approved", "prepare", w)
  /\ IF StillApproved(w)
     THEN /\ wd' = [wd EXCEPT ![w] = WithStatus(@, "BROADCASTING")]
          /\ inflight' = inflight \cup {w}
          /\ Hold(p, "sending", w)
     ELSE /\ Continue(p, w)
          /\ UNCHANGED <<wd, inflight>>
  /\ UNCHANGED <<journal, calls, threshold, custody, emitted, processed, race, faults>>

\* The provider answered: BROADCASTED whatever the row says now, and the pass
\* leaves this loop (return), whatever is left of the batch.
SendReturns(p, w) ==
  /\ Handling(p, "approved", "sending", w)
  /\ custody[w] \in {"broadcasted", "mined", "reverted"}
  /\ wd' = [wd EXCEPT ![w] = Traced(WithStatus(@, "BROADCASTED"), TRUE)]
  /\ worker' = [worker EXCEPT ![p] = At("broadcasting")]
  /\ UNCHANGED <<journal, calls, threshold, provider, processed, race, faults>>

\* The send, or the write after it, throws: an error of the provider, the
\* 45-second timeout, the database.  None of them says that nothing was sent.
SendFails(p, w) ==
  /\ Handling(p, "approved", "sending", w)
  /\ FailAndRelease(w)
  /\ race' = Marked(w, "unresolved")
  /\ Continue(p, w)
  /\ UNCHANGED <<calls, threshold, provider, processed, faults>>

\* recoverBroadcasting: getTransaction, awaited before the row is written.
AskProvider(p, w) ==
  /\ Looping(p, "broadcasting", w)
  /\ custody[w] # "none"
  /\ worker' = [worker EXCEPT ![p].step = "apply", ![p].cur = w, ![p].got = custody[w]]
  /\ UNCHANGED <<db, calls, threshold, provider, processed, race, faults>>

ApplyProvider(p, w) ==
  /\ Handling(p, "broadcasting", "apply", w)
  /\ CASE worker[p].got \in {"broadcasted", "mined"} ->
            /\ wd' = [wd EXCEPT ![w] = Traced(WithStatus(@, "BROADCASTED"), TRUE)]
            /\ UNCHANGED journal
       [] worker[p].got \in {"reverted", "failed"} -> FailAndRelease(w)
       [] OTHER -> UNCHANGED db
  /\ Continue(p, w)
  /\ UNCHANGED <<calls, threshold, provider, processed, race, faults>>

\* Mutant: a block is enough, without WITHDRAWAL_CONFIRMATIONS.
OutcomeUnconfirmed(w) ==
  CASE custody[w] \in {"broadcasted", "mined"} -> "settle"
    [] custody[w] = "reverted"                 -> "refund"
    [] OTHER                                   -> "wait"

\* What the receipt and the confirmations of the transfer say.
Outcome(w) ==
  CASE custody[w] = "mined"    -> "settle"
    [] custody[w] = "reverted" -> "refund"
    [] OTHER                   -> "wait"

\* confirmBroadcasted: settles a transfer with its confirmations, refunds a
\* reverted one, and waits for the others.  The status is not read again.
Confirm(p, w) ==
  /\ Looping(p, "broadcasted", w)
  /\ CASE Outcome(w) = "settle" ->
            /\ journal' = Post(journal, <<"settle", w>>)
            /\ wd' = [wd EXCEPT ![w] = WithStatus(@, "CONFIRMED")]
       [] Outcome(w) = "refund" -> FailAndRelease(w)
       [] Outcome(w) = "wait"   -> UNCHANGED db
  /\ Continue(p, w)
  /\ UNCHANGED <<calls, threshold, provider, processed, race, faults>>

\* recoverBroadcasting and confirmBroadcasted catch what one row throws.
SkipRow(p, w) ==
  /\ faults < MaxFaults
  /\ \/ Looping(p, "broadcasting", w)
     \/ Handling(p, "broadcasting", "apply", w)
     \/ Looping(p, "broadcasted", w)
  /\ Continue(p, w)
  /\ faults' = faults + 1
  /\ UNCHANGED <<db, calls, threshold, provider, processed, race>>

\* Anything else a pass throws ends it (finally workerRunning = false).
AbortPass(p) ==
  /\ faults < MaxFaults
  /\ worker[p].phase # "idle"
  /\ worker' = [worker EXCEPT ![p] = At("idle")]
  /\ faults' = faults + 1
  /\ UNCHANGED <<db, calls, threshold, provider, processed, race>>

\* A process stops and is started again; the api may come back with another
\* threshold.  Calls under way are lost, requests already sent are not.
Crash(p) ==
  /\ faults < MaxFaults
  /\ worker' = [worker EXCEPT ![p] = At("idle")]
  /\ IF p = Api THEN calls' = {} /\ threshold' \in Thresholds
                ELSE UNCHANGED <<calls, threshold>>
  /\ faults' = faults + 1
  /\ UNCHANGED <<db, provider, processed, race>>

\* WITHDRAWAL_BROADCAST_INTERRUPT_GRACE_MS passes since the row was written.
GraceElapses(w) ==
  /\ wd[w].fresh
  /\ wd' = [wd EXCEPT ![w].fresh = FALSE]
  /\ UNCHANGED <<journal, calls, worker, threshold, provider, processed, race, faults>>

-----------------------------------------------------------------------------
(* The custody provider and the chain: not part of this repository.  The      *)
(* provider pays a reference id once (idempotency_key), pays it or gives it   *)
(* up, and emits one webhook event for each thing that happens to it.         *)

Provide(w, from, to, event) ==
  /\ custody[w] \in from
  /\ custody' = [custody EXCEPT ![w] = to]
  /\ emitted' = [emitted EXCEPT ![w] = @ \cup {event}]
  /\ UNCHANGED <<db, calls, worker, threshold, processed, race, faults>>

\* A request arrives; a second one for the same reference id changes nothing.
Accept(w) ==
  /\ w \in inflight
  /\ inflight' = inflight \ {w}
  /\ custody' = [custody EXCEPT ![w] = IF @ = "none" THEN "accepted" ELSE @]
  /\ UNCHANGED <<db, calls, worker, threshold, emitted, processed, race, faults>>

\* A request is refused or lost on its way.
Drop(w) ==
  /\ w \in inflight
  /\ inflight' = inflight \ {w}
  /\ UNCHANGED <<db, calls, worker, threshold, custody, emitted, processed, race, faults>>

Announce(w)  == Provide(w, {"accepted"}, "accepted", "pending") /\ UNCHANGED inflight
Broadcast(w) == Provide(w, {"accepted"}, "broadcasted", "broadcasted") /\ UNCHANGED inflight
Mine(w)      == Provide(w, {"broadcasted"}, "mined", "confirmed") /\ UNCHANGED inflight
Revert(w)    == Provide(w, {"broadcasted"}, "reverted", "execution_reverted") /\ UNCHANGED inflight
GiveUp(w)    == Provide(w, {"accepted", "broadcasted"}, "failed", "failed") /\ UNCHANGED inflight

-----------------------------------------------------------------------------
(* The webhook: events arrive late, in any order, or never.  The row of        *)
(* ProviderWebhookEvent makes a second delivery of an event a no-op (P2002).   *)

EventTypes == {"pending", "broadcasted", "confirmed", "execution_reverted", "failed"}
Hashed     == {"broadcasted", "confirmed", "execution_reverted"}

\* Mutant: a provider error is taken for a failure.
FailsOnError(event) == event \in {"pending", "execution_reverted", "failed"}

\* The events that fail and refund the withdrawal.
Fails(event) == event \in {"execution_reverted", "failed"}

\* The status an event writes; the others keep the one the row has.
EventStatus(w, event) ==
  CASE Fails(event)                           -> "FAILED"
    [] event \in {"broadcasted", "confirmed"} -> "BROADCASTED"
    [] OTHER                                  -> wd[w].status

\* handlePrivyWebhook: one Serializable transaction, whatever the row's status.
Deliver(w, event) ==
  /\ event \in emitted[w] \ processed[w]
  /\ processed' = [processed EXCEPT ![w] = @ \cup {event}]
  /\ wd' = [wd EXCEPT ![w] = Traced(WithStatus(@, EventStatus(w, event)), event \in Hashed)]
  /\ journal' = IF Fails(event) THEN Post(journal, <<"release", w>>) ELSE journal
  /\ UNCHANGED <<calls, worker, threshold, provider, race, faults>>

-----------------------------------------------------------------------------
(* The specification *)

Endpoint(w) ==
  \/ CheckRequest(w) \/ CreateWithdrawal(w) \/ CreateInternalTransfer(w)
  \/ RefuseRequest(w)
  \/ \E op \in Decisions : ReadForDecision(op, w)
  \/ Approve(w) \/ Reject(w) \/ Cancel(w)

WorkerStep(p) ==
  \/ StartPass(p) \/ Find(p)
  \/ \E w \in Withdrawals :
       \/ FailInterrupted(p, w)
       \/ Defer(p, w) \/ FailUnderfunded(p, w) \/ Claim(p, w)
       \/ PrepareFails(p, w) \/ Send(p, w) \/ SendReturns(p, w) \/ SendFails(p, w)
       \/ AskProvider(p, w) \/ ApplyProvider(p, w) \/ Confirm(p, w)

Fault(p) ==
  \/ \E w \in Withdrawals : SkipRow(p, w)
  \/ AbortPass(p) \/ Crash(p)

Custody(w) ==
  \/ Accept(w) \/ Drop(w) \/ Announce(w) \/ Broadcast(w)
  \/ Mine(w) \/ Revert(w) \/ GiveUp(w)

Webhook(w) == \E event \in EventTypes : Deliver(w, event)

Next ==
  \/ \E w \in Withdrawals : Endpoint(w) \/ GraceElapses(w) \/ Custody(w) \/ Webhook(w)
  \/ \E p \in Workers : WorkerStep(p) \/ Fault(p)

Spec == Init /\ [][Next]_vars

\* The cron fires every ten seconds and the event loop runs what it started;
\* time passes.  Nothing is assumed of users, administrators, the provider or
\* the delivery of its webhooks.
Fairness ==
  /\ \A p \in Workers : WF_vars(WorkerStep(p))
  /\ \A w \in Withdrawals : WF_vars(GraceElapses(w))

FairSpec == Spec /\ Fairness

-----------------------------------------------------------------------------
(* Types *)

Calls == [op : {"request", "approve", "reject", "cancel"}, w : Withdrawals]

Row == [status : Status, tx : BOOLEAN, prov : BOOLEAN, fresh : BOOLEAN,
        admin : BOOLEAN]

CustodyState == {"none", "accepted", "broadcasted", "mined", "reverted", "failed"}

WorkerState ==
  [phase : {"idle"} \cup Phases,
   step  : {"find", "loop", "prepare", "sending", "apply"},
   todo  : SUBSET Withdrawals,
   cur   : Withdrawals \cup {None},
   got   : CustodyState]

\* Type invariant of the withdrawal service.
TypeOK ==
  /\ wd \in [Withdrawals -> Row]
  /\ journal \in [Keys -> Nat]
  /\ calls \subseteq Calls
  /\ worker \in [Workers -> WorkerState]
  /\ threshold \in Thresholds
  /\ custody \in [Withdrawals -> CustodyState]
  /\ inflight \subseteq Withdrawals
  /\ emitted \in [Withdrawals -> SUBSET EventTypes]
  /\ processed \in [Withdrawals -> SUBSET EventTypes]
  /\ race \in [Withdrawals -> SUBSET {"stale", "unresolved", "rival"}]
  /\ faults \in 0..MaxFaults

-----------------------------------------------------------------------------
(* Properties *)

Paid(w) == custody[w] = "mined"
Sent(w) == custody[w] # "none" \/ w \in inflight

\* No spot balance goes below zero: the balance is read in the Serializable
\* transaction that reserves it, for plain requests and internal transfers,
\* whatever other requests of the same user are doing.
SpotNonNegative == \A u \in Users : SpotBalance(u) >= 0

\* A withdrawal shown as failed, rejected or cancelled has had its reserve
\* returned: every path that writes such a status (decisions, the worker's
\* failures, the failing webhooks) posts the release in the same transaction.
RefundedIsReleased ==
  \A w \in Withdrawals : wd[w].status \in Refunded => Posted("release", w)

\* A withdrawal shown as confirmed was an internal transfer, or its transfer is
\* on the chain and settled; nothing is settled that was not reserved and mined.
ConfirmedIsPaid ==
  \A w \in Withdrawals :
    /\ wd[w].status = "CONFIRMED" => Posted("settle", w) \/ Posted("internal", w)
    /\ Posted("settle", w) => Posted("reserve", w) /\ Paid(w)

\* A withdrawal is refunded and paid only through one of three windows: a
\* decision written over a status it did not read, a refund after an attempt
\* whose outcome was not known (timeout, interruption), or a refund by a worker
\* pass that had lost the row.  The failing webhooks, recoverBroadcasting,
\* confirmBroadcasted and decisions taken in time never do it.
PaidOrRefunded ==
  \A w \in Withdrawals : Posted("release", w) /\ Paid(w) => race[w] # {}

\* An amount above every threshold in use is never handed to the provider
\* unless an administrator approved it, whatever restarts with another
\* threshold, automatic approvals and webhooks do in between.
Large(w) == \A t \in Thresholds : t <= 0 \/ Amount[w] > t
LargeNeedsAdmin ==
  \A w \in Withdrawals : Large(w) /\ Sent(w) => wd[w].admin

\* Once refunded, a withdrawal is handed to the provider only if a decision was
\* written over a status it did not read (approveWithdrawal's update).
RefundedIsNotSent ==
  [][\A w \in Withdrawals :
       Posted("release", w) /\ w \notin inflight /\ w \in inflight' => "stale" \in race[w]]_vars

\* What users can spend plus what left the platform never exceeds what came in,
\* but for the withdrawals that went through a race window.
Solvent ==
  LET out  == SumOver([w \in Withdrawals |-> IF Paid(w) THEN Amount[w] ELSE 0])
      held == SumOver([u \in Users |-> SpotBalance(u)])
      lost == SumOver([w \in Withdrawals |-> IF race[w] # {} THEN Amount[w] + Fee[w] ELSE 0])
  IN  held + out <= SumOver(Funding) + lost

\* No spot balance goes below zero, whatever requests and internal transfers race for it,
\* and what users can spend plus what left the platform never exceeds what came in, but
\* for the withdrawals that went through a race window (postTransaction and
\* assertSufficientUserSpotBalance).
MoneyIsKept == SpotNonNegative /\ Solvent

\* A row does not stay BROADCASTING: the interrupt recovery or the provider's
\* answer takes it out, even if the process dies while it is sending.
BroadcastingEnds(w) == wd[w].status = "BROADCASTING" ~> wd[w].status # "BROADCASTING"

\* A broadcast withdrawal whose transfer is mined reaches a final status, however
\* events are lost or repeated.
MinedIsFinished(w) == wd[w].status = "BROADCASTED" /\ Paid(w) ~> wd[w].status \in Terminal

-----------------------------------------------------------------------------
(* The promise kept: a withdrawal is an item in escrow *)

\* What has become of the money of a withdrawal: a payment is what the chain
\* says, not what the row says.
Spent(w) == Paid(w) \/ Posted("internal", w)

StageOf(w) ==
  CASE Spent(w) /\ Posted("release", w)   -> "both"
    [] Spent(w) /\ ~Posted("release", w)  -> "spent"
    [] ~Spent(w) /\ Posted("release", w)  -> "returned"
    [] ~Spent(w) /\ ~Posted("release", w) -> IF Posted("reserve", w) THEN "held" ELSE "none"

Promise == INSTANCE Escrow WITH
  Items     <- Withdrawals,
  stage     <- [w \in Withdrawals |-> StageOf(w)],
  contested <- {w \in Withdrawals : race[w] # {}}

\* Withdrawals implements Escrow: whatever decisions, worker passes, webhook
\* events and restarts do, a reserve is posted first, paid out once or returned
\* once, and both only behind a race window; no payment or refund is undone.
KeepsPromise == Promise!Spec
=============================================================================
