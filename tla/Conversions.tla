----------------------------- MODULE Conversions -----------------------------
(***************************************************************************)
(* Conversions of one asset into another, from the exchange's own reserve   *)
(* or by a swap on an EVM chain: quotes, execution, and the worker that     *)
(* sends the swap, measures what it brought and settles                     *)
(* (src/apps/api/src/modules/convert/convert.service.ts).                   *)
(*                                                                          *)
(* Amounts in the wallet that swaps are made from count from what it held   *)
(* at the start, and leave gas out: what a swap itself paid is added back.  *)
(***************************************************************************)
EXTENDS Ledger

CONSTANTS
  Quotes,     \* the quotes users may ask for
  Offer,      \* the terms of each quote, see OfferType
  Requests,   \* calls of POST /convert/execute that may be made
  QuoteOf,    \* the quote a request executes
  ClientId,   \* its clientConversionId, chosen by the user
  Users,
  Assets,
  Native,     \* the assets that are a chain's own coin
  Funding,    \* balance of each user in each asset at the start
  FeeRate,    \* CONVERT_FEE_BPS, over RateBase
  RateBase,
  DailyLimit, \* CONVERT_DAILY_LIMIT_USDC
  Outputs,    \* what a swap may bring
  Workers,    \* the processes that run the worker
  MaxFaults,  \* bound on crashes and failed calls
  None        \* no request

OfferType ==
  [user : Users, from : Assets, to : Assets, amount : Nat \ {0},
   gross : Nat \ {0},   \* the output quoted, fee included
   min : Nat \ {0},     \* the least net output of a swap
   value : Nat \ {0},   \* the side that is a dollar, for the limits
   reserve : BOOLEAN]   \* provider INTERNAL_RESERVE, else a swap

ASSUME ConversionsAssumption ==
  /\ IsFiniteSet(Requests)
  /\ Offer \in [Quotes -> OfferType]
  /\ \A q \in Quotes : Offer[q].from # Offer[q].to
  /\ QuoteOf \in [Requests -> Quotes]
  /\ DOMAIN ClientId = Requests
  /\ None \notin Requests
  /\ Native \subseteq Assets
  /\ Funding \in [Users -> [Assets -> Nat]]
  /\ RateBase \in Nat \ {0}
  /\ FeeRate \in 0..(RateBase - 1)   \* env.validation.ts allows 300 of 10000
  /\ DailyLimit \in Nat
  /\ Outputs \subseteq Nat \ {0}
  /\ MaxFaults \in Nat

VARIABLES
  quote,    \* status of the ConversionQuote rows
  expired,  \* the quotes whose time to live is over
  conv,     \* the Conversion rows, by the request that creates them
  journal,  \* entries of the ledger transactions by idempotency key
  calls,    \* requests that have looked the client id up and not yet executed
  worker,   \* where each process is in processing a conversion
  swap,     \* the swap of each conversion at the provider and on chain
  brought,  \* what a mined swap brought to the wallet
  window,   \* history: errors after which the service knows less than it needs
  orphan,   \* history: conversions left EXECUTING with nobody to finish them
  faults    \* crashes and failed calls so far

vars == <<quote, expired, conv, journal, calls, worker, swap, brought, window, orphan, faults>>
chain == <<swap, brought>>
users == <<quote, expired, calls>>

-----------------------------------------------------------------------------
(* Rows, keys, entries and balances *)

Status == {"ABSENT", "PENDING", "EXECUTING", "FILLED", "FAILED"}
Final  == {"FILLED", "FAILED"}

Keys == {"reserve", "release", "trade"} \X Requests

Terms(r) == Offer[QuoteOf[r]]

Spot(u, asset)  == <<"USER_SPOT", u, asset>>
Clearing(asset) == <<"PROVIDER_CLEARING", "platform", asset>>
Fees(asset)     == <<"PLATFORM_FEES", "platform", asset>>

SpotBalance(u, asset) == Funding[u][asset] + Holding(journal, Spot(u, asset))

ReserveEntries(r) ==
  <<Debit(Spot(Terms(r).user, Terms(r).from), Terms(r).amount),
    Credit(Clearing(Terms(r).from), Terms(r).amount)>>
ReleaseEntries(r) ==
  <<Debit(Clearing(Terms(r).from), Terms(r).amount),
    Credit(Spot(Terms(r).user, Terms(r).from), Terms(r).amount)>>

FeeOf(gross) == (gross * FeeRate) \div RateBase

TradeEntries(r, gross) ==
  <<Debit(Clearing(Terms(r).to), gross),
    Credit(Spot(Terms(r).user, Terms(r).to), gross - FeeOf(gross))>>
  \o (IF FeeOf(gross) > 0 THEN <<Credit(Fees(Terms(r).to), FeeOf(gross))>> ELSE <<>>)

Posted(op, r) == journal[<<op, r>>] # <<>>

Absent == [status |-> "ABSENT", at |-> 0, hash |-> FALSE, before |-> 0]
Idle   == [step |-> "idle", r |-> None, before |-> 0, gross |-> 0, release |-> FALSE]

Init ==
  /\ quote = [q \in Quotes |-> "ABSENT"]
  /\ expired = {}
  /\ conv = [r \in Requests |-> Absent]
  /\ journal = [k \in Keys |-> <<>>]
  /\ calls = {}
  /\ worker = [p \in Workers |-> Idle]
  /\ swap = [r \in Requests |-> "none"]
  /\ brought = [r \in Requests |-> 0]
  /\ window = [r \in Requests |-> {}]
  /\ orphan = {}
  /\ faults = 0

Rows == {r \in Requests : conv[r].status # "ABSENT"}

-----------------------------------------------------------------------------
(* POST /convert/quote *)

\* What assertOrderLimits counts as used today: failed conversions are left out.
UsedToday(u) ==
  MapThenSumSet(LAMBDA r : Terms(r).value,
    {r \in Rows : Terms(r).user = u /\ conv[r].status \in {"PENDING", "EXECUTING", "FILLED"}})

\* createQuote: the limits are checked here and not when the quote is executed.
CreateQuote(q) ==
  /\ quote[q] = "ABSENT"
  /\ DailyLimit > 0 => UsedToday(Offer[q].user) + Offer[q].value <= DailyLimit
  /\ quote' = [quote EXCEPT ![q] = "ACTIVE"]
  /\ UNCHANGED <<expired, conv, journal, calls, worker, chain, window, orphan, faults>>

\* The time to live of a quote ends.
Expire(q) ==
  /\ quote[q] = "ACTIVE"
  /\ q \notin expired
  /\ expired' = expired \cup {q}
  /\ UNCHANGED <<quote, conv, journal, calls, worker, chain, window, orphan, faults>>

-----------------------------------------------------------------------------
(* POST /convert/execute *)

SameClient(r, s) == Terms(r).user = Terms(s).user /\ ClientId[r] = ClientId[s]

\* A client id that is known is answered with its conversion.
LookUp(r) ==
  /\ r \notin calls
  /\ ~\E s \in Rows : SameClient(r, s)
  /\ calls' = calls \cup {r}
  /\ UNCHANGED <<quote, expired, conv, journal, worker, chain, window, orphan, faults>>

Usable(q) == quote[q] = "ACTIVE" /\ q \notin expired

Affordable(r) == SpotBalance(Terms(r).user, Terms(r).from) >= Terms(r).amount

\* Mutant: nothing but the lookup in front of the transaction.
InsertAny(r) == TRUE

\* The unique indexes on the quote and on user and client id.
Insertable(r) == ~\E s \in Rows : SameClient(r, s) \/ QuoteOf[s] = QuoteOf[r]

\* The Serializable transaction of execute.
Execute(r) ==
  /\ r \in calls
  /\ Usable(QuoteOf[r])
  /\ Affordable(r)
  /\ Insertable(r)
  /\ conv' = [conv EXCEPT ![r] = [Absent EXCEPT !.status = "PENDING", !.at = Cardinality(Rows) + 1]]
  /\ journal' = Record(journal, <<"reserve", r>>, ReserveEntries(r))
  /\ quote' = [quote EXCEPT ![QuoteOf[r]] = "CONSUMED"]
  /\ calls' = calls \ {r}
  /\ UNCHANGED <<expired, worker, chain, window, orphan, faults>>

\* The transaction throws: for the reasons above, or because the coverage or the
\* inventory is short.  Writing EXPIRED to the quote is rolled back with it.
Refuse(r) ==
  /\ r \in calls
  /\ calls' = calls \ {r}
  /\ UNCHANGED <<quote, expired, conv, journal, worker, chain, window, orphan, faults>>

-----------------------------------------------------------------------------
(* The worker: runWorker, every two seconds, one conversion at a time *)

Cur(p) == worker[p].r
At(p, step) == worker[p].step = step
Goes(p, step) == worker' = [worker EXCEPT ![p].step = step]
Ends(p) == worker' = [worker EXCEPT ![p] = Idle]

Fault == faults < MaxFaults /\ faults' = faults + 1

\* processConversion catches an error.
Throws(p, release, why) ==
  /\ worker' = [worker EXCEPT ![p].step = "fail", ![p].release = release]
  /\ window' = [window EXCEPT ![Cur(p)] = @ \cup why]

Pending == {r \in Requests : conv[r].status = "PENDING"}

\* Mutant: the newest first.
NewestPending == CHOOSE r \in Pending : \A s \in Pending : conv[s].at <= conv[r].at

OldestPending == CHOOSE r \in Pending : \A s \in Pending : conv[r].at <= conv[s].at

Find(p) ==
  /\ At(p, "idle")
  /\ Pending # {}
  /\ worker' = [worker EXCEPT ![p] = [Idle EXCEPT !.step = "found", !.r = OldestPending]]
  /\ UNCHANGED <<users, conv, journal, chain, window, orphan, faults>>

\* Mutant: the status is not part of the update's condition.
ClaimAny(r) == TRUE

Claimable(r) == conv[r].status = "PENDING"

Claim(p) ==
  /\ At(p, "found")
  /\ IF Claimable(Cur(p))
     THEN /\ conv' = [conv EXCEPT ![Cur(p)].status = "EXECUTING"]
          /\ Goes(p, "start")
     ELSE Ends(p) /\ UNCHANGED conv
  /\ UNCHANGED <<users, journal, chain, window, orphan, faults>>

\* What swaps have brought to the wallet and taken from it so far.
Inflow(r, asset) ==
  IF swap[r] # "mined" THEN 0
  ELSE IF Terms(r).to = asset THEN brought[r]
  ELSE IF Terms(r).from = asset THEN 0 - Terms(r).amount ELSE 0

NetInflow(asset) == SumOver([r \in Requests |-> Inflow(r, asset)])

\* The reserve covers the output quoted.
ServeFromReserve(p) ==
  /\ At(p, "start")
  /\ Terms(Cur(p)).reserve
  /\ worker' = [worker EXCEPT ![p].step = "settle", ![p].gross = Terms(Cur(p)).gross]
  /\ UNCHANGED <<users, conv, journal, chain, window, orphan, faults>>

\* Inventory, allowance and balance are read and the swap is built.
Prepare(p) ==
  /\ At(p, "start")
  /\ ~Terms(Cur(p)).reserve
  /\ ~conv[Cur(p)].hash
  /\ worker' = [worker EXCEPT ![p].step = "send", ![p].before = NetInflow(Terms(Cur(p)).to)]
  /\ UNCHANGED <<users, conv, journal, chain, window, orphan, faults>>

\* The coverage or the inventory is short, or anything fails before the send.
Unprepared(p) ==
  /\ At(p, "start")
  /\ ~conv[Cur(p)].hash
  /\ Throws(p, TRUE, {})
  /\ UNCHANGED <<users, conv, journal, chain, orphan, faults>>

\* The approval of the token is still pending after 45 seconds.
ApprovalPending(p) ==
  /\ At(p, "start")
  /\ ~Terms(Cur(p)).reserve
  /\ ~conv[Cur(p)].hash
  /\ Goes(p, "defer")
  /\ UNCHANGED <<users, conv, journal, chain, window, orphan, faults>>

\* A later attempt waits for the stored transaction.
Resume(p) ==
  /\ At(p, "start")
  /\ conv[Cur(p)].hash
  /\ worker' = [worker EXCEPT ![p].step = "wait", ![p].before = conv[Cur(p)].before]
  /\ UNCHANGED <<users, conv, journal, chain, window, orphan, faults>>

\* The wallet's address cannot be read; the transaction has not been looked at.
ResumeThrows(p) ==
  /\ Fault
  /\ At(p, "start")
  /\ conv[Cur(p)].hash
  /\ Throws(p, TRUE, {"blind"})
  /\ UNCHANGED <<users, conv, journal, chain, orphan>>

\* The request leaves; the provider knows one swap per conversion.
Send(p) ==
  /\ At(p, "send")
  /\ swap' = [swap EXCEPT ![Cur(p)] = IF @ = "none" THEN "asked" ELSE @]
  /\ Goes(p, "sending")
  /\ UNCHANGED <<users, conv, journal, brought, window, orphan, faults>>

SendReturns(p) ==
  /\ At(p, "sending")
  /\ swap[Cur(p)] \in {"accepted", "mined", "reverted"}
  /\ Goes(p, "record")
  /\ UNCHANGED <<users, conv, journal, chain, window, orphan, faults>>

\* The provider rejects the request.
SendRefused(p) ==
  /\ At(p, "sending")
  /\ swap[Cur(p)] = "asked"
  /\ swap' = [swap EXCEPT ![Cur(p)] = "none"]
  /\ Throws(p, TRUE, {})
  /\ UNCHANGED <<users, conv, journal, brought, orphan, faults>>

\* No answer, or an error, whatever became of the request.
SendThrows(p) ==
  /\ Fault
  /\ At(p, "sending")
  /\ Throws(p, TRUE, {"send"})
  /\ UNCHANGED <<users, conv, journal, chain, orphan>>

\* Mutant: the wallet's balance before the swap is not stored with the hash.
RecordHashOnly(p) ==
  /\ At(p, "record")
  /\ conv' = [conv EXCEPT ![Cur(p)].hash = TRUE]
  /\ Goes(p, "wait")
  /\ UNCHANGED <<users, journal, chain, window, orphan, faults>>

RecordHash(p) ==
  /\ At(p, "record")
  /\ conv' = [conv EXCEPT ![Cur(p)].hash = TRUE, ![Cur(p)].before = worker[p].before]
  /\ Goes(p, "wait")
  /\ UNCHANGED <<users, journal, chain, window, orphan, faults>>

RecordThrows(p) ==
  /\ Fault
  /\ At(p, "record")
  /\ Throws(p, TRUE, {"record"})
  /\ UNCHANGED <<users, conv, journal, chain, orphan>>

\* waitForEvmTransaction returns a receipt, signed by the wallet that was asked.
SeeMined(p) ==
  /\ At(p, "wait")
  /\ swap[Cur(p)] = "mined"
  /\ Goes(p, "read")
  /\ UNCHANGED <<users, conv, journal, chain, window, orphan, faults>>

\* The receipt, of the swap or of the approval before it, names another wallet:
\* it was reconfigured since the send.
UnexpectedSender(p) ==
  /\ Fault
  /\ \/ At(p, "wait") /\ swap[Cur(p)] = "mined"
     \/ At(p, "start") /\ ~Terms(Cur(p)).reserve /\ ~conv[Cur(p)].hash
  /\ Throws(p, FALSE, {})
  /\ UNCHANGED <<users, conv, journal, chain, orphan>>

SeeReverted(p) ==
  /\ At(p, "wait")
  /\ swap[Cur(p)] = "reverted"
  /\ Throws(p, TRUE, {})
  /\ UNCHANGED <<users, conv, journal, chain, orphan, faults>>

StillPending(p) ==
  /\ At(p, "wait")
  /\ swap[Cur(p)] = "accepted"
  /\ Goes(p, "defer")
  /\ UNCHANGED <<users, conv, journal, chain, window, orphan, faults>>

\* The node does not answer for 45 seconds; its errors are swallowed.
Unanswered(p) ==
  /\ Fault
  /\ At(p, "wait")
  /\ swap[Cur(p)] # "accepted"
  /\ Goes(p, "defer")
  /\ UNCHANGED <<users, conv, journal, chain, window, orphan>>

\* finalizeEvmOutput: a token's output is read from the receipt, a coin's is
\* what the wallet gained since the swap was built.
Measured(r, before) ==
  IF Terms(r).to \in Native THEN NetInflow(Terms(r).to) - before ELSE brought[r]

Reconciled(r, gross) == gross > 0 /\ gross - FeeOf(gross) >= Terms(r).min

ReadOutput(p) ==
  LET gross == Measured(Cur(p), worker[p].before)
  IN  /\ At(p, "read")
      /\ IF Reconciled(Cur(p), gross)
         THEN /\ worker' = [worker EXCEPT ![p].step = "settle", ![p].gross = gross]
              /\ UNCHANGED window
         ELSE Throws(p, FALSE, {})
      /\ UNCHANGED <<users, conv, journal, chain, orphan, faults>>

\* The balance is read for tokens too, and the read may fail.
ReadThrows(p) ==
  /\ Fault
  /\ At(p, "read")
  /\ Throws(p, TRUE, {"late"})
  /\ UNCHANGED <<users, conv, journal, chain, orphan>>

\* The transaction of settleConversion.
SettleConversion(r, gross) ==
  IF conv[r].status = "FILLED" THEN UNCHANGED <<conv, journal>>
  ELSE /\ journal' = Record(journal, <<"trade", r>>, TradeEntries(r, gross))
       /\ conv' = [conv EXCEPT ![r].status = "FILLED"]

Settle(p) ==
  /\ At(p, "settle")
  /\ SettleConversion(Cur(p), worker[p].gross)
  /\ Ends(p)
  /\ UNCHANGED <<users, chain, window, orphan, faults>>

\* It is rolled back, by a serialization failure for one.
SettleThrows(p) ==
  /\ Fault
  /\ At(p, "settle")
  /\ Throws(p, TRUE, IF Terms(Cur(p)).reserve THEN {} ELSE {"late"})
  /\ UNCHANGED <<users, conv, journal, chain, orphan>>

\* It commits and its answer is lost.
SettleReplyLost(p) ==
  /\ Fault
  /\ At(p, "settle")
  /\ SettleConversion(Cur(p), worker[p].gross)
  /\ Throws(p, TRUE, {})
  /\ UNCHANGED <<users, chain, orphan>>

\* Mutant: a filled conversion is failed like any other.
NeverClosed(r) == FALSE

Closed(r) == conv[r].status = "FILLED"

\* failConversion
FailConversion(p) ==
  /\ At(p, "fail")
  /\ IF Closed(Cur(p)) THEN UNCHANGED <<conv, journal>>
     ELSE /\ journal' = IF worker[p].release
                        THEN Record(journal, <<"release", Cur(p)>>, ReleaseEntries(Cur(p)))
                        ELSE journal
          /\ conv' = [conv EXCEPT ![Cur(p)].status = "FAILED"]
  /\ Ends(p)
  /\ UNCHANGED <<users, chain, window, orphan, faults>>

\* The catch of PendingProviderTransactionError: another attempt will be made.
Defer(p) ==
  /\ At(p, "defer")
  /\ conv' = [conv EXCEPT ![Cur(p)].status = "PENDING"]
  /\ Ends(p)
  /\ UNCHANGED <<users, journal, chain, window, orphan, faults>>

\* The status cannot be written, or the process dies: nobody looks for rows that
\* are EXECUTING.
Abandon(p) ==
  /\ Fault
  /\ ~At(p, "idle")
  /\ orphan' = IF ~At(p, "found") /\ conv[Cur(p)].status = "EXECUTING"
               THEN orphan \cup {Cur(p)} ELSE orphan
  /\ Ends(p)
  /\ UNCHANGED <<users, conv, journal, chain, window>>

-----------------------------------------------------------------------------
(* The provider and the chain *)

OnChain(r, from, to) ==
  /\ swap[r] = from
  /\ swap' = [swap EXCEPT ![r] = to]
  /\ UNCHANGED <<users, conv, journal, worker, window, orphan, faults>>

Accept(r) == OnChain(r, "asked", "accepted") /\ UNCHANGED brought
Revert(r) == OnChain(r, "accepted", "reverted") /\ UNCHANGED brought
Mine(r, output) ==
  /\ OnChain(r, "accepted", "mined")
  /\ brought' = [brought EXCEPT ![r] = output]

-----------------------------------------------------------------------------
(* The specification *)

Endpoint ==
  \/ \E q \in Quotes : CreateQuote(q) \/ Expire(q)
  \/ \E r \in Requests : LookUp(r) \/ Execute(r) \/ Refuse(r)

Process(p) ==
  \/ Find(p) \/ Claim(p)
  \/ ServeFromReserve(p) \/ Prepare(p) \/ Unprepared(p) \/ ApprovalPending(p) \/ Resume(p)
  \/ Send(p) \/ SendReturns(p) \/ SendRefused(p) \/ RecordHash(p)
  \/ SeeMined(p) \/ SeeReverted(p) \/ StillPending(p)
  \/ ReadOutput(p) \/ Settle(p) \/ FailConversion(p) \/ Defer(p)

Failure(p) ==
  \/ ResumeThrows(p) \/ SendThrows(p) \/ RecordThrows(p) \/ UnexpectedSender(p)
  \/ Unanswered(p) \/ ReadThrows(p) \/ SettleThrows(p) \/ SettleReplyLost(p) \/ Abandon(p)

Chain == \E r \in Requests : Accept(r) \/ Revert(r) \/ \E output \in Outputs : Mine(r, output)

Next == Endpoint \/ (\E p \in Workers : Process(p) \/ Failure(p)) \/ Chain

Spec == Init /\ [][Next]_vars

\* The interval fires every two seconds and the awaits of a pass return or throw.
\* Nothing is assumed of the provider and the chain.
FairSpec == Spec /\ \A p \in Workers : WF_vars(Process(p))

-----------------------------------------------------------------------------
(* Properties *)

Entry == [account : {"USER_SPOT"} \X Users \X Assets
                      \cup {"PROVIDER_CLEARING", "PLATFORM_FEES"} \X {"platform"} \X Assets,
          direction : {"DEBIT", "CREDIT"},
          amount : Nat \ {0}]

Steps == {"idle", "found", "start", "send", "sending", "record", "wait", "read",
          "settle", "fail", "defer"}

\* Type invariant of conversions; every entry has a positive amount.
TypeOK ==
  /\ quote \in [Quotes -> {"ABSENT", "ACTIVE", "CONSUMED"}]
  /\ expired \subseteq Quotes
  /\ conv \in [Requests -> [status : Status, at : Nat, hash : BOOLEAN, before : Int]]
  /\ DOMAIN journal = Keys
  /\ \A k \in Keys : \A i \in DOMAIN journal[k] : journal[k][i] \in Entry
  /\ calls \subseteq Requests
  /\ worker \in [Workers -> [step : Steps, r : Requests \cup {None}, before : Int,
                             gross : Int, release : BOOLEAN]]
  /\ swap \in [Requests -> {"none", "asked", "accepted", "mined", "reverted"}]
  /\ brought \in [Requests -> Nat]
  /\ window \in [Requests -> SUBSET {"blind", "send", "record", "late"}]
  /\ orphan \subseteq Requests
  /\ faults \in 0..MaxFaults

\* docs/convert-operations.md:11: output is credited only after a successful receipt
\* and reconciliation.  What is credited is what the conversion's own swap brought;
\* for a coin this holds only while no swap is under way that the service has
\* lost sight of, by an error or an abandoned attempt.
Credited(r) == - NetOf(journal[<<"trade", r>>], Clearing(Terms(r).to))
Lost(r) == window[r] # {} \/ r \in orphan
OutputBacked ==
  \A r \in Requests :
    conv[r].status = "FILLED" /\ ~Terms(r).reserve =>
      /\ swap[r] = "mined"
      /\ \/ Credited(r) = brought[r]
         \/ Terms(r).to \in Native /\ \E s \in Requests : Lost(s)

\* A conversion that is EXECUTING is processed by exactly one process, unless its
\* attempt was cut short; none is processed by two.
Processing(r) == {p \in Workers : Cur(p) = r /\ ~At(p, "found")}
AttendedOnce ==
  \A r \in Requests :
    /\ Cardinality(Processing(r)) <= 1
    /\ conv[r].status = "EXECUTING" /\ r \notin orphan => Processing(r) # {}

\* No balance goes below zero: executions of one user race for it.
SpotNonNegative == \A u \in Users : \A a \in Assets : SpotBalance(u, a) >= 0

\* A quote makes one conversion and a client conversion id makes one, however often
\* and however concurrently they are executed.
OneConversion ==
  \A r, s \in Rows : SameClient(r, s) \/ QuoteOf[r] = QuoteOf[s] => r = s

\* Two worker processes never run one conversion, a quote or a client conversion id makes
\* one conversion, and no balance is overdrawn by them (the claim of runWorker, the unique
\* columns and the balance check that execute relies on).
OneAtATime == AttendedOnce /\ OneConversion /\ SpotNonNegative

\* Once its swap is mined, a conversion is finished, unless its attempt was cut
\* short: the worker is not held up by conversions behind it.
MinedIsFinished(r) == swap[r] = "mined" ~> conv[r].status \in Final \/ r \in orphan

-----------------------------------------------------------------------------
(* The promise kept: a conversion is an item in escrow *)

Spent(r) == swap[r] = "mined" \/ Posted("trade", r)

StageOf(r) ==
  CASE Spent(r) /\ Posted("release", r)   -> "both"
    [] Spent(r) /\ ~Posted("release", r)  -> "spent"
    [] ~Spent(r) /\ Posted("release", r)  -> "returned"
    [] ~Spent(r) /\ ~Posted("release", r) -> IF Posted("reserve", r) THEN "held" ELSE "none"

Promise == INSTANCE Escrow WITH
  Items     <- Requests,
  stage     <- [r \in Requests |-> StageOf(r)],
  contested <- {r \in Requests : window[r] # {}}

\* Conversions implements Escrow: a reserve is swapped once or returned once, and
\* both only after an error that left the service not knowing which.
KeepsPromise == Promise!Spec
===============================================================================
