------------------------------- MODULE Deposits -------------------------------
(***************************************************************************)
(* Deposits of one ERC-20 token to the personal address of one user: the    *)
(* intents a user may announce them with, the scanner and the webhook that   *)
(* find transfers on chain, the reconciliation of unconfirmed ones, credit,  *)
(* and the reversal of transfers that turn out to be the exchange's own      *)
(* (src/apps/api/src/modules/deposits).                                      *)
(*                                                                          *)
(* Each serializable transaction is one action; what its caller reads from   *)
(* the database or the chain before it is an earlier action.                 *)
(***************************************************************************)
EXTENDS Ledger

CONSTANTS
  Transfers,   \* token transfers that may be sent to the address
  Amount,      \* what each one moves
  FromWallet,  \* those that match an intent: the user's wallet, the exact amount
  Internal,    \* those sent from an address that is later found to be the user's own
               \* deposit address or the gas wallet
  MaxIntents,  \* bound on the intents the user creates
  Callers,     \* endpoint calls that may be under way at once
  Scanners,    \* "cron", "webhook" or both
  MaxBusy,     \* bound on the calls, scans and reconciliations between two steps
  Confirmations, \* network.confirmations
  Overlap,     \* network.reorgOverlapBlocks
  Window,      \* blocks before its cursor that a scan reads again
  MaxHeight,   \* bound on the height of the chain
  MaxReorgs,   \* bound on the transfers a reorganisation takes out of their block
  MaxFaults,   \* bound on restarts
  None

Intents == 1..MaxIntents

ASSUME DepositsAssumption ==
  /\ IsFiniteSet(Transfers)
  /\ Amount \in [Transfers -> Nat \ {0}]
  /\ FromWallet \subseteq Transfers
  /\ Internal \subseteq Transfers \ FromWallet
  /\ MaxIntents \in Nat
  /\ Scanners \subseteq {"cron", "webhook"}
  /\ None \notin Intents \cup Transfers
  /\ MaxBusy \in Nat
  /\ Confirmations \in Nat \ {0}
  /\ Overlap \in Nat
  /\ Window \in Nat
  /\ MaxHeight \in Nat
  /\ MaxReorgs \in Nat
  /\ MaxFaults \in Nat

VARIABLES
  row,      \* the Deposit rows, one per transaction hash and log index
  intent,   \* the DepositIntent rows
  journal,  \* ledger transactions by idempotency key
  lapsed,   \* intents whose expiresAt has passed
  known,    \* internal transfers whose sender has been registered
  calls,    \* endpoint calls between their reads and their writes
  scan,     \* where the scans are
  cursor,   \* DepositIndexerCursor.lastBlock
  check,    \* what the reconciliation is about to write
  suspect,  \* the deposit the reclassification has read
  block,    \* the block each transfer is in, 0 for none
  height,   \* the latest block
  swept,    \* deposits whose sweep has been sent
  moved,    \* tokens the sweeps have taken off the address
  reorged,  \* history: transfers that a reorganisation took out of their block
  faults    \* restarts so far

rows  == <<row, intent, journal>>
chain == <<block, height, swept, moved, reorged>>
procs == <<calls, scan, cursor, check, suspect>>
vars  == <<rows, lapsed, known, procs, chain, faults>>

-----------------------------------------------------------------------------
(* Rows, keys and entries *)

\* DETECTED lasts no longer than the transaction that writes it, which goes on
\* to credit the deposit.  A deposit is UNMATCHED exactly when it has no user.
Status == {"ABSENT", "PENDING_CONFIRMATION", "CREDITED", "UNMATCHED", "FAILED"}
Active == {"PENDING", "SUBMITTED", "DETECTED", "CONFIRMED"}
IntentStatus == Active \cup {"ABSENT", "CREDITED", "EXPIRED", "FAILED", "CANCELLED"}

Keys == {"credit", "reversal"} \X Transfers

Spot    == <<"USER_SPOT", "user">>
Pending == <<"PENDING_DEPOSIT", "platform">>

Entries == [k \in Keys |->
  IF k[1] = "credit"
  THEN <<Debit(Pending, Amount[k[2]]), Credit(Spot, Amount[k[2]])>>
  ELSE <<Debit(Spot, Amount[k[2]]), Credit(Pending, Amount[k[2]])>>]

Posted(op, t) == journal[<<op, t>>] > 0

\* What the ledger holds for the user on account of a deposit.
Held(t) == journal[<<"credit", t>>] * NetOf(Entries[<<"credit", t>>], Spot)
         + journal[<<"reversal", t>>] * NetOf(Entries[<<"reversal", t>>], Spot)

AmountOf(S) == MapThenSumSet(LAMBDA t : Amount[t], S)

-----------------------------------------------------------------------------
(* The chain *)

Mined == {t \in Transfers : block[t] # 0}
OnChain == AmountOf(Mined) - moved

ConfirmationsAt(latest, b) == latest - b + 1
Deep(t) == t \in Mined /\ ConfirmationsAt(height, block[t]) >= Confirmations

\* Every transfer waits in the mempool from the start, for as long as it likes.
NextBlock ==
  /\ height < MaxHeight
  /\ height' = height + 1
  /\ \E S \in SUBSET (Transfers \ Mined) :
       block' = [t \in Transfers |-> IF t \in S THEN height' ELSE block[t]]
  /\ UNCHANGED <<rows, lapsed, known, procs, swept, moved, reorged, faults>>

\* No reorganisation reaches a block that has its confirmations.
Reorg(t) ==
  /\ t \in Mined /\ ~Deep(t)
  /\ OnChain >= Amount[t]
  /\ Cardinality(reorged) < MaxReorgs
  /\ block' = [block EXCEPT ![t] = 0]
  /\ reorged' = reorged \cup {t}
  /\ UNCHANGED <<rows, lapsed, known, procs, height, swept, moved, faults>>

\* DepositSweepService: what a credited deposit brought leaves the address, or what
\* is left there.
Sweep(t) ==
  /\ row[t].status = "CREDITED"
  /\ t \notin swept
  /\ OnChain > 0
  /\ swept' = swept \cup {t}
  /\ moved' = moved + (IF Amount[t] <= OnChain THEN Amount[t] ELSE OnChain)
  /\ UNCHANGED <<rows, lapsed, known, procs, block, height, reorged, faults>>

-----------------------------------------------------------------------------
(* Initial state *)

NoRow    == [status |-> "ABSENT", intent |-> None, block |-> 0, confirmations |-> 0]
NoIntent == [status |-> "ABSENT", tx |-> None]
NoCall   == [step |-> "idle", i |-> None, t |-> None, block |-> 0, confirmations |-> 0, result |-> "ABSENT"]
NoScan   == [todo |-> {}, latest |-> 0, next |-> None, i |-> None]
NoCheck  == [step |-> "idle", t |-> None, i |-> None, block |-> 0, confirmations |-> 0]

\* Blocks are counted from the one the cursor stands at.
Init ==
  /\ row = [t \in Transfers |-> NoRow]
  /\ intent = [i \in Intents |-> NoIntent]
  /\ journal = [k \in Keys |-> 0]
  /\ lapsed = {}
  /\ known = {}
  /\ calls = [c \in Callers |-> NoCall]
  /\ scan = [s \in Scanners |-> NoScan]
  /\ cursor = 0
  /\ check = NoCheck
  /\ suspect = None
  /\ block = [t \in Transfers |-> 0]
  /\ height = 0
  /\ swept = {}
  /\ moved = 0
  /\ reorged = {}
  /\ faults = 0

\* A process starts only while fewer than MaxBusy others are under way.
MayStart ==
  Cardinality({c \in Callers : calls[c].step # "idle"})
  + Cardinality({s \in Scanners : scan[s].todo # {}})
  + Cardinality({d \in {check} : d.step # "idle"})
  + Cardinality({suspect} \ {None}) < MaxBusy

-----------------------------------------------------------------------------
(* The transaction every detection ends in *)

Now == [row |-> row, intent |-> intent, journal |-> journal]

\* Mutant: the hash of an intent is not unique.
UniqueDeposit(s) ==
  \A t, u \in Transfers : t # u => s.row[t].intent = None \/ s.row[t].intent # s.row[u].intent

\* The unique indexes: a deposit's intent, an intent's transaction hash.
Unique(s) ==
  /\ \A t, u \in Transfers : t # u => s.row[t].intent = None \/ s.row[t].intent # s.row[u].intent
  /\ \A i, j \in Intents : i # j => s.intent[i].tx = None \/ s.intent[i].tx # s.intent[j].tx

\* syncIntentStatus, whatever the status was.
Sync(s, i, t, confirmations) ==
  IF i = None THEN s
  ELSE [s EXCEPT !.intent[i] =
          [status |-> IF confirmations >= Confirmations THEN "CONFIRMED" ELSE "DETECTED",
           tx     |-> t]]

\* creditDepositInTransaction: its intent is credited with it.
CreditRow(s, t) ==
  LET i == s.row[t].intent IN
  [row     |-> [s.row EXCEPT ![t].status = "CREDITED"],
   journal |-> Post(s.journal, <<"credit", t>>),
   intent  |-> IF i = None THEN s.intent ELSE [s.intent EXCEPT ![i].status = "CREDITED"]]

\* A new row, a row that gets its intent, a row that has its confirmations: each is
\* written, its intent follows, and it is credited if it may be.
Enter(t, i, b, confirmations) ==
  LET e == row[t]
      r == IF e.status = "ABSENT"
           THEN [status |-> "PENDING_CONFIRMATION", intent |-> i, block |-> b, confirmations |-> confirmations]
           ELSE [e EXCEPT !.status = "PENDING_CONFIRMATION", !.confirmations = confirmations,
                          !.intent = IF @ = None THEN i ELSE @]
      s == Sync([Now EXCEPT !.row[t] = r], r.intent, t, confirmations)
  IN  IF confirmations >= Confirmations THEN CreditRow(s, t) ELSE s

\* recordDetectedDepositInTransaction, for a transfer seen in block b.
Recorded(t, i, b, confirmations) ==
  LET e == row[t] IN
  IF \/ e.status = "ABSENT"
     \/ i # None /\ e.intent = None
     \/ e.status = "PENDING_CONFIRMATION" /\ confirmations >= Confirmations
  THEN Enter(t, i, b, confirmations)
  ELSE IF confirmations > e.confirmations
  THEN Sync([Now EXCEPT !.row[t].confirmations = confirmations], e.intent, t, confirmations)
  ELSE Now

\* A transaction that breaks an index writes nothing; three attempts end the same way.
Write(s) ==
  LET w == IF Unique(s) THEN s ELSE Now
  IN  row' = w.row /\ intent' = w.intent /\ journal' = w.journal

-----------------------------------------------------------------------------
(* Deposit intents: POST /deposits/intents, its submission and its polling *)

\* createIntent: the intents it replaces are cancelled in the same transaction.
CreateIntent(i) ==
  /\ intent[i].status = "ABSENT"
  /\ \A j \in Intents : intent[j].status = "ABSENT" => i <= j
  /\ intent' = [j \in Intents |->
       IF j = i THEN [status |-> "PENDING", tx |-> None]
       ELSE IF intent[j].status \in Active THEN [intent[j] EXCEPT !.status = "CANCELLED"]
       ELSE intent[j]]
  /\ UNCHANGED <<row, journal, lapsed, known, procs, chain, faults>>

\* DEPOSIT_INTENT_TTL_SECONDS pass.
Lapse(i) ==
  /\ intent[i].status = "PENDING"
  /\ i \notin lapsed
  /\ lapsed' = lapsed \cup {i}
  /\ UNCHANGED <<rows, known, procs, chain, faults>>

Forgotten == {i \in lapsed : intent[i].status = "PENDING" /\ intent[i].tx = None}

\* DepositIntentCleanupService.expirePendingIntents
ExpireIntents ==
  /\ Forgotten # {}
  /\ intent' = [i \in Intents |->
       IF i \in Forgotten THEN [intent[i] EXCEPT !.status = "EXPIRED"] ELSE intent[i]]
  /\ UNCHANGED <<row, journal, lapsed, known, procs, chain, faults>>

\* submitIntent reads the intent and asks the chain for the transaction; getIntent
\* does the same with the hash the intent has, while it has no deposit.
Submit(c, i, t) ==
  /\ calls[c].step = "idle" /\ MayStart
  /\ t \in FromWallet
  /\ intent[i].status \notin {"ABSENT", "CREDITED"}
  /\ calls' = [calls EXCEPT ![c] =
       [NoCall EXCEPT
          !.step = IF i \in lapsed /\ intent[i].tx = None THEN "late"
                   ELSE IF t \in Mined THEN "mined" ELSE "unmined",
          !.i = i, !.t = t, !.block = block[t],
          !.confirmations = IF t \in Mined THEN ConfirmationsAt(height, block[t]) ELSE 0]]
  /\ UNCHANGED <<rows, lapsed, known, scan, cursor, check, suspect, chain, faults>>

\* refreshIntentConfirmationState reads the deposit of an intent and the latest
\* block, and takes the block of the deposit from its row.
Refresh(c, i, t) ==
  /\ calls[c].step = "idle" /\ MayStart
  /\ row[t].intent = i
  /\ row[t].status # "CREDITED"
  /\ calls' = [calls EXCEPT ![c] =
       [NoCall EXCEPT !.step = "refresh", !.i = i, !.t = t, !.block = row[t].block,
                      !.confirmations = ConfirmationsAt(height, row[t].block)]]
  /\ UNCHANGED <<rows, lapsed, known, scan, cursor, check, suspect, chain, faults>>

\* The intent is written without another look at it.
Overwrite(c, status, tx) ==
  LET i == calls[c].i
      s == [Now EXCEPT !.intent[i] = [status |-> status, tx |-> tx]]
  IN  /\ Write(s)
      /\ calls' = [calls EXCEPT ![c] = NoCall]

MarkExpired(c) ==
  /\ calls[c].step = "late"
  /\ Overwrite(c, "EXPIRED", intent[calls[c].i].tx)
  /\ UNCHANGED <<lapsed, known, scan, cursor, check, suspect, chain, faults>>

MarkSubmitted(c) ==
  /\ calls[c].step = "unmined"
  /\ Overwrite(c, "SUBMITTED", calls[c].t)
  /\ UNCHANGED <<lapsed, known, scan, cursor, check, suspect, chain, faults>>

\* submitIntent records the deposit, and goes on with what the record returned
\* unless it threw.
RecordCall(c) ==
  LET call == calls[c]
      s == Recorded(call.t, call.i, call.block, call.confirmations)
  IN  /\ call.step \in {"mined", "refresh"}
      /\ Write(s)
      /\ calls' = [calls EXCEPT ![c] =
           IF call.step = "mined" /\ Unique(s)
           THEN [call EXCEPT !.step = "finish", !.result = s.row[call.t].status]
           ELSE NoCall]
      /\ UNCHANGED <<lapsed, known, scan, cursor, check, suspect, chain, faults>>

\* submitIntent writes the intent once more, outside that transaction.
Finish(c) ==
  /\ calls[c].step = "finish"
  /\ Overwrite(c, IF calls[c].result = "CREDITED" THEN "CREDITED"
                  ELSE IF calls[c].confirmations >= Confirmations THEN "CONFIRMED" ELSE "DETECTED",
               calls[c].t)
  /\ UNCHANGED <<lapsed, known, scan, cursor, check, suspect, chain, faults>>

-----------------------------------------------------------------------------
(* The scanner and the Alchemy webhook *)

\* The transfer logs a scan is given, with the blocks they are in.
Logs(S) == {<<t, block[t]>> : t \in S}

\* scanConfiguredErc20ContractGroups, from its cursor less the overlap.
StartScan ==
  /\ "cron" \in Scanners
  /\ scan["cron"].todo = {} /\ MayStart
  /\ LET found == {t \in Mined : block[t] >= cursor - Window} IN
       /\ scan' = [scan EXCEPT !["cron"] = [NoScan EXCEPT !.todo = Logs(found), !.latest = height]]
       /\ cursor' = IF found = {} THEN height ELSE cursor
       /\ scan' # scan \/ cursor' # cursor
  /\ UNCHANGED <<rows, lapsed, known, calls, check, suspect, chain, faults>>

\* AlchemyDepositWebhookService.handle scans the block of the event, which it
\* also takes for the latest.  An event may be late, and is repeated on error.
Deliver(t) ==
  /\ "webhook" \in Scanners
  /\ scan["webhook"].todo = {} /\ MayStart
  /\ t \in Mined
  /\ scan' = [scan EXCEPT !["webhook"] = [NoScan EXCEPT !.todo = Logs({t}), !.latest = block[t]]]
  /\ UNCHANGED <<rows, lapsed, known, calls, cursor, check, suspect, chain, faults>>

\* sumTrackedRawDeposits: everything the address was ever credited with counts.
Tracked ==
  AmountOf({t \in Transfers : row[t].status \in {"PENDING_CONFIRMATION", "CREDITED"}})

\* Mutant: a transfer that makes up exactly what is missing is skipped too.
SkippedAtBalance(t) == Tracked > 0 /\ Tracked + Amount[t] >= OnChain

\* shouldSkipPersonalDepositDetection
Skipped(t) == Tracked > 0 /\ Tracked + Amount[t] > OnChain

\* The intents a log matches.
Matching(t) ==
  {i \in Intents : /\ t \in FromWallet
                   /\ intent[i].status \in Active
                   /\ intent[i].tx \in {None, t}}

\* Oldest first.
MatchOf(t) ==
  IF Matching(t) = {} THEN None
  ELSE CHOOSE i \in Matching(t) : \A j \in Matching(t) : i <= j

\* A scan moves on to its next log, and its cursor when it has seen them all.
Advance(s, l) ==
  /\ scan' = [scan EXCEPT ![s] = [scan[s] EXCEPT !.todo = @ \ {l}, !.next = None, !.i = None]]
  /\ cursor' = IF s = "cron" /\ scan[s].todo = {l} THEN scan[s].latest ELSE cursor

\* The intent, the balance and the sender are looked up for the oldest log left.
Look(s) ==
  /\ scan[s].next = None
  /\ \E l \in scan[s].todo :
       /\ \A m \in scan[s].todo : l[2] <= m[2]
       /\ IF Skipped(l[1]) \/ l[1] \in known
          THEN Advance(s, l)
          ELSE /\ scan' = [scan EXCEPT ![s].next = l, ![s].i = MatchOf(l[1])]
               /\ UNCHANGED cursor
  /\ UNCHANGED <<rows, lapsed, known, calls, check, suspect, chain, faults>>

\* What is found is recorded; an error ends the scan and leaves its cursor.
RecordLog(s) ==
  LET l == scan[s].next IN
  /\ l # None
  /\ LET r == Recorded(l[1], scan[s].i, l[2], ConfirmationsAt(scan[s].latest, l[2])) IN
       /\ Write(r)
       /\ IF Unique(r) THEN Advance(s, l)
          ELSE scan' = [scan EXCEPT ![s] = NoScan] /\ UNCHANGED cursor
  /\ UNCHANGED <<lapsed, known, calls, check, suspect, chain, faults>>

-----------------------------------------------------------------------------
(* Reconciliation every 30 seconds, reclassification every five minutes *)

\* Mutant: the log is not looked for.
NotSought(t) == TRUE

\* The log is still where the row says it is.
StillCanonical(t) == block[t] = row[t].block

\* reconcilePendingDeposits reads an unconfirmed deposit and the chain.
Reconcile(t) ==
  LET gone == ~StillCanonical(t) IN
  /\ check.step = "idle" /\ MayStart
  /\ row[t].status = "PENDING_CONFIRMATION"
  /\ gone => height - row[t].block >= Overlap
  /\ check' = [step |-> IF gone THEN "fail" ELSE "record", t |-> t, i |-> row[t].intent,
               block |-> row[t].block, confirmations |-> ConfirmationsAt(height, row[t].block)]
  /\ UNCHANGED <<rows, lapsed, known, calls, scan, cursor, suspect, chain, faults>>

RecordCheck ==
  /\ check.step = "record"
  /\ Write(Recorded(check.t, check.i, check.block, check.confirmations))
  /\ check' = NoCheck
  /\ UNCHANGED <<lapsed, known, calls, scan, cursor, suspect, chain, faults>>

\* The deposit and its intent have failed, whatever has become of them since.
FailGone ==
  /\ check.step = "fail"
  /\ row' = [row EXCEPT ![check.t].status = "FAILED"]
  /\ intent' = IF check.i = None THEN intent ELSE [intent EXCEPT ![check.i].status = "FAILED"]
  /\ check' = NoCheck
  /\ UNCHANGED <<journal, lapsed, known, calls, scan, cursor, suspect, chain, faults>>

\* The sender becomes one of the exchange's own addresses.
Register(t) ==
  /\ t \in Internal \ known
  /\ known' = known \cup {t}
  /\ UNCHANGED <<rows, lapsed, procs, chain, faults>>

\* Mutant: the row is left as it is.
KeepRow(t) == row

Unmatched(t) == [row EXCEPT ![t].status = "UNMATCHED"]

\* Mutant: the credit is reversed whether or not there is one.
ReversedAlways(t) == Post(journal, <<"reversal", t>>)

Reversed(t) ==
  IF row[t].status = "CREDITED" THEN Post(journal, <<"reversal", t>>) ELSE journal

\* reclassifyInternalDepositAddressTransferDeposits and
\* reclassifySweepGasFundingDeposits read the deposits there are,
Suspect(t) ==
  /\ suspect = None /\ MayStart
  /\ t \in Internal
  /\ row[t].status \in {"PENDING_CONFIRMATION", "CREDITED"}
  /\ suspect' = t
  /\ UNCHANGED <<rows, lapsed, known, calls, scan, cursor, check, chain, faults>>

\* and in one transaction for each take back what was credited.
Reclassify ==
  LET t == suspect IN
  /\ t # None
  /\ IF t \in known /\ row[t].status # "UNMATCHED"
     THEN journal' = Reversed(t) /\ row' = Unmatched(t)
     ELSE UNCHANGED <<journal, row>>
  /\ suspect' = None
  /\ UNCHANGED <<intent, lapsed, known, calls, scan, cursor, check, chain, faults>>

\* The process restarts: what was under way is dropped.
Restart ==
  /\ faults < MaxFaults
  /\ faults' = faults + 1
  /\ calls' = [c \in Callers |-> NoCall]
  /\ scan' = [s \in Scanners |-> NoScan]
  /\ check' = NoCheck
  /\ suspect' = None
  /\ <<calls, scan, check, suspect>>' # <<calls, scan, check, suspect>>
  /\ UNCHANGED <<rows, lapsed, known, cursor, chain>>

-----------------------------------------------------------------------------
(* Specification *)

Environment ==
  \/ \E t \in Transfers : Reorg(t) \/ Sweep(t) \/ Register(t)
  \/ NextBlock
  \/ \E i \in Intents : CreateIntent(i) \/ Lapse(i)
  \/ Restart

Calls ==
  \E c \in Callers :
    \/ \E i \in Intents, t \in Transfers : Submit(c, i, t) \/ Refresh(c, i, t)
    \/ MarkExpired(c) \/ MarkSubmitted(c) \/ RecordCall(c) \/ Finish(c)

Scans ==
  \/ StartScan
  \/ \E t \in Transfers : Deliver(t)
  \/ \E s \in Scanners : Look(s) \/ RecordLog(s)

Checks ==
  \/ \E t \in Transfers : Reconcile(t) \/ Suspect(t)
  \/ Reclassify \/ RecordCheck \/ FailGone \/ ExpireIntents

Next == Environment \/ Calls \/ Scans \/ Checks

Spec == Init /\ [][Next]_vars

\* Started calls go on, and the scheduler keeps starting scans and checks.  Users,
\* the webhook, the chain and the sweeps owe nothing.  A pass of the reconciliation
\* visits every unconfirmed deposit, so none is passed over for ever.
Fairness ==
  /\ WF_vars(StartScan)
  /\ \A s \in Scanners : WF_vars(Look(s)) /\ WF_vars(RecordLog(s))
  /\ \A t \in Transfers : SF_vars(Reconcile(t))
  /\ WF_vars(RecordCheck) /\ WF_vars(FailGone)
  /\ \A c \in Callers : WF_vars(MarkExpired(c) \/ MarkSubmitted(c) \/ RecordCall(c) \/ Finish(c))

FairSpec == Spec /\ Fairness

-----------------------------------------------------------------------------
(* Properties *)

\* Every row the services write is one the schema and the chain allow: a deposit has
\* at least the confirmation of the block it was seen in (recordDetectedDeposit).
TypeOK ==
  /\ row \in [Transfers -> [status : Status, intent : Intents \cup {None},
                            block : 0..MaxHeight, confirmations : 0..MaxHeight]]
  /\ \A t \in Transfers : row[t].status # "ABSENT" => row[t].confirmations > 0
  /\ intent \in [Intents -> [status : IntentStatus, tx : Transfers \cup {None}]]
  /\ journal \in [Keys -> Nat]
  /\ lapsed \subseteq Intents /\ known \subseteq Internal
  /\ suspect \in Internal \cup {None}
  /\ \A c \in Callers : calls[c].step # "idle" => calls[c].i \in Intents /\ calls[c].t \in Transfers
  /\ \A s \in Scanners : scan[s].next # None => scan[s].next \in scan[s].todo
  /\ cursor \in 0..height /\ height \in 0..MaxHeight
  /\ moved \in 0..AmountOf(Transfers)

\* The ledger credits a transfer at most once, whoever finds it: the scanner, the
\* webhook, the user's submission and the polling all end in creditDepositInTransaction
\* (docs: "CREDITED exactly once").  A deposit shown as credited is money the user still
\* has been given, and one that was taken back is never shown so again
\* (reclassifyInternalDepositAddressTransferDeposits).
CreditedOnce ==
  \A t \in Transfers : /\ Held(t) \in {0, Amount[t]}
                       /\ row[t].status = "CREDITED" => Held(t) = Amount[t]

\* A deposit nobody announced is credited for a transfer that is on chain with its
\* confirmations: reconcilePendingDeposits looks for its log first.
UnlinkedCreditIsMined ==
  \A t \in Transfers :
    row[t].status = "CREDITED" /\ row[t].intent = None => Deep(t)

\* An intent shown as credited names a transfer that has been credited, and no two
\* name the same: one payment never settles two intents, although submitIntent and
\* the scans write intents they read long before (docs: "Only CREDITED
\* means the trading balance has been increased").
CreditedIntentIsPaid ==
  \A i \in Intents : intent[i].status = "CREDITED" =>
    /\ intent[i].tx # None /\ Held(intent[i].tx) = Amount[intent[i].tx]
    /\ \A j \in Intents \ {i} : intent[j].tx # intent[i].tx

\* Until the address is swept, and where no reorganisation has struck, every confirmed
\* transfer from outside ends up credited, although the scanner, the webhook and the
\* user's calls skip what the others have recorded (shouldSkipPersonalDepositDetection).
UnsweptIsCredited ==
  \A t \in Transfers \ Internal :
    Deep(t) ~> (row[t].status = "CREDITED" \/ moved > 0 \/ reorged # {})

\* "deposits are matched by token contract/mint and personal destination address":
\* a confirmed transfer to the address is credited.
ConfirmedIsCredited ==
  \A t \in Transfers \ Internal : Deep(t) ~> row[t].status = "CREDITED"
===============================================================================
