-------------------------- MODULE SignedWithdrawals --------------------------
(***************************************************************************)
(* Withdrawals on Bitcoin, Solana and Tron: the worker of                   *)
(* withdrawals.service.ts with the adapter that builds and signs their      *)
(* transactions (non-evm-testnet-adapter.service.ts), and the operator's    *)
(* scripts that take up a failed one.  Requests, decisions and a second     *)
(* process are in module Withdrawals; here every withdrawal starts approved *)
(* and its reserve is posted.                                               *)
(*                                                                          *)
(* A Bitcoin transaction spends coins of the hot wallet; one that spends a  *)
(* coin of a transaction still in the mempool replaces it when it pays      *)
(* more.  A minimum of confirmations is one step, Mine.  Amounts are in     *)
(* steps of the replacement fee.                                            *)
(***************************************************************************)
EXTENDS Integers, Sequences, FiniteSets, FiniteSetsExt, SequencesExt

CONSTANTS
  Drafts,          \* withdrawals
  Mixes,           \* which of them a behaviour has
  FamilyOf,        \* withdrawal -> "btc", "sol" or "tron"
  CoinWorth,       \* sequence: what the coins of the Bitcoin hot wallet are worth at first
  Worth, BaseFee,  \* of every Bitcoin withdrawal; the fee of its first attempt
  MaxRetries,      \* bound: how often the operator's script takes up a failed withdrawal
  MaxFaults        \* bound: failed calls, lost answers and crashes

ASSUME SignedAssumption ==
  /\ IsFiniteSet(Drafts)
  /\ FamilyOf \in [Drafts -> {"btc", "sol", "tron"}]
  /\ Mixes \subseteq SUBSET Drafts /\ CoinWorth \in Seq(Nat) /\ Worth \in Nat /\ BaseFee \in Nat
  /\ MaxRetries \in Nat /\ MaxFaults \in Nat

VARIABLES
  draft,    \* withdrawal -> [status, attempts, tx: 0 or the transaction of its hash]
  queue,    \* approved withdrawals by approvedAt
  posted,   \* withdrawal -> its postings: "release", "retry reserve", "settle"
  sent,     \* sequence of [of, fee, ins, change, state]
  signer,   \* [pc, todo: withdrawals still to look at, rows: as they were read, w]
  listing,  \* whether the hot wallet's coins are listed from the chain alone or with the mempool
  lost,     \* withdrawal -> how many of its sends were accepted and not recorded
  retries, mishaps
signedVars == <<draft, queue, posted, sent, signer, listing, lost, retries, mishaps>>

Fresh == [w \in Drafts |-> [status |-> "APPROVED", attempts |-> 0, tx |-> 0]]
Idle  == [pc |-> "idle", todo |-> <<>>, rows |-> Fresh, w |-> CHOOSE w \in Drafts : TRUE]

SignedInit ==
  /\ \E mix \in Mixes :
       /\ draft = [w \in Drafts |-> [Fresh[w] EXCEPT !.status = IF w \in mix THEN "APPROVED" ELSE "NONE"]]
       /\ queue = SetToSeq(mix)
  /\ posted = [w \in Drafts |-> {}]
  /\ sent = <<>> /\ signer = Idle
  /\ listing \in {"chain", "mempool"}
  /\ lost = [w \in Drafts |-> 0] /\ retries = 0 /\ mishaps = 0

Mishap == mishaps < MaxFaults /\ mishaps' = mishaps + 1

\* A sequence without the one place that holds w.
Without(q, w) ==
  LET at == {i \in DOMAIN q : q[i] = w}
  IN  IF at = {} THEN q ELSE RemoveAt(q, CHOOSE i \in at : TRUE)

\* failAndRelease; the release is posted once, whatever was reserved since.
Released(d, w) == IF d[w].status = "FAILED" THEN d ELSE [d EXCEPT ![w].status = "FAILED"]
PostedRelease(p, w) ==
  IF draft[w].status = "FAILED" THEN p ELSE [p EXCEPT ![w] = @ \union {"release"}]
Refund(w) ==
  /\ draft' = Released(draft, w) /\ posted' = PostedRelease(posted, w)
  /\ queue' = Without(queue, w)

-----------------------------------------------------------------------------
(* The chains. *)
Live(t)  == sent[t].state = "live"
Mined(t) == sent[t].state \in {"mined", "failed"}

\* A coin is one of the first, or the change of transaction t, numbered -t.
ValueOf(c)   == IF c > 0 THEN CoinWorth[c] ELSE sent[-c].change
Coins        == 1..Len(CoinWorth) \union {-t : t \in {x \in DOMAIN sent : sent[x].change > 0}}
SpentBy(S)   == UNION {sent[t].ins : t \in S}
OnChain(c)   == IF c > 0 THEN TRUE ELSE Mined(-c)
MinedOnes    == {t \in DOMAIN sent : Mined(t)}
LiveOnes     == {t \in DOMAIN sent : Live(t)}

\* scantxoutset, or the explorer's /utxo, which knows the mempool.
Listed ==
  IF listing = "chain"
  THEN {c \in Coins : OnChain(c)} \ SpentBy(MinedOnes)
  ELSE {c \in Coins : OnChain(c) \/ Live(-c)} \ SpentBy(MinedOnes \union LiveOnes)

Total(S) == MapThenSumSet(ValueOf, S)

\* The transactions that spend one of the coins, and those that spend their change.
Conflicts(ins) ==
  LET direct == {t \in LiveOnes : sent[t].ins \cap ins # {}}
  IN  direct \union {t \in LiveOnes : \E x \in direct : -x \in sent[t].ins}

Mine(t) ==
  /\ Live(t) /\ (\A c \in sent[t].ins : OnChain(c))
  /\ \E ok \in BOOLEAN :
       /\ ok \/ FamilyOf[sent[t].of] # "btc"
       /\ sent' = [sent EXCEPT ![t].state = IF ok THEN "mined" ELSE "failed"]
  /\ UNCHANGED <<draft, queue, posted, signer, listing, lost, retries, mishaps>>

\* A Solana or Tron transaction that no block took in time.
Lapse(t) ==
  /\ Live(t) /\ FamilyOf[sent[t].of] # "btc"
  /\ sent' = [sent EXCEPT ![t].state = "expired"]
  /\ UNCHANGED <<draft, queue, posted, signer, listing, lost, retries, mishaps>>

-----------------------------------------------------------------------------
(* A pass of the worker. *)

\* Mutant: only what has a hash is taken up.
InterruptedKnown(w) == draft[w].status = "BROADCASTING" /\ draft[w].tx # 0

Interrupted(w) == draft[w].status = "BROADCASTING" /\ draft[w].tx = 0

\* recoverInterruptedBroadcasting (time is not modelled: a pass finds what a crash has
\* left), then the approved rows are read, the oldest approval first.
PassBegins ==
  /\ signer.pc = "idle"
  /\ LET stuck == {w \in Drafts : Interrupted(w)}
     IN  /\ draft' = [w \in Drafts |-> IF w \in stuck THEN [draft[w] EXCEPT !.status = "FAILED"] ELSE draft[w]]
         /\ posted' = [w \in Drafts |-> IF w \in stuck THEN posted[w] \union {"release"} ELSE posted[w]]
         /\ signer' = [signer EXCEPT !.pc = "rows", !.todo = queue, !.rows = draft]
  /\ UNCHANGED <<queue, sent, listing, lost, retries, mishaps>>

Following(s)  == [s EXCEPT !.pc = "rows", !.todo = Tail(@)]
Others   == <<sent, listing, lost, retries>>

\* The balance that is compared counts coins of the chain only.
Covered(w) ==
  FamilyOf[w] = "btc" => Total({c \in Listed : OnChain(c)}) >= Worth

\* The claim; the row's new attempt is counted in the same update.
Take ==
  /\ signer.pc = "rows" /\ signer.todo # <<>>
  /\ LET w == Head(signer.todo)
     IN  /\ Covered(w)
         /\ IF draft[w].status # "APPROVED"
            THEN signer' = Following(signer) /\ UNCHANGED <<draft, queue>>
            ELSE /\ draft' = [draft EXCEPT ![w].status = "BROADCASTING", ![w].attempts = @ + 1]
                 /\ queue' = Without(queue, w)
                 /\ signer' = [signer EXCEPT !.pc = "send", !.w = w]
  /\ UNCHANGED <<posted, Others, mishaps>>

FailUnderfunded ==
  /\ signer.pc = "rows" /\ signer.todo # <<>>
  /\ ~Covered(Head(signer.todo)) \/ (FamilyOf[Head(signer.todo)] # "btc" /\ Mishap)
  /\ (~Covered(Head(signer.todo)) => UNCHANGED mishaps)
  /\ Refund(Head(signer.todo)) /\ signer' = Following(signer)
  /\ UNCHANGED Others

\* The balance is not known: the row waits for another pass.  A read that throws is not
\* caught and ends the pass, its confirmations included.
BalanceUnknown ==
  /\ signer.pc = "rows" /\ signer.todo # <<>> /\ Mishap
  /\ signer' \in {Following(signer), Idle}
  /\ UNCHANGED <<draft, queue, posted, Others>>

\* The attempt is the one of the row that was read, plus one.
FeeFor(attempt) == BaseFee + attempt - 1

\* Coins are added in the order they are listed until they suffice.
Selections(w) ==
  LET need == Worth + FeeFor(signer.rows[w].attempts + 1)
  IN  {S \in SUBSET Listed : Total(S) >= need /\ \E c \in S : Total(S \ {c}) < need}

Draw(w, ins) ==
  [of |-> w, fee |-> FeeFor(signer.rows[w].attempts + 1), ins |-> ins, state |-> "live",
   change |-> IF FamilyOf[w] = "btc" THEN Total(ins) - Worth - FeeFor(signer.rows[w].attempts + 1) ELSE 0]

\* A node takes a replacement only for a higher fee.
Accepted(t) == \A x \in Conflicts(t.ins) : t.fee > sent[x].fee

Accept(t) ==
  sent' = Append([x \in DOMAIN sent |-> IF x \in Conflicts(t.ins) THEN [sent[x] EXCEPT !.state = "replaced"] ELSE sent[x]], t)

\* What may be sent now.
Drawn(w) ==
  IF FamilyOf[w] = "btc" THEN {Draw(w, S) : S \in Selections(w)} ELSE {Draw(w, {})}

Send ==
  /\ signer.pc = "send"
  /\ \E t \in Drawn(signer.w) :
       /\ Accepted(t) /\ Accept(t)
       /\ \/ signer' = [signer EXCEPT !.pc = "sent"] /\ UNCHANGED <<draft, queue, posted, lost, mishaps>>
          \/ /\ Mishap                  \* timed out, or the answer was lost
             /\ lost' = [lost EXCEPT ![signer.w] = @ + 1]
             /\ Refund(signer.w) /\ signer' = Following(signer)
  /\ UNCHANGED <<listing, retries>>

\* handleWithdrawalBroadcastFailure: the row is approved anew, behind the others.
SendRejected ==
  /\ signer.pc = "send"
  /\ \E t \in Drawn(signer.w) : ~Accepted(t)
  /\ draft' = [draft EXCEPT ![signer.w].status = "APPROVED"]
  /\ queue' = Append(queue, signer.w) /\ signer' = Following(signer)
  /\ UNCHANGED <<posted, Others, mishaps>>

SendFails ==
  /\ signer.pc = "send"
  /\ (Drawn(signer.w) = {} /\ UNCHANGED mishaps) \/ Mishap
  /\ Refund(signer.w) /\ signer' = Following(signer)
  /\ UNCHANGED Others

\* After a success the pass goes on to the confirmations.
Record ==
  /\ signer.pc = "sent"
  /\ draft' = [draft EXCEPT ![signer.w].status = "BROADCASTED", ![signer.w].tx = Len(sent)]
  /\ signer' = [signer EXCEPT !.pc = "rows", !.todo = <<>>]
  /\ UNCHANGED <<queue, posted, Others, mishaps>>

\* The write that records the hash is inside the same try.
RecordFails ==
  /\ signer.pc = "sent" /\ Mishap
  /\ lost' = [lost EXCEPT ![signer.w] = @ + 1]
  /\ Refund(signer.w) /\ signer' = Following(signer)
  /\ UNCHANGED <<sent, listing, retries>>

\* confirmBroadcasted reads its rows.
ReadSent ==
  /\ signer.pc = "rows" /\ signer.todo = <<>>
  /\ signer' = [signer EXCEPT !.pc = "confirm",
                              !.todo = SetToSeq({w \in Drafts : draft[w].status = "BROADCASTED" /\ draft[w].tx # 0}),
                              !.rows = draft]
  /\ UNCHANGED <<draft, queue, posted, Others, mishaps>>

\* The row that was read names the transaction; the row may have gone on since.
\* Mutant: a Tron transaction in a block is taken for a success, whatever it did.
OutcomeUnread(w, t) == IF Mined(t) /\ FamilyOf[w] = "tron" THEN "confirmed" ELSE "pending"

\* A Solana transaction that failed, and one that was replaced, are never confirmed and never failed.
OutcomeOf(w, t) ==
  CASE sent[t].state = "mined" -> "confirmed"
    [] sent[t].state = "failed" /\ FamilyOf[w] = "tron" -> "failed"
    [] OTHER -> "pending"

Confirm ==
  /\ signer.pc = "confirm" /\ signer.todo # <<>>
  /\ signer' = [signer EXCEPT !.todo = Tail(@)]
  /\ LET w == Head(signer.todo)
         outcome == OutcomeOf(w, signer.rows[w].tx)
     IN  CASE outcome = "failed" -> Refund(w)
           [] outcome = "confirmed" ->
                /\ draft' = [draft EXCEPT ![w].status = "CONFIRMED"]
                /\ posted' = [posted EXCEPT ![w] = @ \union {"settle"}] /\ UNCHANGED queue
           [] OTHER -> UNCHANGED <<draft, queue, posted>>
  /\ UNCHANGED <<Others, mishaps>>

\* The question or the transaction throws: the row waits for another pass.
ConfirmFails ==
  /\ signer.pc = "confirm" /\ signer.todo # <<>> /\ Mishap
  /\ signer' = [signer EXCEPT !.todo = Tail(@)]
  /\ UNCHANGED <<draft, queue, posted, Others>>

PassEnds ==
  /\ signer.pc = "confirm" /\ signer.todo = <<>> /\ signer' = Idle
  /\ UNCHANGED <<draft, queue, posted, Others, mishaps>>

Crash ==
  /\ signer.pc # "idle" /\ Mishap /\ signer' = Idle
  /\ lost' = IF signer.pc = "sent" THEN [lost EXCEPT ![signer.w] = @ + 1] ELSE lost
  /\ UNCHANGED <<draft, queue, posted, sent, listing, retries>>

-----------------------------------------------------------------------------
(* The operator's scripts. *)

\* The second reserve has one key however often the script is run.
ReservedRetry(w) == posted[w] \union {"retry reserve"}

\* retry-failed-withdrawal.ts
Retry(w) ==
  /\ draft[w].status = "FAILED" /\ retries < MaxRetries /\ retries' = retries + 1
  /\ posted' = [posted EXCEPT ![w] = ReservedRetry(w)]
  /\ draft' = [draft EXCEPT ![w].status = "APPROVED", ![w].tx = 0]
  /\ queue' = Append(queue, w)
  /\ UNCHANGED <<sent, signer, listing, lost, mishaps>>

\* recover-failed-tron-withdrawal.ts; a settlement is voided.
RecoverTron(w) ==
  /\ FamilyOf[w] = "tron" /\ draft[w].status \in {"BROADCASTED", "CONFIRMED"}
  /\ draft[w].tx # 0 /\ sent[draft[w].tx].state = "failed"
  /\ posted' = [posted EXCEPT ![w] = (@ \ {"settle"}) \union {"release"}]
  /\ draft' = [draft EXCEPT ![w].status = "FAILED"]
  /\ UNCHANGED <<queue, sent, signer, listing, lost, retries, mishaps>>

WorkerStep ==
  \/ PassBegins \/ Take \/ FailUnderfunded \/ BalanceUnknown \/ Send \/ SendRejected \/ SendFails
  \/ Record \/ RecordFails \/ ReadSent \/ Confirm \/ ConfirmFails \/ PassEnds

SignedNext ==
  \/ WorkerStep \/ Crash
  \/ \E t \in DOMAIN sent : Mine(t) \/ Lapse(t)
  \/ \E w \in Drafts : Retry(w) \/ RecoverTron(w)

SignedSpec == SignedInit /\ [][SignedNext]_signedVars

-----------------------------------------------------------------------------
(* Properties. *)
PaidOut(w)  == Cardinality({t \in DOMAIN sent : sent[t].of = w /\ sent[t].state = "mined"})
Charged(w)  == 1 - (IF "release" \in posted[w] THEN 1 ELSE 0) + (IF "retry reserve" \in posted[w] THEN 1 ELSE 0)

\* Failed sends, raised fees, replaced transactions, reverted ones, crashes and the
\* operator's scripts in any order: a withdrawal is paid out as often as its user was
\* charged, and once more for each accepted send that was not recorded; one shown as
\* confirmed was paid; one shown as failed is not charged, unless the script took it up
\* before (its second failure releases nothing: the release has been posted).
PaidAsCharged ==
  \A w \in Drafts :
    /\ PaidOut(w) <= Charged(w) + lost[w]
    /\ draft[w].status = "CONFIRMED" => PaidOut(w) >= 1 /\ Charged(w) = 1
    /\ draft[w].status = "FAILED" /\ "retry reserve" \notin posted[w] => Charged(w) = 0

\* An approved withdrawal is sent or refunded: a higher fee gets it past a transaction that
\* holds its coin.  A mined transaction of a row's hash is settled.  (A Solana transaction
\* that failed, and one that was replaced by another withdrawal's, stay BROADCASTED.)
IsSent(w) ==
  /\ draft[w].status \in {"APPROVED", "BROADCASTING"} ~> draft[w].status \notin {"APPROVED", "BROADCASTING"}
  /\ draft[w].status = "BROADCASTED" /\ OutcomeOf(w, draft[w].tx) # "pending" ~> draft[w].status # "BROADCASTED"
===============================================================================
