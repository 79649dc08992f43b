----------------------------- MODULE DepositScans -----------------------------
(***************************************************************************)
(* How payments to one personal address are found on the chains that have   *)
(* no transfer logs: native coins of an EVM chain block by block, Bitcoin   *)
(* from a cursor, Tron by time, and SPL tokens by the address's signatures  *)
(* and, as a fallback, by comparing its balance with what was recorded      *)
(* (deposit-indexer.service.ts, non-evm-testnet-adapter.service.ts).  The   *)
(* scheduled indexer and the user's own sync run side by side.              *)
(*                                                                          *)
(* Confirmed and credited are one transaction (module Deposits has its      *)
(* inside, intents and reorganisations), and the time of a Tron block is    *)
(* its height.                                                              *)
(***************************************************************************)
EXTENDS Ledger

CONSTANTS
  Payments, Sum,       \* payment -> its amount
  Streams,             \* the kinds an address may be of
  Required,            \* confirmations
  ScanOverlap,         \* reorg overlap; for Tron the overlap of time
  Finality,            \* age at which a Tron transaction is listed as confirmed
  PerRun,              \* native blocks of one run
  MaxHead,             \* bound: stream -> height of the chain
  MaxScanFaults        \* bound: stream -> failed passes and lookups

ASSUME ScanAssumption ==
  /\ Streams \subseteq {"native", "btc", "tron", "spl"}
  /\ IsFiniteSet(Payments) /\ Sum \in [Payments -> Nat \ {0}]
  /\ {Required, ScanOverlap, Finality, PerRun} \subseteq Nat /\ {MaxHead, MaxScanFaults} \subseteq [Streams -> Nat]
  /\ PerRun > ScanOverlap + 1   \* 20 and 2: otherwise a native scan does not get beyond its cursor

Finders == {"cron", "user"}

VARIABLES
  stream,     \* the kind of the address
  head,       \* height of the chain
  came,       \* payment -> the block it is in, or 0
  listed,     \* payments among the signatures of the address
  detected,   \* deposits: [key, sum, at, credited]
  position,   \* last block (Tron: time) scanned
  reading,    \* scanner -> [pc, found: payments to record, to, tracked, funds, of]
  sweptAway,  \* what sweeps have taken from the address
  raced,      \* history: a row was written after what was recorded had changed
  missed,     \* history: payments whose lookup found nothing
  scanFaults
scanVars == <<stream, head, came, listed, detected, position, reading, sweptAway, raced, missed, scanFaults>>

Resting == [pc |-> "idle", found |-> {}, to |-> 0, tracked |-> 0, funds |-> 0, of |-> CHOOSE p \in Payments : TRUE]

ScanInit ==
  /\ stream \in Streams /\ head = 1 /\ position = 1
  /\ came = [p \in Payments |-> 0] /\ listed = {} /\ detected = {}
  /\ reading = [a \in Finders |-> Resting]
  /\ sweptAway = 0 /\ raced = FALSE /\ missed = {} /\ scanFaults = 0

Arrived     == {p \in Payments : came[p] > 0}
Received    == SumOver([p \in Arrived |-> Sum[p]])
SumOf(S)    == SumOver([r \in S |-> r.sum])
CreditedSum == SumOf({r \in detected : r.credited})
Least(a, b) == IF a < b THEN a ELSE b

ScanFault == scanFaults < MaxScanFaults[stream] /\ scanFaults' = scanFaults + 1

-----------------------------------------------------------------------------
(* The chain.  An SPL transfer to a token account that exists does not name its owner. *)
Settling == IF stream = "tron" THEN Finality ELSE Required - 1

\* A payment comes while there are blocks left for it to settle.
NewBlock ==
  /\ head < MaxHead[stream] /\ head' = head + 1
  /\ \E S \in SUBSET {p \in Payments : came[p] = 0 /\ head + 1 + Settling <= MaxHead[stream]} :
       /\ came' = [p \in Payments |-> IF p \in S THEN head + 1 ELSE came[p]]
       /\ \E T \in IF stream = "spl" THEN SUBSET S ELSE {S} : listed' = listed \union T
  /\ UNCHANGED <<stream, detected, position, reading, sweptAway, raced, missed, scanFaults>>

SweepCredited ==
  /\ stream = "spl" /\ sweptAway < Least(Received, CreditedSum)
  /\ sweptAway' = Least(Received, CreditedSum)
  /\ UNCHANGED <<stream, head, came, listed, detected, position, reading, raced, missed, scanFaults>>

-----------------------------------------------------------------------------
(* What a pass looks at. *)

\* Mutant: a scan begins behind the cursor.
FromCursor(c) == c + 1

ScanFrom(c) == IF c < ScanOverlap THEN 0 ELSE c - ScanOverlap

Within(lo, hi) == {p \in Arrived : lo <= came[p] /\ came[p] <= hi}

\* The last block of the run.
ScanTo == IF stream = "native" THEN Least(head, ScanFrom(position) + PerRun - 1) ELSE head

\* The user's sync looks at the last blocks; the scheduled scan, while its cursor is catching
\* up, at the chain's tip too.
FoundNative(a) ==
  IF a = "user" THEN Within(head - Least(head, PerRun), head)
  ELSE Within(ScanFrom(position), ScanTo)
         \union (IF ScanTo < ScanFrom(head) THEN Within(ScanFrom(head), head) ELSE {})

FoundBitcoin(a) == Within(IF a = "cron" THEN ScanFrom(position) ELSE 0, head)

\* The Tron history has confirmed transactions only.
FoundTron == {p \in Within(ScanFrom(position), head) : came[p] + Finality <= head}

\* The signatures of the address, whatever the cursor.
FoundSpl == listed

Found(a) ==
  CASE stream = "native" -> FoundNative(a)
    [] stream = "btc"    -> FoundBitcoin(a)
    [] stream = "tron"   -> FoundTron
    [] stream = "spl"    -> FoundSpl

Buried(at) == head - at + 1 >= Required

\* reconcilePendingDeposits comes first in the scheduled pass.
Begin(a) ==
  /\ reading[a].pc = "idle"
  /\ detected' = IF a = "cron" THEN {[r EXCEPT !.credited = @ \/ Buried(r.at)] : r \in detected} ELSE detected
  /\ reading' = [reading EXCEPT ![a] =
       [Resting EXCEPT !.pc = "scan", !.found = Found(a), !.to = IF stream = "spl" THEN 0 ELSE ScanTo]]
  /\ UNCHANGED <<stream, head, came, listed, position, sweptAway, raced, missed, scanFaults>>

-----------------------------------------------------------------------------
(* recordDetectedDeposit: one row per key; it is credited when it is deep enough. *)
Written(key, sum, at, deep) ==
  IF \E r \in detected : r.key = key
  THEN {IF r.key = key THEN [r EXCEPT !.credited = @ \/ deep] ELSE r : r \in detected}
  ELSE detected \union {[key |-> key, sum |-> sum, at |-> at, credited |-> deep]}

OfPayment(p) == <<"payment", p>>
OfDelta(n)   == <<"delta", n>>

\* Mutant: payments are recorded without a look at the balance.
NeverSkipped(tracked, funds, sum) == FALSE

\* shouldSkipPersonalDepositDetection
SkippedAtScan(tracked, funds, sum) == tracked > 0 /\ (tracked >= funds \/ tracked + sum > funds)

\* Only a token with a contract has a balance to compare.
Consider(a) ==
  /\ reading[a].pc = "scan" /\ stream = "spl"
  /\ \E p \in reading[a].found :
       reading' = IF SkippedAtScan(SumOf(detected), Received - sweptAway, Sum[p])
               THEN [reading EXCEPT ![a].found = @ \ {p}]
               ELSE [reading EXCEPT ![a].pc = "record", ![a].of = p, ![a].tracked = SumOf(detected)]
  /\ UNCHANGED <<stream, head, came, listed, detected, position, sweptAway, raced, missed, scanFaults>>

RecordConsidered(a) ==
  LET p == reading[a].of
  IN  /\ reading[a].pc = "record"
      /\ detected' = Written(OfPayment(p), Sum[p], came[p], Buried(came[p]))
      /\ raced' = (raced \/ (SumOf(detected) # reading[a].tracked /\ ~\E r \in detected : r.key = OfPayment(p)))
      /\ reading' = [reading EXCEPT ![a] =
           [Resting EXCEPT !.pc = "scan", !.found = reading[a].found \ {p}, !.to = reading[a].to]]
      /\ UNCHANGED <<stream, head, came, listed, position, sweptAway, missed, scanFaults>>

RecordFound(a) ==
  /\ reading[a].pc = "scan" /\ stream # "spl"
  /\ \E p \in reading[a].found :
       /\ detected' = Written(OfPayment(p), Sum[p], came[p], Buried(came[p]))
       /\ reading' = [reading EXCEPT ![a].found = @ \ {p}]
  /\ UNCHANGED <<stream, head, came, listed, position, sweptAway, raced, missed, scanFaults>>

\* The block of a Tron transaction is asked for, and is 0 where the node does not have it.
Unresolved(a) ==
  /\ reading[a].pc = "scan" /\ stream = "tron" /\ ScanFault
  /\ \E p \in reading[a].found :
       /\ missed' = missed \union {p}
       /\ reading' = [reading EXCEPT ![a].found = @ \ {p}]
  /\ UNCHANGED <<stream, head, came, listed, detected, position, sweptAway, raced>>

\* The cursor is written by the scheduled scan, and by both for Tron (nothing reads the one of
\* SPL tokens, left out); the user's sync goes on to the balance.
ScanFinishes(a) ==
  /\ reading[a].pc = "scan" /\ reading[a].found = {}
  /\ position' = IF stream = "tron" \/ (a = "cron" /\ stream # "spl") THEN reading[a].to ELSE position
  /\ reading' = [reading EXCEPT ![a] = IF a = "user" /\ stream = "spl" THEN [@ EXCEPT !.pc = "balance"] ELSE Resting]
  /\ UNCHANGED <<stream, head, came, listed, detected, sweptAway, raced, missed, scanFaults>>

\* A request that fails ends the scan of the token; the cursor stays.
ScanFails(a) ==
  /\ reading[a].pc # "idle" /\ ScanFault
  /\ reading' = [reading EXCEPT ![a] = Resting]
  /\ UNCHANGED <<stream, head, came, listed, detected, position, sweptAway, raced, missed>>

-----------------------------------------------------------------------------
(* reconcilePersonalTokenBalanceDeposit: the balance, the recorded sum and the row are  *)
(* three requests; the row's key is the difference, and it counts as confirmed.          *)
ReadBalance ==
  /\ reading["user"].pc = "balance"
  /\ reading' = [reading EXCEPT !["user"].pc = "weigh", !["user"].funds = Received - sweptAway]
  /\ UNCHANGED <<stream, head, came, listed, detected, position, sweptAway, raced, missed, scanFaults>>

Weigh ==
  /\ reading["user"].pc = "weigh"
  /\ reading' = [reading EXCEPT !["user"] = IF @.funds <= SumOf(detected) THEN Resting
                                      ELSE [@ EXCEPT !.pc = "delta", !.tracked = SumOf(detected)]]
  /\ UNCHANGED <<stream, head, came, listed, detected, position, sweptAway, raced, missed, scanFaults>>

RecordDelta ==
  LET n == reading["user"].funds - reading["user"].tracked
  IN  /\ reading["user"].pc = "delta"
      /\ detected' = Written(OfDelta(n), n, head, TRUE)
      /\ raced' = (raced \/ (SumOf(detected) # reading["user"].tracked /\ ~\E r \in detected : r.key = OfDelta(n)))
      /\ reading' = [reading EXCEPT !["user"] = Resting]
      /\ UNCHANGED <<stream, head, came, listed, position, sweptAway, missed, scanFaults>>

CronStep ==
  \/ Begin("cron") \/ Consider("cron") \/ RecordConsidered("cron")
  \/ RecordFound("cron") \/ ScanFinishes("cron")
UserStep ==
  \/ Begin("user") \/ Consider("user") \/ RecordConsidered("user") \/ RecordFound("user")
  \/ ScanFinishes("user") \/ ReadBalance \/ Weigh \/ RecordDelta

ScanNext ==
  \/ NewBlock \/ SweepCredited \/ CronStep \/ UserStep
  \/ \E a \in Finders : Unresolved(a) \/ ScanFails(a)

ScanSpec == ScanInit /\ [][ScanNext]_scanVars

-----------------------------------------------------------------------------
(* Properties. *)

\* Two ways of finding a payment, two scanners, sweeps that lower the balance meanwhile: as
\* long as no row is written over a sum that has changed since it was read, no more is
\* credited than came in, and a payment of the other streams is recorded as it was.
CreditedIsReceived ==
  /\ ~raced => SumOf(detected) <= Received
  /\ stream # "spl" => \A r \in detected : \E p \in Arrived :
       r = [key |-> OfPayment(p), sum |-> Sum[p], at |-> came[p], credited |-> r.credited]

\* However the cursor is moved by passes that read an older chain, a payment is credited in
\* the end; for tokens everything that came is, if sweeping has not begun and what is missing
\* is not as much as was missing once before: that difference has a row.
IsFound(p) ==
  came[p] > 0 ~>
    IF stream = "spl"
    THEN CreditedSum >= Received \/ sweptAway > 0 \/ \E r \in detected : r.key = OfDelta(Received - SumOf(detected))
    ELSE p \in missed \/ \E r \in detected : r.key = OfPayment(p) /\ r.credited
===============================================================================
