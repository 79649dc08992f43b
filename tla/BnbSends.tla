------------------------------- MODULE BnbSends -------------------------------
(***************************************************************************)
(* Withdrawals on BNB chain, which the platform broadcasts itself           *)
(* (privy-custody.service.ts): the nonce is the wallet's count of pending   *)
(* transactions, the provider signs once for each reference id, and the     *)
(* signed transaction is posted to a first and, after any error, to a       *)
(* second endpoint.  The worker (withdrawals.service.ts) gives up after a   *)
(* while and refunds; the call it has given up goes on.  Passes of the      *)
(* worker do not overlap here (they do in Withdrawals), the wallet holds    *)
(* enough, and no transaction reverts.                                      *)
(***************************************************************************)
EXTENDS Integers, FiniteSets

CONSTANTS Jobs, None,
          MaxGas,      \* bound: the gas price, which rises
          MaxBnbRetries,  \* bound: runs of retry-failed-withdrawal, of all withdrawals
          MaxBnbFaults    \* bound: answers lost, writes that fail, crashes, calls given up

ASSUME BnbAssumption ==
  /\ None \notin [w : Jobs, nonce : Int, gas : Int]
  /\ {MaxGas, MaxBnbRetries, MaxBnbFaults} \subseteq Nat

VARIABLES
  job,     \* withdrawal -> [status, tx]
  send,    \* withdrawal -> its latest call under way
  givenUp,   \* calls that were given up and go on
  signed,  \* withdrawal -> what the provider has signed for it, or None
  pool,    \* the transactions the chain's nodes hold
  mined,   \* those in blocks
  price,
  redone, faults,
  unsure   \* withdrawals that failed although nobody knew whether they were sent
bnbVars == <<job, send, givenUp, signed, pool, mined, price, redone, faults, unsure>>

NoSend == [pc |-> "idle"]

BnbInit ==
  /\ job = [w \in Jobs |-> [status |-> "APPROVED", tx |-> None]]
  /\ send = [w \in Jobs |-> NoSend] /\ givenUp = {}
  /\ signed = [w \in Jobs |-> None] /\ pool = {} /\ mined = {}
  /\ price = 1 /\ redone = 0 /\ faults = 0 /\ unsure = {}

-----------------------------------------------------------------------------
(* The chain. *)
Next0   == Cardinality(mined)   \* the wallet's next nonce
\* n is the first nonce that no transaction of the pool has.
Pending(n) ==
  /\ \A t \in pool : t.nonce # n
  /\ \A k \in Next0..(n - 1) : \E t \in pool : t.nonce = k

\* A node refuses a nonce that is used, a transaction it has, and a replacement that pays
\* no more.
Takes(t) == t.nonce >= Next0 /\ \A other \in pool : other.nonce = t.nonce => other.gas < t.gas
Pooled(t) == pool' = {other \in pool : other.nonce # t.nonce} \cup {t}

MineNext ==
  /\ \E t \in pool : t.nonce = Next0 /\ mined' = mined \cup {t} /\ pool' = pool \ {t}
  /\ UNCHANGED <<job, send, givenUp, signed, price, redone, faults, unsure>>

PriceRises ==
  /\ price < MaxGas /\ price' = price + 1
  /\ UNCHANGED <<job, send, givenUp, signed, pool, mined, redone, faults, unsure>>

BnbFault == faults < MaxBnbFaults /\ faults' = faults + 1

-----------------------------------------------------------------------------
(* The worker. *)
\* The claim, one withdrawal after the other.
TakeJob(w) ==
  /\ job[w].status = "APPROVED" /\ \A v \in Jobs : send[v] = NoSend
  /\ job' = [job EXCEPT ![w].status = "BROADCASTING"]
  /\ send' = [send EXCEPT ![w] = [pc |-> "prepare", w |-> w]]
  /\ UNCHANGED <<givenUp, signed, pool, mined, price, redone, faults, unsure>>

\* failAndRelease
Failed(w, known) ==
  /\ job' = [job EXCEPT ![w].status = "FAILED"]
  /\ unsure' = IF known THEN unsure ELSE unsure \cup {w}

\* withTimeout: the caller goes on, and so does the call.
GiveUp(w) ==
  /\ BnbFault /\ send[w].pc \in {"prepare", "sign", "post", "again"}
  /\ send' = [send EXCEPT ![w] = NoSend] /\ givenUp' = givenUp \cup {send[w]}
  /\ Failed(w, FALSE)
  /\ UNCHANGED <<signed, pool, mined, price, redone>>

\* The hash is written, or the write fails and the refund does not.
Returns(w) ==
  /\ send[w].pc = "done" /\ send' = [send EXCEPT ![w] = NoSend]
  /\ \/ job' = [job EXCEPT ![w] = [status |-> "BROADCASTED", tx |-> send[w].tx]] /\ UNCHANGED <<faults, unsure>>
     \/ BnbFault /\ Failed(w, FALSE)
  /\ UNCHANGED <<givenUp, signed, pool, mined, price, redone>>

Throws(w) ==
  /\ send[w].pc = "error" /\ send' = [send EXCEPT ![w] = NoSend]
  /\ Failed(w, ~send[w].lost)
  /\ UNCHANGED <<givenUp, signed, pool, mined, price, redone, faults>>

\* The process ends; recoverInterruptedBroadcasting refunds after the grace.
BnbCrash ==
  /\ BnbFault /\ \E w \in Jobs : send[w] # NoSend
  /\ send' = [w \in Jobs |-> NoSend] /\ givenUp' = {}
  /\ UNCHANGED <<job, signed, pool, mined, price, redone, unsure>>

JobInterrupted(w) ==
  /\ job[w].status = "BROADCASTING" /\ send[w] = NoSend /\ Failed(w, FALSE)
  /\ UNCHANGED <<send, givenUp, signed, pool, mined, price, redone, faults>>

\* confirmBroadcasted
ConfirmJob(w) ==
  /\ job[w].status = "BROADCASTED" /\ job[w].tx \in mined
  /\ job' = [job EXCEPT ![w].status = "CONFIRMED"]
  /\ UNCHANGED <<send, givenUp, signed, pool, mined, price, redone, faults, unsure>>

\* retry-failed-withdrawal
RetryJob(w) ==
  /\ job[w].status = "FAILED" /\ redone < MaxBnbRetries /\ redone' = redone + 1
  /\ job' = [job EXCEPT ![w] = [status |-> "APPROVED", tx |-> None]]
  /\ UNCHANGED <<send, givenUp, signed, pool, mined, price, faults, unsure>>

-----------------------------------------------------------------------------
(* signAndBroadcastBnbTransaction, of a call that is waited for or not. *)
Step(c, next) ==
  \/ \E w \in Jobs : send[w] = c /\ send' = [send EXCEPT ![w] = next] /\ UNCHANGED givenUp
  \/ /\ c \in givenUp /\ UNCHANGED send
     /\ givenUp' = IF next.pc \in {"done", "error"} THEN givenUp \ {c} ELSE (givenUp \ {c}) \cup {next}
Running == givenUp \cup {send[w] : w \in Jobs}

\* The pending count and the price are asked for together.
Prepare(c) ==
  /\ c.pc = "prepare"
  /\ \E n \in Next0..(Next0 + Cardinality(pool)) :
       Pending(n) /\ Step(c, [pc |-> "sign", w |-> c.w, tx |-> [w |-> c.w, nonce |-> n, gas |-> price]])
  /\ UNCHANGED <<job, signed, pool, mined, price, redone, faults, unsure>>

\* Mutant: every call is signed anew.
SignAnew(w, t) == t

\* The idempotency key is that of the withdrawal: a second call gets the first signature,
\* or is refused because it asks for something else.
SignOnce(w, t) == IF signed[w] = None THEN t ELSE signed[w]

Sign(c) ==
  /\ c.pc = "sign"
  /\ LET tx == SignOnce(c.w, c.tx)
     IN \/ /\ signed' = [signed EXCEPT ![c.w] = tx]
           /\ Step(c, [c EXCEPT !.pc = "post", !.tx = tx])
        \/ tx # c.tx /\ Step(c, [pc |-> "error", w |-> c.w, lost |-> FALSE]) /\ UNCHANGED signed
  /\ UNCHANGED <<job, pool, mined, price, redone, faults, unsure>>

\* requestBnbRpc: whatever goes wrong at the first endpoint, the second is asked; its
\* error is the one that counts.
Answered(c, pc, lost) ==
  [pc |-> IF pc = "error" /\ c.pc = "post" THEN "again" ELSE pc, w |-> c.w, tx |-> c.tx,
   lost |-> lost \/ (c.pc = "again" /\ c.lost)]

Post(c) ==
  /\ c.pc \in {"post", "again"}
  /\ IF Takes(c.tx)
     THEN /\ Pooled(c.tx)
          /\ \/ Step(c, Answered(c, "done", FALSE)) /\ UNCHANGED faults
             \/ BnbFault /\ Step(c, Answered(c, "error", TRUE))
     ELSE Step(c, Answered(c, "error", FALSE)) /\ UNCHANGED <<pool, faults>>
  /\ UNCHANGED <<job, signed, mined, price, redone, unsure>>

Sending == \E c \in Running : Prepare(c) \/ Sign(c) \/ Post(c)
Worker(w) == TakeJob(w) \/ Returns(w) \/ Throws(w) \/ JobInterrupted(w) \/ ConfirmJob(w)
BnbNext == Sending \/ MineNext \/ PriceRises \/ BnbCrash \/ \E w \in Jobs : Worker(w) \/ GiveUp(w) \/ RetryJob(w)

BnbSpec == BnbInit /\ [][BnbNext]_bnbVars

-----------------------------------------------------------------------------
\* A withdrawal is paid once, retried and replaced as it may be, and one that was refunded
\* is not paid unless its outcome was unknown when it was refunded (sendFromWallet,
\* withTimeout, handleWithdrawalBroadcastFailure).
BnbIsPaidFor ==
  \A w \in Jobs :
    /\ Cardinality({t \in mined : t.w = w}) <= 1
    /\ job[w].status = "FAILED" /\ (\E t \in mined : t.w = w) => w \in unsure

\* A withdrawal that waits for its transaction gets it, unless another one took its nonce.
BnbSettles(w) ==
  job[w].status = "BROADCASTED" ~>
    \/ job[w].status = "CONFIRMED"
    \/ job[w].tx # None /\ \E t \in mined : t.nonce = job[w].tx.nonce /\ t # job[w].tx
=============================================================================
