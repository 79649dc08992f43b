---------------------------- MODULE Deposits_proof ----------------------------
(***************************************************************************)
(* Theorems about the deposits group. Deposits: any transfers, intents,    *)
(* callers and scanners, any number of confirmations, overlap and window,  *)
(* any chain. AssetContracts: any tokens and requests. DepositScans: any   *)
(* payments, sums and blocks. DepositAddresses: any calls.                 *)
(***************************************************************************)
EXTENDS Deposits, AssetContracts, DepositScans, DepositAddresses, Ledger_proof

-----------------------------------------------------------------------------
(* The inductive invariant *)

DepositRow == [status : Status, intent : Intents \cup {None}, block : Int, confirmations : Int]

IntentRow == [status : IntentStatus, tx : Transfers \cup {None}]

Call == [step : {"idle", "late", "mined", "unmined", "refresh", "finish"},
         i : Intents \cup {None}, t : Transfers \cup {None},
         block : Int, confirmations : Int, result : Status]

Log == Transfers \X Int

Scan == [todo : SUBSET Log, latest : Int, next : Log \cup {None}, i : Intents \cup {None}]

Check == [step : {"idle", "record", "fail"}, t : Transfers \cup {None},
          i : Intents \cup {None}, block : Int, confirmations : Int]

\* Every transfer is in a block there is, or in none.
ChainInv == height \in Nat /\ block \in [Transfers -> Nat] /\ \A t \in Transfers : block[t] <= height

\* The transfers with their confirmations.
DeepOnes == {t \in Transfers : Deep(t)}

\* A row e of transfer t, when the ledger is j and those in deep have their
\* confirmations: it has an intent only when t matches one; its credit is posted
\* once it is credited, and reversed only for a transfer of the exchange's own.
RowOk(e, t, j, deep) ==
  /\ e.intent # None => t \in FromWallet
  /\ e.status = "ABSENT" => e.intent = None
  /\ e.status # "ABSENT" => e.block # 0
  /\ e.status = "CREDITED" => j[<<"credit", t>>] = 1
  /\ e.status = "CREDITED" /\ e.intent = None => t \in deep
  /\ j[<<"reversal", t>>] = 1 => /\ j[<<"credit", t>>] = 1
                                 /\ t \in Internal
                                 /\ e.status \in {"UNMATCHED", "FAILED"}

\* An intent n is credited only with a transfer the ledger has credited.
IntentOk(n, j) == n.status = "CREDITED" => n.tx \in FromWallet /\ j[<<"credit", n.tx>>] = 1

\* No two intents have the hash of one transfer.
Distinct(n) == \A i, k \in Intents : i # k => n[i].tx = None \/ n[i].tx # n[k].tx

\* The rows of the database.
Sound(r, n, j, deep) ==
  /\ r \in [Transfers -> DepositRow]
  /\ n \in [Intents -> IntentRow]
  /\ j \in [Keys -> {0, 1}]
  /\ \A t \in Transfers : RowOk(r[t], t, j, deep)
  /\ \A i \in Intents : IntentOk(n[i], j)
  /\ Distinct(n)

\* What a call has read is still so, or does not matter.
CallOk(c, r, j) ==
  /\ c \in Call
  /\ c.step # "idle" => c.i \in Intents /\ c.t \in FromWallet
  /\ c.step = "mined" => c.block # 0
  /\ c.step = "refresh" => r[c.t].status # "ABSENT"
  /\ c.step = "finish" /\ c.result = "CREDITED" => j[<<"credit", c.t>>] = 1

ScanOk(s, deep) ==
  /\ s \in Scan
  /\ \A l \in s.todo :
       l[2] # 0 /\ (ConfirmationsAt(s.latest, l[2]) >= Confirmations => l[1] \in deep)
  /\ s.next # None => s.next \in s.todo /\ (s.i # None => s.next[1] \in FromWallet)

CheckOk(c, r, deep) ==
  /\ c \in Check
  /\ c.step # "idle" => /\ c.t \in Transfers /\ r[c.t].status # "ABSENT"
                        /\ c.i # None => c.t \in FromWallet
  /\ c.step = "record" /\ c.confirmations >= Confirmations => c.t \in deep

SuspectOk(t, r) == t # None => t \in Internal /\ r[t].status # "ABSENT"

IInv ==
  /\ ChainInv
  /\ Sound(row, intent, journal, DeepOnes)
  /\ DOMAIN calls = Callers /\ \A c \in Callers : CallOk(calls[c], row, journal)
  /\ DOMAIN scan = Scanners /\ \A s \in Scanners : ScanOk(scan[s], DeepOnes)
  /\ CheckOk(check, row, DeepOnes)
  /\ SuspectOk(suspect, row)

-----------------------------------------------------------------------------
(* Confirmations are not lost *)

LEMMA DeepStays ==
  ASSUME ChainInv, [Next]_vars
  PROVE  ChainInv' /\ DeepOnes \subseteq DeepOnes'
<1>1. CASE UNCHANGED <<block, height>>
  BY <1>1 DEF ChainInv, DeepOnes, Deep, Mined
<1>2. CASE NextBlock
  <2>1. PICK S \in SUBSET (Transfers \ Mined) :
          block' = [t \in Transfers |-> IF t \in S THEN height' ELSE block[t]]
    BY <1>2 DEF NextBlock
  <2>2. height' = height + 1 /\ height \in Nat
    BY <1>2 DEF NextBlock, ChainInv
  <2>3. ChainInv'
    BY <2>1, <2>2 DEF ChainInv
  <2>4. ASSUME NEW t \in Transfers, Deep(t)
        PROVE  Deep(t)'
    <3>1. t \notin S /\ block[t] # 0 /\ block[t] \in Nat
      BY <2>1, <2>4 DEF Deep, Mined, ChainInv
    <3>2. block'[t] = block[t]
      BY <2>1, <3>1
    <3>3. Confirmations \in Nat
      BY DepositsAssumption
    <3> QED
      BY <2>2, <2>4, <3>1, <3>2, <3>3 DEF Deep, Mined, ConfirmationsAt
  <2> QED
    BY <2>3, <2>4 DEF DeepOnes
<1>3. ASSUME NEW u \in Transfers, Reorg(u)
      PROVE  ChainInv' /\ DeepOnes \subseteq DeepOnes'
  BY <1>3 DEF Reorg, ChainInv, DeepOnes, Deep, Mined
<1> QED
  <2>1. CASE UNCHANGED vars
    BY <1>1, <2>1 DEF vars, chain
  <2>2. CASE Environment
    BY <1>1, <1>2, <1>3, <2>2
       DEF Environment, Sweep, Register, CreateIntent, Lapse, Restart, chain
  <2>3. CASE Calls
    BY <1>1, <2>3
       DEF Calls, Submit, Refresh, MarkExpired, MarkSubmitted, RecordCall, Finish, chain
  <2>4. CASE Scans
    BY <1>1, <2>4 DEF Scans, StartScan, Deliver, Look, RecordLog, chain
  <2>5. CASE Checks
    BY <1>1, <2>5
       DEF Checks, Reconcile, Suspect, Reclassify, RecordCheck, FailGone, ExpireIntents, chain
  <2> QED
    BY <2>1, <2>2, <2>3, <2>4, <2>5 DEF Next

-----------------------------------------------------------------------------
(* Writing rows *)

LEMMA KeysType ==
  ASSUME NEW t \in Transfers
  PROVE  <<"credit", t>> \in Keys /\ <<"reversal", t>> \in Keys
  BY DEF Keys

LEMMA PostEffect ==
  ASSUME NEW j \in [Keys -> {0, 1}], NEW k \in Keys
  PROVE  /\ Post(j, k) \in [Keys -> {0, 1}]
         /\ Post(j, k)[k] = 1
         /\ \A o \in Keys \ {k} : Post(j, k)[o] = j[o]
  BY DEF Post

\* What is posted stays, and so do rows and confirmations.
Later(r, j, deep, s, k, deeper) ==
  /\ \A t \in Transfers : r[t].status # "ABSENT" => s[t].status # "ABSENT"
  /\ \A t \in Transfers : j[<<"credit", t>>] = 1 => k[<<"credit", t>>] = 1
  /\ deep \subseteq deeper

LEMMA CallLater ==
  ASSUME NEW r, NEW j, NEW deep, NEW s, NEW k, NEW deeper, Later(r, j, deep, s, k, deeper)
  PROVE  /\ \A c : CallOk(c, r, j) => CallOk(c, s, k)
         /\ \A c : ScanOk(c, deep) => ScanOk(c, deeper)
         /\ \A c : CheckOk(c, r, deep) => CheckOk(c, s, deeper)
         /\ \A t : SuspectOk(t, r) => SuspectOk(t, s)
<1>1. FromWallet \subseteq Transfers
  BY DepositsAssumption
<1>2. ASSUME NEW c, CallOk(c, r, j)
      PROVE  CallOk(c, s, k)
  BY <1>1, <1>2 DEF Later, CallOk
<1>3. ASSUME NEW c, ScanOk(c, deep)
      PROVE  ScanOk(c, deeper)
  BY <1>3 DEF Later, ScanOk
<1>4. ASSUME NEW c, CheckOk(c, r, deep)
      PROVE  CheckOk(c, s, deeper)
  BY <1>4 DEF Later, CheckOk
<1>5. ASSUME NEW t, SuspectOk(t, r)
      PROVE  SuspectOk(t, s)
  BY <1>5, DepositsAssumption DEF Later, SuspectOk
<1> QED
  BY <1>2, <1>3, <1>4, <1>5

\* The intent of a transfer follows it.
Linked(n, i, t, confirmations) ==
  IF i = None THEN n
  ELSE [n EXCEPT ![i] =
          [status |-> IF confirmations >= Confirmations THEN "CONFIRMED" ELSE "DETECTED",
           tx     |-> t]]

Settled(n, i, t) ==
  IF i = None THEN n ELSE [n EXCEPT ![i] = [status |-> "CREDITED", tx |-> t]]

\* The row Enter writes, in place of e.
Entered(e, i, b, confirmations) ==
  [status        |-> "PENDING_CONFIRMATION",
   intent        |-> IF e.status # "ABSENT" /\ e.intent # None THEN e.intent ELSE i,
   block         |-> IF e.status = "ABSENT" THEN b ELSE e.block,
   confirmations |-> confirmations]

LEMMA TwiceWritten ==
  ASSUME NEW f, NEW k \in DOMAIN f, NEW v, NEW status
  PROVE  [[f EXCEPT ![k] = v] EXCEPT ![k].status = status]
           = [f EXCEPT ![k] = [v EXCEPT !.status = status]]
  OBVIOUS

LEMMA EnterEffect ==
  ASSUME row \in [Transfers -> DepositRow], intent \in [Intents -> IntentRow],
         NEW t \in Transfers, NEW i \in Intents \cup {None}, NEW b \in Int,
         NEW confirmations \in Int
  PROVE  LET r == Entered(row[t], i, b, confirmations)
         IN  Enter(t, i, b, confirmations) =
               IF confirmations >= Confirmations
               THEN [row     |-> [row EXCEPT ![t] = [r EXCEPT !.status = "CREDITED"]],
                     intent  |-> Settled(intent, r.intent, t),
                     journal |-> Post(journal, <<"credit", t>>)]
               ELSE [row     |-> [row EXCEPT ![t] = r],
                     intent  |-> Linked(intent, r.intent, t, confirmations),
                     journal |-> journal]
<1> DEFINE e == row[t]
           r == Entered(e, i, b, confirmations)
           w == [row |-> [row EXCEPT ![t] = r], intent |-> intent, journal |-> journal]
           s == Sync(w, r.intent, t, confirmations)
<1>1. e \in DepositRow
  OBVIOUS
<1>2. r = IF e.status = "ABSENT"
          THEN [status |-> "PENDING_CONFIRMATION", intent |-> i, block |-> b, confirmations |-> confirmations]
          ELSE [e EXCEPT !.status = "PENDING_CONFIRMATION", !.confirmations = confirmations,
                         !.intent = IF @ = None THEN i ELSE @]
  BY <1>1 DEF Entered, DepositRow
<1>3. [Now EXCEPT !.row[t] = r] = w
  BY DEF Now
<1>4. Enter(t, i, b, confirmations) = IF confirmations >= Confirmations THEN CreditRow(s, t) ELSE s
  BY <1>2, <1>3 DEF Enter
<1>5. r.intent \in Intents \cup {None}
  BY <1>1 DEF Entered, DepositRow
<1> HIDE DEF r
<1>6. s = [row |-> [row EXCEPT ![t] = r], intent |-> Linked(intent, r.intent, t, confirmations),
           journal |-> journal]
  BY <1>5 DEF Sync, Linked
<1> HIDE DEF s
<1>7. s.row[t].intent = r.intent /\ s.row[t] = r
  BY <1>6
<1>8. CreditRow(s, t) = [row     |-> [row EXCEPT ![t] = [r EXCEPT !.status = "CREDITED"]],
                         intent  |-> Settled(intent, r.intent, t),
                         journal |-> Post(journal, <<"credit", t>>)]
  <2>1. [s.row EXCEPT ![t].status = "CREDITED"]
          = [row EXCEPT ![t] = [r EXCEPT !.status = "CREDITED"]]
    BY <1>6
  <2>2. s.journal = journal
    BY <1>6
  <2>3. CASE r.intent = None
    BY <1>6, <1>7, <2>1, <2>2, <2>3 DEF CreditRow, Linked, Settled
  <2>4. CASE r.intent # None
    <3> DEFINE k == r.intent
               linked == [status |-> IF confirmations >= Confirmations THEN "CONFIRMED" ELSE "DETECTED",
                          tx |-> t]
    <3>1. k \in Intents /\ s.intent = [intent EXCEPT ![k] = linked]
      BY <1>5, <1>6, <2>4 DEF Linked
    <3>2. [linked EXCEPT !.status = "CREDITED"] = [status |-> "CREDITED", tx |-> t]
      OBVIOUS
    <3> HIDE DEF linked
    <3>3. [s.intent EXCEPT ![k].status = "CREDITED"] = [intent EXCEPT ![k] = [status |-> "CREDITED", tx |-> t]]
      <4>1. k \in DOMAIN intent
        BY <3>1
      <4>2. [[intent EXCEPT ![k] = linked] EXCEPT ![k].status = "CREDITED"]
              = [intent EXCEPT ![k] = [linked EXCEPT !.status = "CREDITED"]]
        BY <4>1, TwiceWritten
      <4> QED
        BY <3>1, <3>2, <4>2
    <3> QED
      BY <1>7, <2>1, <2>2, <2>4, <3>3 DEF CreditRow, Settled
  <2> QED
    BY <2>3, <2>4
<1> QED
  BY <1>4, <1>6, <1>8 DEF r

\* One row is replaced, and intents with it.
LEMMA SoundRow ==
  ASSUME NEW r, NEW n, NEW j, NEW deep, Sound(r, n, j, deep),
         NEW t \in Transfers, NEW e \in DepositRow, NEW m \in [Intents -> IntentRow],
         RowOk(e, t, j, deep), \A i \in Intents : IntentOk(m[i], j), Distinct(m)
  PROVE  Sound([r EXCEPT ![t] = e], m, j, deep)
  BY DEF Sound

\* A credit is posted: everything that was sound still is.
LEMMA SoundPost ==
  ASSUME NEW r, NEW n, NEW j, NEW deep, Sound(r, n, j, deep), NEW t \in Transfers
  PROVE  /\ Sound(r, n, Post(j, <<"credit", t>>), deep)
         /\ Post(j, <<"credit", t>>)[<<"credit", t>>] = 1
         /\ Later(r, j, deep, r, Post(j, <<"credit", t>>), deep)
<1> DEFINE k == <<"credit", t>>
           next == Post(j, k)
<1>1. k \in Keys /\ \A v \in Transfers : <<"credit", v>> \in Keys /\ <<"reversal", v>> \in Keys \ {k}
  BY DEF Keys
<1>2. /\ next \in [Keys -> {0, 1}] /\ next[k] = 1
      /\ \A o \in Keys \ {k} : next[o] = j[o]
  BY <1>1, PostEffect DEF Sound
<1> HIDE DEF next
<1>3. \A v \in Transfers : /\ next[<<"reversal", v>>] = j[<<"reversal", v>>]
                           /\ j[<<"credit", v>>] = 1 => next[<<"credit", v>>] = 1
  BY <1>1, <1>2
<1>4. \A v \in Transfers : RowOk(r[v], v, next, deep)
  BY <1>3 DEF Sound, RowOk
<1>5. \A i \in Intents : IntentOk(n[i], next)
  <2>1. FromWallet \subseteq Transfers
    BY DepositsAssumption
  <2> QED
    BY <1>3, <2>1 DEF Sound, IntentOk
<1> QED
  BY <1>2, <1>3, <1>4, <1>5 DEF Sound, Later, next

\* recordDetectedDepositInTransaction keeps the rows sound, unless it breaks an index.
LEMMA SoundRecorded ==
  ASSUME NEW deep, Sound(row, intent, journal, deep),
         NEW t \in Transfers, NEW i \in Intents \cup {None}, NEW b \in Int,
         NEW confirmations \in Int,
         i # None => t \in FromWallet,
         row[t].status = "ABSENT" => b # 0,
         i = None /\ confirmations >= Confirmations => t \in deep,
         NEW s, s = Recorded(t, i, b, confirmations), Unique(s)
  PROVE  /\ Sound(s.row, s.intent, s.journal, deep)
         /\ Later(row, journal, deep, s.row, s.journal, deep)
         /\ s.row[t].status = "CREDITED" => s.journal[<<"credit", t>>] = 1
<1> DEFINE e == row[t]
           r == Entered(e, i, b, confirmations)
<1>t. /\ row \in [Transfers -> DepositRow] /\ intent \in [Intents -> IntentRow]
      /\ e \in DepositRow /\ RowOk(e, t, journal, deep) /\ Internal \cap FromWallet = {}
  BY DepositsAssumption DEF Sound
<1>d. Distinct(s.intent)
  BY DEF Unique, Distinct
<1>0. SUFFICES /\ Sound(s.row, s.intent, s.journal, deep)
               /\ Later(row, journal, deep, s.row, s.journal, deep)
  BY DEF Sound, RowOk
<1>1. CASE s = Now
  BY <1>1 DEF Now, Later
<1>2. CASE s = Enter(t, i, b, confirmations)
           /\ (e.status = "ABSENT" \/ i # None \/ e.status = "PENDING_CONFIRMATION")
  <2>1. /\ r \in DepositRow /\ r.status = "PENDING_CONFIRMATION"
        /\ r.intent # None => t \in FromWallet
        /\ r.intent = None => i = None
        /\ r.block # 0
    BY <1>t DEF Entered, DepositRow, Status, RowOk
  <2>2. journal[<<"reversal", t>>] # 1
    BY <1>t, <1>2, DepositsAssumption DEF RowOk
  <2>3. RowOk(r, t, journal, deep)
    BY <2>1, <2>2 DEF RowOk
  <2>4. s = IF confirmations >= Confirmations
            THEN [row     |-> [row EXCEPT ![t] = [r EXCEPT !.status = "CREDITED"]],
                  intent  |-> Settled(intent, r.intent, t),
                  journal |-> Post(journal, <<"credit", t>>)]
            ELSE [row     |-> [row EXCEPT ![t] = r],
                  intent  |-> Linked(intent, r.intent, t, confirmations),
                  journal |-> journal]
    BY <1>t, <1>2, EnterEffect
  <2> HIDE DEF r
  <2>5. CASE ~(confirmations >= Confirmations)
    <3>1. /\ s.row = [row EXCEPT ![t] = r] /\ s.intent = Linked(intent, r.intent, t, confirmations)
          /\ s.journal = journal
      BY <2>4, <2>5
    <3>2. /\ s.intent \in [Intents -> IntentRow]
          /\ \A k \in Intents : IntentOk(s.intent[k], journal)
      BY <1>t, <2>1, <3>1 DEF Linked, IntentRow, IntentStatus, Active, IntentOk, Sound, DepositRow
    <3>3. Sound(s.row, s.intent, s.journal, deep)
      BY <1>d, <2>1, <2>3, <3>1, <3>2, SoundRow
    <3> QED
      BY <1>t, <2>1, <3>1, <3>3 DEF Later
  <2>6. CASE confirmations >= Confirmations
    <3> DEFINE j == Post(journal, <<"credit", t>>)
               c == [r EXCEPT !.status = "CREDITED"]
    <3>1. s.row = [row EXCEPT ![t] = c] /\ s.intent = Settled(intent, r.intent, t) /\ s.journal = j
      BY <2>4, <2>6
    <3>2. /\ Sound(row, intent, j, deep) /\ j[<<"credit", t>>] = 1
          /\ Later(row, journal, deep, row, j, deep)
      BY SoundPost
    <3>3. /\ c \in DepositRow /\ c.status = "CREDITED" /\ c.intent = r.intent /\ c.block = r.block
      BY <2>1 DEF DepositRow, Status
    <3>4. j[<<"reversal", t>>] = journal[<<"reversal", t>>]
      BY PostEffect, KeysType, "credit" # "reversal" DEF Sound
    <3> HIDE DEF j, c
    <3>5. RowOk(c, t, j, deep)
      BY <2>1, <2>2, <2>6, <3>2, <3>3, <3>4 DEF RowOk
    <3>6. /\ s.intent \in [Intents -> IntentRow]
          /\ \A k \in Intents : IntentOk(s.intent[k], j)
      BY <1>t, <2>1, <3>1, <3>2 DEF Settled, IntentRow, IntentStatus, Active, IntentOk, Sound, DepositRow
    <3>7. Sound(s.row, s.intent, s.journal, deep)
      BY <1>d, <3>1, <3>2, <3>3, <3>5, <3>6, SoundRow
    <3> QED
      BY <1>t, <3>1, <3>2, <3>3, <3>7 DEF Later
  <2> QED
    BY <2>5, <2>6
<1>3. CASE s = Sync([Now EXCEPT !.row[t].confirmations = confirmations], e.intent, t, confirmations)
           /\ e.status # "ABSENT"
  <2> DEFINE c == [e EXCEPT !.confirmations = confirmations]
  <2>1. [Now EXCEPT !.row[t].confirmations = confirmations]
          = [row |-> [row EXCEPT ![t] = c], intent |-> intent, journal |-> journal]
    BY <1>t DEF Now
  <2>2. /\ c \in DepositRow /\ c.status = e.status /\ c.intent = e.intent /\ c.block = e.block
    BY <1>t DEF DepositRow
  <2> HIDE DEF c
  <2>3. /\ s.row = [row EXCEPT ![t] = c] /\ s.intent = Linked(intent, e.intent, t, confirmations)
        /\ s.journal = journal
    <3>1. e.intent \in Intents \cup {None}
      BY <1>t DEF DepositRow
    <3> QED
      BY <1>3, <2>1, <3>1 DEF Sync, Linked
  <2>4. RowOk(c, t, journal, deep)
    BY <1>t, <2>2 DEF RowOk
  <2>5. /\ s.intent \in [Intents -> IntentRow]
        /\ \A k \in Intents : IntentOk(s.intent[k], journal)
    BY <1>t, <2>3 DEF Linked, IntentRow, IntentStatus, Active, IntentOk, Sound, DepositRow
  <2>6. Sound(s.row, s.intent, s.journal, deep)
    BY <1>d, <2>2, <2>3, <2>4, <2>5, SoundRow
  <2> QED
    BY <1>t, <1>3, <2>2, <2>3, <2>6 DEF Later
<1> QED
  BY <1>1, <1>2, <1>3 DEF Recorded

-----------------------------------------------------------------------------
(* What every step does to the rows *)

\* The rows stay sound, and nothing is lost of what processes rely on.
RowsKept ==
  /\ Sound(row, intent, journal, DeepOnes)'
  /\ Later(row, journal, DeepOnes, row', journal', DeepOnes')

LEMMA SoundDeeper ==
  ASSUME NEW r, NEW n, NEW j, NEW deep, NEW deeper, Sound(r, n, j, deep), deep \subseteq deeper
  PROVE  Sound(r, n, j, deeper)
<1>1. \A t \in Transfers : RowOk(r[t], t, j, deeper)
  BY DEF Sound, RowOk
<1> QED
  BY <1>1 DEF Sound

LEMMA RowsKeptIf ==
  ASSUME ChainInv, [Next]_vars,
         Sound(row', intent', journal', DeepOnes),
         Later(row, journal, DeepOnes, row', journal', DeepOnes)
  PROVE  RowsKept
<1>1. DeepOnes \subseteq DeepOnes'
  BY DeepStays
<1>2. Sound(row', intent', journal', DeepOnes')
  BY <1>1, SoundDeeper
<1>3. Sound(row, intent, journal, DeepOnes)'
  BY <1>2 DEF Sound, RowOk, IntentOk, Distinct
<1> QED
  BY <1>1, <1>3 DEF RowsKept, Later

LEMMA QuietRows ==
  ASSUME IInv, [Next]_vars, UNCHANGED rows
  PROVE  RowsKept
<1>1. row' = row /\ intent' = intent /\ journal' = journal
  BY DEF rows
<1>2. /\ Sound(row', intent', journal', DeepOnes)
      /\ Later(row, journal, DeepOnes, row', journal', DeepOnes)
  BY <1>1 DEF IInv, Later
<1> QED
  BY <1>2, RowsKeptIf DEF IInv

LEMMA WriteRows ==
  ASSUME IInv, [Next]_vars, NEW s, Write(s),
         Unique(s) => /\ Sound(s.row, s.intent, s.journal, DeepOnes)
                      /\ Later(row, journal, DeepOnes, s.row, s.journal, DeepOnes)
  PROVE  RowsKept
<1>1. CASE Unique(s)
  <2>1. row' = s.row /\ intent' = s.intent /\ journal' = s.journal
    BY <1>1 DEF Write
  <2> QED
    BY <1>1, <2>1, RowsKeptIf DEF IInv
<1>2. CASE ~Unique(s)
  BY <1>2, QuietRows DEF Write, Now, rows
<1> QED
  BY <1>1, <1>2

\* An intent is written without a look at it.
LEMMA OverwriteRows ==
  ASSUME IInv, [Next]_vars, NEW c \in Callers, calls[c].step # "idle",
         NEW status \in IntentStatus, NEW tx \in Transfers \cup {None}, Overwrite(c, status, tx),
         status = "CREDITED" => tx \in FromWallet /\ journal[<<"credit", tx>>] = 1
  PROVE  RowsKept
<1> DEFINE i == calls[c].i
           n == [status |-> status, tx |-> tx]
           s == [Now EXCEPT !.intent[i] = n]
<1>1. i \in Intents /\ n \in IntentRow /\ IntentOk(n, journal)
  BY DEF IInv, CallOk, IntentRow, IntentOk
<1>2. Write(s)
  BY DEF Overwrite
<1> HIDE DEF i, n
<1>3. s = [row |-> row, intent |-> [intent EXCEPT ![i] = n], journal |-> journal]
  BY DEF Now
<1>4. Unique(s) => Distinct([intent EXCEPT ![i] = n])
  BY ZenonT(60), <1>3 DEF Unique, Distinct
<1> HIDE DEF s
<1>5. Unique(s) => /\ Sound(s.row, s.intent, s.journal, DeepOnes)
                   /\ Later(row, journal, DeepOnes, s.row, s.journal, DeepOnes)
  BY <1>1, <1>3, <1>4 DEF IInv, Sound, Later
<1> QED
  BY <1>2, <1>5, WriteRows

LEMMA CallRows ==
  ASSUME IInv, [Next]_vars, NEW c \in Callers,
         MarkExpired(c) \/ MarkSubmitted(c) \/ RecordCall(c) \/ Finish(c)
  PROVE  RowsKept
<1> DEFINE mine == calls[c]
<1>t. /\ CallOk(mine, row, journal) /\ FromWallet \subseteq Transfers
      /\ Sound(row, intent, journal, DeepOnes)
  BY DepositsAssumption DEF IInv
<1>1. CASE MarkExpired(c)
  <2>1. /\ mine.step # "idle" /\ intent[mine.i].tx \in Transfers \cup {None}
        /\ Overwrite(c, "EXPIRED", intent[mine.i].tx)
    BY <1>t, <1>1 DEF MarkExpired, CallOk, Sound, IntentRow
  <2>2. "EXPIRED" \in IntentStatus /\ "EXPIRED" # "CREDITED"
    BY DEF IntentStatus
  <2> QED
    BY <2>1, <2>2, OverwriteRows
<1>2. CASE MarkSubmitted(c)
  <2>1. /\ mine.step # "idle" /\ mine.t \in Transfers \cup {None}
        /\ Overwrite(c, "SUBMITTED", mine.t)
    BY <1>t, <1>2 DEF MarkSubmitted, CallOk
  <2>2. "SUBMITTED" \in IntentStatus /\ "SUBMITTED" # "CREDITED"
    BY DEF IntentStatus, Active
  <2> QED
    BY <2>1, <2>2, OverwriteRows
<1>3. CASE RecordCall(c)
  <2>1. PICK s : s = Recorded(mine.t, mine.i, mine.block, mine.confirmations)
    OBVIOUS
  <2>2. Write(s) /\ mine.step \in {"mined", "refresh"}
    BY <1>3, <2>1 DEF RecordCall
  <2>3. /\ mine.t \in Transfers /\ mine.t \in FromWallet /\ mine.i \in Intents
        /\ mine.block \in Int /\ mine.confirmations \in Int
        /\ row[mine.t].status = "ABSENT" => mine.block # 0
        /\ mine.i # None
    BY <1>t, <2>2, DepositsAssumption DEF CallOk, Call
  <2>4. Unique(s) => /\ Sound(s.row, s.intent, s.journal, DeepOnes)
                     /\ Later(row, journal, DeepOnes, s.row, s.journal, DeepOnes)
    BY <1>t, <2>1, <2>3, SoundRecorded
  <2> QED
    BY <2>2, <2>4, WriteRows
<1>4. CASE Finish(c)
  <2> DEFINE status == IF mine.result = "CREDITED" THEN "CREDITED"
                       ELSE IF mine.confirmations >= Confirmations THEN "CONFIRMED" ELSE "DETECTED"
  <2>1. /\ mine.step # "idle" /\ mine.t \in Transfers \cup {None}
        /\ Overwrite(c, status, mine.t)
    BY <1>t, <1>4 DEF Finish, CallOk
  <2>2. /\ status \in IntentStatus
        /\ status = "CREDITED" => mine.t \in FromWallet /\ journal[<<"credit", mine.t>>] = 1
    BY <1>t, <1>4 DEF Finish, CallOk, IntentStatus, Active
  <2> HIDE DEF status
  <2> QED
    BY <2>1, <2>2, OverwriteRows
<1> QED
  BY <1>1, <1>2, <1>3, <1>4

LEMMA ScanRows ==
  ASSUME IInv, [Next]_vars, NEW c \in Scanners, RecordLog(c)
  PROVE  RowsKept
<1> DEFINE l == scan[c].next
           latest == scan[c].latest
<1>1. /\ ScanOk(scan[c], DeepOnes) /\ Sound(row, intent, journal, DeepOnes) /\ l # None
  BY DEF IInv, RecordLog
<1>2. PICK s : s = Recorded(l[1], scan[c].i, l[2], ConfirmationsAt(latest, l[2]))
  OBVIOUS
<1>3. Write(s)
  BY <1>2 DEF RecordLog
<1>4. /\ l[1] \in Transfers /\ l[2] \in Int /\ l[2] # 0 /\ latest \in Int
      /\ scan[c].i \in Intents \cup {None} /\ (scan[c].i # None => l[1] \in FromWallet)
      /\ ConfirmationsAt(latest, l[2]) >= Confirmations => l[1] \in DeepOnes
  BY <1>1 DEF ScanOk, Scan, Log
<1>5. ConfirmationsAt(latest, l[2]) \in Int
  BY <1>4 DEF ConfirmationsAt
<1> HIDE DEF l, latest
<1>6. Unique(s) => /\ Sound(s.row, s.intent, s.journal, DeepOnes)
                   /\ Later(row, journal, DeepOnes, s.row, s.journal, DeepOnes)
  BY <1>1, <1>2, <1>4, <1>5, SoundRecorded
<1> QED
  BY <1>3, <1>6, WriteRows

LEMMA CheckRows ==
  ASSUME IInv, [Next]_vars, RecordCheck \/ FailGone
  PROVE  RowsKept
<1>t. /\ CheckOk(check, row, DeepOnes) /\ Sound(row, intent, journal, DeepOnes)
      /\ check.t \in Transfers /\ row[check.t].status # "ABSENT"
      /\ check.i \in Intents \cup {None} /\ check.block \in Int /\ check.confirmations \in Int
      /\ check.i # None => check.t \in FromWallet
  BY DEF IInv, RecordCheck, FailGone, CheckOk, Check
<1>1. CASE RecordCheck
  <2>1. PICK s : s = Recorded(check.t, check.i, check.block, check.confirmations)
    OBVIOUS
  <2>2. Write(s)
    BY <1>1, <2>1 DEF RecordCheck
  <2>3. check.confirmations >= Confirmations => check.t \in DeepOnes
    BY <1>1, <1>t DEF RecordCheck, CheckOk
  <2>4. Unique(s) => /\ Sound(s.row, s.intent, s.journal, DeepOnes)
                     /\ Later(row, journal, DeepOnes, s.row, s.journal, DeepOnes)
    BY <1>t, <2>1, <2>3, SoundRecorded
  <2> QED
    BY <2>2, <2>4, WriteRows
<1>2. CASE FailGone
  <2> DEFINE t == check.t
             e == [row[t] EXCEPT !.status = "FAILED"]
  <2>1. /\ row' = [row EXCEPT ![t] = e] /\ journal' = journal
        /\ intent' = IF check.i = None THEN intent ELSE [intent EXCEPT ![check.i].status = "FAILED"]
    BY <1>2 DEF FailGone
  <2>2. e \in DepositRow /\ e.status = "FAILED" /\ e.intent = row[t].intent /\ e.block = row[t].block
    BY <1>t DEF Sound, DepositRow, Status
  <2> HIDE DEF e
  <2>3. RowOk(e, t, journal, DeepOnes)
    BY <1>t, <2>2 DEF Sound, RowOk
  <2>4. /\ intent' \in [Intents -> IntentRow]
        /\ \A i \in Intents : intent'[i].tx = intent[i].tx
        /\ \A i \in Intents : intent'[i].status = "CREDITED" => intent'[i] = intent[i]
    BY <1>t, <2>1 DEF Sound, IntentRow, IntentStatus
  <2>5. Distinct(intent') /\ \A i \in Intents : IntentOk(intent'[i], journal)
    BY <1>t, <2>4 DEF Sound, Distinct, IntentOk
  <2>6. Sound(row', intent', journal', DeepOnes)
    BY <1>t, <2>1, <2>2, <2>3, <2>4, <2>5, SoundRow
  <2>7. Later(row, journal, DeepOnes, row', journal', DeepOnes)
    BY <1>t, <2>1, <2>2 DEF Later, Sound
  <2> QED
    BY <2>6, <2>7, RowsKeptIf DEF IInv
<1> QED
  BY <1>1, <1>2

LEMMA ReclassifyRows ==
  ASSUME IInv, [Next]_vars, Reclassify
  PROVE  RowsKept
<1> DEFINE t == suspect
<1>1. t \in Internal /\ t \in Transfers /\ t \notin FromWallet /\ Sound(row, intent, journal, DeepOnes)
  BY DepositsAssumption DEF IInv, Reclassify, SuspectOk
<1>2. CASE UNCHANGED <<journal, row>>
  BY <1>2, QuietRows DEF Reclassify, rows
<1>3. CASE journal' = Reversed(t) /\ row' = Unmatched(t)
  <2> DEFINE k == <<"reversal", t>>
             e == [row[t] EXCEPT !.status = "UNMATCHED"]
  <2>1. row' = [row EXCEPT ![t] = e] /\ intent' = intent
    BY <1>3 DEF Unmatched, Reclassify
  <2>2. e \in DepositRow /\ e.status = "UNMATCHED" /\ e.intent = row[t].intent /\ e.block = row[t].block
    BY <1>1 DEF Sound, DepositRow, Status
  <2> HIDE DEF e
  <2>3. /\ journal' \in [Keys -> {0, 1}]
        /\ \A o \in Keys \ {k} : journal'[o] = journal[o]
        /\ journal'[k] = 1 => journal[k] = 1 \/ row[t].status = "CREDITED"
    <3>1. k \in Keys
      BY <1>1, KeysType
    <3> QED
      BY <1>1, <1>3, <3>1, PostEffect DEF Reversed, Sound
  <2>4. \A v \in Transfers : /\ journal'[<<"credit", v>>] = journal[<<"credit", v>>]
                             /\ v # t => journal'[<<"reversal", v>>] = journal[<<"reversal", v>>]
    <3>1. \A v \in Transfers : /\ <<"credit", v>> \in Keys \ {k}
                               /\ v # t => <<"reversal", v>> \in Keys \ {k}
      BY DEF Keys
    <3> QED
      BY <2>3, <3>1
  <2>5. \A v \in Transfers : RowOk(row'[v], v, journal', DeepOnes)
    <3>1. row[t].status # "ABSENT"
      BY DEF IInv, SuspectOk, Reclassify
    <3> QED
      BY <1>1, <2>1, <2>2, <2>3, <2>4, <3>1 DEF Sound, RowOk
  <2>6. \A i \in Intents : IntentOk(intent'[i], journal')
    BY <1>1, <2>1, <2>4, DepositsAssumption DEF Sound, IntentOk
  <2>7. Sound(row', intent', journal', DeepOnes)
    BY <1>1, <2>1, <2>2, <2>3, <2>5, <2>6 DEF Sound
  <2>8. Later(row, journal, DeepOnes, row', journal', DeepOnes)
    BY <1>1, <2>1, <2>2, <2>4 DEF Later, Sound
  <2> QED
    BY <2>7, <2>8, RowsKeptIf DEF IInv
<1> QED
  BY <1>2, <1>3 DEF Reclassify

\* Intents are created and expire: none of these is credited.
LEMMA IntentRows ==
  ASSUME IInv, [Next]_vars, (\E i \in Intents : CreateIntent(i)) \/ ExpireIntents
  PROVE  RowsKept
<1>t. Sound(row, intent, journal, DeepOnes)
  BY DEF IInv
<1>1. /\ intent' \in [Intents -> IntentRow]
      /\ \A i \in Intents : intent'[i].tx \in {intent[i].tx, None}
      /\ \A i \in Intents : intent'[i].status = "CREDITED" => intent'[i] = intent[i]
  <2>1. ASSUME NEW i \in Intents, CreateIntent(i)
        PROVE  \A k \in Intents :
                 /\ intent'[k] \in IntentRow
                 /\ intent'[k].tx \in {intent[k].tx, None}
                 /\ intent'[k].status = "CREDITED" => intent'[k] = intent[k]
    BY <1>t, <2>1 DEF CreateIntent, Sound, IntentRow, IntentStatus, Active
  <2>2. CASE ExpireIntents
    BY <1>t, <2>2 DEF ExpireIntents, Forgotten, Sound, IntentRow, IntentStatus
  <2>3. ASSUME NEW i \in Intents, CreateIntent(i)
        PROVE  intent' \in [Intents -> IntentRow]
    <3>1. \A k \in Intents : intent'[k] \in IntentRow
      BY <2>1, <2>3
    <3>2. intent' = [k \in Intents |-> intent'[k]]
      BY <2>3 DEF CreateIntent
    <3> QED
      BY <3>1, <3>2
  <2> QED
    BY <2>1, <2>2, <2>3
<1>2. row' = row /\ journal' = journal
  BY DEF CreateIntent, ExpireIntents
<1>3. Distinct(intent') /\ \A i \in Intents : IntentOk(intent'[i], journal)
  BY <1>t, <1>1 DEF Sound, Distinct, IntentOk
<1>4. /\ Sound(row', intent', journal', DeepOnes)
      /\ Later(row, journal, DeepOnes, row', journal', DeepOnes)
  BY <1>t, <1>1, <1>2, <1>3 DEF Sound, Later
<1> QED
  BY <1>4, RowsKeptIf DEF IInv

LEMMA EveryStep ==
  ASSUME IInv, [Next]_vars
  PROVE  RowsKept
<1>1. CASE UNCHANGED rows
  BY <1>1, QuietRows
<1>2. CASE Environment
  BY <1>1, <1>2, IntentRows
     DEF Environment, Reorg, Sweep, Register, NextBlock, Lapse, Restart
<1>3. CASE Calls
  BY <1>1, <1>3, CallRows DEF Calls, Submit, Refresh
<1>4. CASE Scans
  BY <1>1, <1>4, ScanRows DEF Scans, StartScan, Deliver, Look
<1>5. CASE Checks
  BY <1>1, <1>5, IntentRows, CheckRows, ReclassifyRows DEF Checks, Reconcile, Suspect
<1>6. CASE UNCHANGED vars
  BY <1>1, <1>6 DEF vars, rows
<1> QED
  BY <1>2, <1>3, <1>4, <1>5, <1>6 DEF Next

-----------------------------------------------------------------------------
(* What every step does to the processes *)

\* What the processes have read holds of the next state too.
StillOk ==
  /\ DOMAIN calls = Callers /\ \A c \in Callers : CallOk(calls[c], row', journal')
  /\ DOMAIN scan = Scanners /\ \A s \in Scanners : ScanOk(scan[s], DeepOnes')
  /\ CheckOk(check, row', DeepOnes')
  /\ SuspectOk(suspect, row')

LEMMA StillTrue == ASSUME IInv, RowsKept PROVE StillOk
<1>1. Later(row, journal, DeepOnes, row', journal', DeepOnes')
  BY DEF RowsKept
<1>2. /\ \A c : CallOk(c, row, journal) => CallOk(c, row', journal')
      /\ \A c : ScanOk(c, DeepOnes) => ScanOk(c, DeepOnes')
      /\ \A c : CheckOk(c, row, DeepOnes) => CheckOk(c, row', DeepOnes')
      /\ \A t : SuspectOk(t, row) => SuspectOk(t, row')
  BY <1>1, CallLater
<1> QED
  BY <1>2 DEF IInv, StillOk

LEMMA IdleOk ==
  /\ \A r, j : CallOk(NoCall, r, j)
  /\ \A deep : ScanOk(NoScan, deep)
  /\ \A r, deep : CheckOk(NoCheck, r, deep)
<1>1. \A r, j : CallOk(NoCall, r, j)
  BY DEF CallOk, Call, NoCall, Status
<1>2. \A deep : ScanOk(NoScan, deep)
  BY DEF ScanOk, Scan, NoScan
<1>3. \A r, deep : CheckOk(NoCheck, r, deep)
  BY DEF CheckOk, Check, NoCheck
<1> QED
  BY <1>1, <1>2, <1>3

CallsOk == DOMAIN calls = Callers /\ \A c \in Callers : CallOk(calls[c], row, journal)
ScansOk == DOMAIN scan = Scanners /\ \A s \in Scanners : ScanOk(scan[s], DeepOnes)

\* The calls.
LEMMA CallStep ==
  ASSUME IInv, StillOk, RowsKept, Calls
  PROVE  CallsOk'
<1> SUFFICES ASSUME NEW c \in Callers, NEW next, calls' = [calls EXCEPT ![c] = next],
                    CallOk(next, row', journal')
             PROVE  CallsOk'
  <2>1. ASSUME NEW c \in Callers, NEW i \in Intents, NEW t \in Transfers, Submit(c, i, t)
        PROVE  \E next : calls' = [calls EXCEPT ![c] = next] /\ CallOk(next, row', journal')
    <3> DEFINE step == IF i \in lapsed /\ intent[i].tx = None THEN "late"
                       ELSE IF t \in Mined THEN "mined" ELSE "unmined"
               n == IF t \in Mined THEN ConfirmationsAt(height, block[t]) ELSE 0
               next == [NoCall EXCEPT !.step = step, !.i = i, !.t = t, !.block = block[t],
                                      !.confirmations = n]
    <3>1. calls' = [calls EXCEPT ![c] = next] /\ t \in FromWallet
      BY <2>1 DEF Submit
    <3>2. block[t] \in Int /\ n \in Int /\ (step = "mined" => block[t] # 0)
      BY DEF IInv, ChainInv, ConfirmationsAt, Mined
    <3>3. step \in {"late", "mined", "unmined"}
      OBVIOUS
    <3> HIDE DEF step, n
    <3>4. CallOk(next, row', journal')
      BY <3>1, <3>2, <3>3 DEF CallOk, Call, NoCall, Status
    <3> QED
      BY <3>1, <3>4
  <2>2. ASSUME NEW c \in Callers, NEW i \in Intents, NEW t \in Transfers, Refresh(c, i, t)
        PROVE  \E next : calls' = [calls EXCEPT ![c] = next] /\ CallOk(next, row', journal')
    <3> DEFINE n == ConfirmationsAt(height, row[t].block)
               next == [NoCall EXCEPT !.step = "refresh", !.i = i, !.t = t, !.block = row[t].block,
                                      !.confirmations = n]
    <3>1. calls' = [calls EXCEPT ![c] = next] /\ row' = row /\ row[t].intent = i
      BY <2>2 DEF Refresh, rows
    <3>2. row[t] \in DepositRow /\ RowOk(row[t], t, journal, DeepOnes) /\ i # None
      BY DepositsAssumption DEF IInv, Sound
    <3>3. t \in FromWallet /\ row'[t].status # "ABSENT"
      BY <3>1, <3>2 DEF RowOk
    <3>4. row[t].block \in Int /\ n \in Int
      BY <3>2 DEF DepositRow, IInv, ChainInv, ConfirmationsAt
    <3> HIDE DEF n
    <3>5. CallOk(next, row', journal')
      BY <3>3, <3>4 DEF CallOk, Call, NoCall, Status
    <3> QED
      BY <3>1, <3>5
  <2>3. ASSUME NEW c \in Callers, MarkExpired(c) \/ MarkSubmitted(c) \/ Finish(c)
        PROVE  \E next : calls' = [calls EXCEPT ![c] = next] /\ CallOk(next, row', journal')
    BY <2>3, IdleOk DEF MarkExpired, MarkSubmitted, Finish, Overwrite
  <2>4. ASSUME NEW c \in Callers, RecordCall(c)
        PROVE  \E next : calls' = [calls EXCEPT ![c] = next] /\ CallOk(next, row', journal')
    <3> DEFINE mine == calls[c]
    <3>1. PICK s : s = Recorded(mine.t, mine.i, mine.block, mine.confirmations)
      OBVIOUS
    <3>2. /\ Write(s) /\ mine.step \in {"mined", "refresh"}
          /\ calls' = [calls EXCEPT ![c] =
               IF mine.step = "mined" /\ Unique(s)
               THEN [mine EXCEPT !.step = "finish", !.result = s.row[mine.t].status]
               ELSE NoCall]
      BY <2>4, <3>1 DEF RecordCall
    <3>3. CASE mine.step = "mined" /\ Unique(s)
      <4> DEFINE next == [mine EXCEPT !.step = "finish", !.result = s.row[mine.t].status]
      <4>1. CallOk(mine, row', journal') /\ mine.t \in Transfers
        BY <3>2, DepositsAssumption DEF StillOk, CallOk
      <4>2. row' = s.row
        BY <3>2, <3>3 DEF Write
      <4>3. /\ row'[mine.t].status \in Status
            /\ row'[mine.t].status = "CREDITED" => journal'[<<"credit", mine.t>>] = 1
        BY <4>1 DEF RowsKept, Sound, RowOk, DepositRow
      <4>4. /\ next \in Call /\ next.step = "finish" /\ next.i = mine.i /\ next.t = mine.t
            /\ next.result = row'[mine.t].status
        BY <4>1, <4>2, <4>3 DEF CallOk, Call
      <4> HIDE DEF next
      <4>5. CallOk(next, row', journal')
        BY <3>3, <4>1, <4>3, <4>4 DEF CallOk
      <4> QED
        BY <3>2, <3>3, <4>5 DEF next
    <3>4. CASE ~(mine.step = "mined" /\ Unique(s))
      BY <3>2, <3>4, IdleOk
    <3> QED
      BY <3>3, <3>4
  <2> QED
    BY <2>1, <2>2, <2>3, <2>4 DEF Calls
<1> QED
  BY DEF StillOk, CallsOk, CallOk

LEMMA MatchType ==
  ASSUME NEW t \in Transfers
  PROVE  MatchOf(t) # None => MatchOf(t) \in Intents /\ t \in FromWallet
<1>1. CASE Matching(t) = {}
  BY <1>1 DEF MatchOf
<1>2. CASE Matching(t) # {}
  <2>1. Matching(t) \in SUBSET Nat /\ Matching(t) \subseteq Intents /\ t \in FromWallet
    BY <1>2 DEF Matching, Intents
  <2>2. \E i \in Matching(t) : \A j \in Matching(t) : i <= j
    BY <1>2, <2>1, LeastNumber
  <2>3. MatchOf(t) \in Matching(t)
    BY <1>2, <2>2 DEF MatchOf
  <2> QED
    BY <2>1, <2>3
<1> QED
  BY <1>1, <1>2

\* The scans.
LEMMA ScanStep ==
  ASSUME IInv, StillOk, Scans
  PROVE  ScansOk'
<1> DEFINE Logged(s, next) == scan' = [scan EXCEPT ![s] = next] /\ ScanOk(next, DeepOnes')
<1>a. ASSUME NEW s \in Scanners, NEW l, Advance(s, l)
      PROVE  \E next : Logged(s, next)
  <2> DEFINE now == scan[s]
             next == [now EXCEPT !.todo = @ \ {l}, !.next = None, !.i = None]
  <2>1. scan' = [scan EXCEPT ![s] = next]
    BY <1>a DEF Advance
  <2>2. ScanOk(now, DeepOnes')
    BY DEF StillOk
  <2>3. /\ next \in Scan /\ next.next = None /\ next.todo \subseteq now.todo
        /\ next.latest = now.latest
    BY <2>2 DEF ScanOk, Scan
  <2> HIDE DEF next
  <2>4. ScanOk(next, DeepOnes')
    BY <2>2, <2>3 DEF ScanOk
  <2> QED
    BY <2>1, <2>4
<1> SUFFICES ASSUME NEW s \in Scanners, NEW next, Logged(s, next)
             PROVE  ScansOk'
  <2>n. ASSUME NEW s \in Scanners, NEW S \in SUBSET Mined, NEW latest,
               latest = height \/ \E t \in Mined : S = {t} /\ latest = block[t],
               UNCHANGED <<block, height>>,
               scan' = [scan EXCEPT ![s] = [NoScan EXCEPT !.todo = Logs(S), !.latest = latest]]
        PROVE  \E next : Logged(s, next)
    <3> DEFINE next == [NoScan EXCEPT !.todo = Logs(S), !.latest = latest]
    <3>1. Logs(S) \subseteq Log /\ latest \in Int
      <4>1. \A t \in Mined : t \in Transfers /\ block[t] \in Int
        BY DEF Mined, IInv, ChainInv
      <4>2. height \in Int
        BY DEF IInv, ChainInv
      <4>3. Logs(S) \subseteq Log
        BY <4>1 DEF Logs, Log
      <4> QED
        BY <2>n, <4>1, <4>2, <4>3
    <3>2. next \in Scan /\ next.todo = Logs(S) /\ next.latest = latest /\ next.next = None
      BY <3>1 DEF Scan, NoScan
    <3>3. ASSUME NEW t \in S
          PROVE  block[t] # 0 /\ (ConfirmationsAt(latest, block[t]) >= Confirmations => t \in DeepOnes')
      <4>1. /\ block[t] \in Nat /\ block[t] # 0 /\ height \in Nat /\ block[t] <= height
            /\ Confirmations \in Nat /\ t \in Mined
        BY <3>3, DepositsAssumption DEF Mined, IInv, ChainInv
      <4>2. latest = height \/ latest = block[t]
        BY <2>n, <3>3
      <4>3. ConfirmationsAt(latest, block[t]) >= Confirmations => Deep(t)
        BY <4>1, <4>2 DEF Deep, ConfirmationsAt
      <4>4. Deep(t)' <=> Deep(t)
        BY <2>n DEF Deep, Mined
      <4> QED
        BY <4>1, <4>3, <4>4 DEF DeepOnes, Mined
    <3> HIDE DEF next
    <3>4. ScanOk(next, DeepOnes')
      BY <3>2, <3>3 DEF ScanOk, Logs
    <3> QED
      BY <2>n, <3>4 DEF next
  <2>1. CASE StartScan
    <3>1. PICK found \in SUBSET Mined :
            scan' = [scan EXCEPT !["cron"] = [NoScan EXCEPT !.todo = Logs(found), !.latest = height]]
      BY <2>1 DEF StartScan
    <3>2. "cron" \in Scanners /\ UNCHANGED <<block, height>>
      BY <2>1 DEF StartScan, chain
    <3> QED
      BY <3>1, <3>2, <2>n
  <2>2. ASSUME NEW t \in Transfers, Deliver(t)
        PROVE  ScansOk'
    <3>1. /\ "webhook" \in Scanners /\ t \in Mined /\ UNCHANGED <<block, height>>
          /\ scan' = [scan EXCEPT !["webhook"] = [NoScan EXCEPT !.todo = Logs({t}), !.latest = block[t]]]
      BY <2>2 DEF Deliver, chain
    <3>2. {t} \in SUBSET Mined /\ \E u \in Mined : {t} = {u} /\ block[t] = block[u]
      BY <3>1
    <3> QED
      BY <3>1, <3>2, <2>n
  <2>3. ASSUME NEW s \in Scanners, Look(s)
        PROVE  ScansOk'
    <3>1. PICK l \in scan[s].todo :
            \/ Advance(s, l)
            \/ scan' = [scan EXCEPT ![s].next = l, ![s].i = MatchOf(l[1])]
      BY <2>3 DEF Look
    <3>2. CASE Advance(s, l)
      BY <3>2, <1>a
    <3>3. CASE scan' = [scan EXCEPT ![s].next = l, ![s].i = MatchOf(l[1])]
      <4> DEFINE now == scan[s]
                 m == MatchOf(l[1])
                 next == [now EXCEPT !.next = l, !.i = m]
      <4>1. ScanOk(now, DeepOnes') /\ l \in Log /\ DOMAIN scan = Scanners
        BY DEF StillOk, ScanOk, Scan
      <4>2. scan' = [scan EXCEPT ![s] = next]
        BY <3>3, <4>1 DEF ScanOk, Scan
      <4>3. m # None => m \in Intents /\ l[1] \in FromWallet
        BY <4>1, MatchType DEF Log
      <4> HIDE DEF m
      <4>4. /\ next \in Scan /\ next.next = l /\ next.todo = now.todo
            /\ next.latest = now.latest /\ next.i = m
        BY <4>1, <4>3 DEF ScanOk, Scan
      <4> HIDE DEF next
      <4>5. ScanOk(next, DeepOnes')
        BY <4>1, <4>3, <4>4 DEF ScanOk
      <4> QED
        BY <4>2, <4>5
    <3> QED
      BY <3>1, <3>2, <3>3
  <2>4. ASSUME NEW s \in Scanners, RecordLog(s)
        PROVE  ScansOk'
    <3>1. CASE scan' = [scan EXCEPT ![s] = NoScan]
      BY <3>1, IdleOk
    <3>2. CASE Advance(s, scan[s].next)
      BY <3>2, <1>a
    <3> QED
      BY <2>4, <3>1, <3>2 DEF RecordLog
  <2> QED
    BY <2>1, <2>2, <2>3, <2>4 DEF Scans
<1> QED
  BY DEF StillOk, ScansOk

\* The reconciliation reads a row and the block its transfer is in.
LEMMA ReconcileOk ==
  ASSUME IInv, StillOk, NEW t \in Transfers, Reconcile(t)
  PROVE  CheckOk(check', row', DeepOnes')
<1> DEFINE n == ConfirmationsAt(height, row[t].block)
           step == IF ~StillCanonical(t) THEN "fail" ELSE "record"
<1>1. /\ row[t].status = "PENDING_CONFIRMATION"
      /\ check' = [step |-> step, t |-> t, i |-> row[t].intent, block |-> row[t].block,
                   confirmations |-> n]
      /\ UNCHANGED <<row, block, height>>
  BY DEF Reconcile, rows, chain
<1>2. row[t] \in DepositRow /\ RowOk(row[t], t, journal, DeepOnes) /\ ChainInv
  BY DEF IInv, Sound
<1>3. /\ row[t].intent \in Intents \cup {None} /\ row[t].block \in Int /\ n \in Int
      /\ row[t].block # 0 /\ (row[t].intent # None => t \in FromWallet)
  BY <1>1, <1>2 DEF DepositRow, RowOk, ChainInv, ConfirmationsAt
<1>4. step = "record" /\ n >= Confirmations => t \in DeepOnes'
  <2>1. step = "record" => block[t] = row[t].block
    BY DEF StillCanonical
  <2>2. step = "record" /\ n >= Confirmations => Deep(t)
    BY <1>3, <2>1 DEF Deep, Mined
  <2>3. Deep(t)' <=> Deep(t)
    BY <1>1 DEF Deep, Mined
  <2> QED
    BY <2>2, <2>3 DEF DeepOnes
<1>5. step \in {"fail", "record"}
  OBVIOUS
<1> HIDE DEF n, step
<1>6. check' \in Check
  BY <1>1, <1>3, <1>5 DEF Check
<1> QED
  BY <1>1, <1>3, <1>4, <1>6 DEF CheckOk

LEMMA NextInv ==
  ASSUME IInv, [Next]_vars
  PROVE  IInv'
<1>1. RowsKept /\ StillOk /\ ChainInv'
  BY EveryStep, StillTrue, DeepStays DEF IInv
<1>2. UNCHANGED calls => CallsOk'
  BY <1>1 DEF StillOk, CallsOk, CallOk
<1>3. UNCHANGED scan => ScansOk'
  BY <1>1 DEF StillOk, ScansOk
<1>4. UNCHANGED check => CheckOk(check', row', DeepOnes')
  BY <1>1 DEF StillOk
<1>5. UNCHANGED suspect => SuspectOk(suspect', row')
  BY <1>1 DEF StillOk
<1> SUFFICES CallsOk' /\ ScansOk' /\ CheckOk(check', row', DeepOnes') /\ SuspectOk(suspect', row')
  BY <1>1 DEF RowsKept, IInv, CallsOk, ScansOk, CallOk, CheckOk, SuspectOk
<1>6. CASE Calls
  <2>1. CallsOk'
    BY <1>1, <1>6, CallStep
  <2>2. UNCHANGED <<scan, check, suspect>>
    BY <1>6 DEF Calls, Submit, Refresh, MarkExpired, MarkSubmitted, RecordCall, Finish
  <2> QED
    BY <1>3, <1>4, <1>5, <2>1, <2>2
<1>7. CASE Scans
  <2>1. ScansOk'
    BY <1>1, <1>7, ScanStep
  <2>2. UNCHANGED <<calls, check, suspect>>
    BY <1>7 DEF Scans, StartScan, Deliver, Look, RecordLog
  <2> QED
    BY <1>2, <1>4, <1>5, <2>1, <2>2
<1>8. CASE Checks
  <2>1. UNCHANGED <<calls, scan>>
    BY <1>8 DEF Checks, Reconcile, Suspect, Reclassify, RecordCheck, FailGone, ExpireIntents, procs
  <2>2. ASSUME NEW t \in Transfers, Reconcile(t)
        PROVE  CheckOk(check', row', DeepOnes') /\ SuspectOk(suspect', row')
    BY <1>1, <1>5, <2>2, ReconcileOk DEF Reconcile
  <2>3. ASSUME NEW t \in Transfers, Suspect(t)
        PROVE  CheckOk(check', row', DeepOnes') /\ SuspectOk(suspect', row')
    BY <1>1, <1>4, <2>3 DEF Suspect, SuspectOk, rows
  <2>4. ASSUME Reclassify
        PROVE  CheckOk(check', row', DeepOnes') /\ SuspectOk(suspect', row')
    BY <1>4, <2>4 DEF Reclassify, SuspectOk
  <2>5. ASSUME RecordCheck \/ FailGone
        PROVE  CheckOk(check', row', DeepOnes') /\ SuspectOk(suspect', row')
    BY <1>5, <2>5, IdleOk DEF RecordCheck, FailGone
  <2>6. ASSUME ExpireIntents
        PROVE  CheckOk(check', row', DeepOnes') /\ SuspectOk(suspect', row')
    BY <1>4, <1>5, <2>6 DEF ExpireIntents, procs
  <2> QED
    BY <1>2, <1>3, <1>8, <2>1, <2>2, <2>3, <2>4, <2>5, <2>6 DEF Checks
<1>9. CASE Restart
  <2>1. CallsOk' /\ ScansOk'
    BY <1>9, IdleOk DEF Restart, CallsOk, ScansOk
  <2>2. CheckOk(check', row', DeepOnes') /\ SuspectOk(suspect', row')
    BY <1>9, IdleOk DEF Restart, SuspectOk
  <2> QED
    BY <2>1, <2>2
<1>10. CASE Environment /\ ~Restart
  <2>1. UNCHANGED <<calls, scan, check, suspect>>
    BY <1>10 DEF Environment, Reorg, Sweep, Register, NextBlock, CreateIntent, Lapse, procs
  <2> QED
    BY <1>2, <1>3, <1>4, <1>5, <2>1
<1>11. CASE UNCHANGED vars
  BY <1>2, <1>3, <1>4, <1>5, <1>11 DEF vars, procs
<1> QED
  BY <1>6, <1>7, <1>8, <1>9, <1>10, <1>11 DEF Next

LEMMA InitInv == Init => IInv
<1> SUFFICES ASSUME Init
             PROVE  IInv
  OBVIOUS
<1>1. ChainInv
  BY DEF Init, ChainInv
<1>2. Sound(row, intent, journal, DeepOnes)
  <2>1. NoRow \in DepositRow /\ NoIntent \in IntentRow
    BY DEF NoRow, NoIntent, DepositRow, IntentRow, Status, IntentStatus
  <2>2. journal \in [Keys -> {0, 1}] /\ \A t \in Transfers : journal[<<"reversal", t>>] = 0
    BY KeysType DEF Init
  <2>3. ASSUME NEW t \in Transfers
        PROVE  RowOk(row[t], t, journal, DeepOnes)
    <3>1. row[t] = NoRow /\ journal[<<"reversal", t>>] # 1
      BY <2>2 DEF Init
    <3> QED
      BY <3>1 DEF RowOk, NoRow
  <2> QED
    BY <2>1, <2>2, <2>3 DEF Init, Sound, IntentOk, NoIntent, Distinct
<1>3. CallsOk /\ ScansOk /\ CheckOk(check, row, DeepOnes) /\ SuspectOk(suspect, row)
  BY IdleOk DEF Init, CallsOk, ScansOk, SuspectOk
<1> QED
  BY <1>1, <1>2, <1>3 DEF IInv, CallsOk, ScansOk

LEMMA Invariance == Spec => []IInv
<1>1. Init => IInv
  BY InitInv
<1>2. IInv /\ [Next]_vars => IInv'
  BY NextInv
<1> QED
  BY <1>1, <1>2, PTL DEF Spec

-----------------------------------------------------------------------------
(* The theorems *)

\* What the ledger holds on account of a transfer, from the two transactions there
\* may be.
LEMMA HeldValue ==
  ASSUME IInv, NEW t \in Transfers
  PROVE  /\ Held(t) = (journal[<<"credit", t>>] - journal[<<"reversal", t>>]) * Amount[t]
         /\ Amount[t] \in Nat \ {0}
<1> DEFINE a == Amount[t]
<1>1. a \in Nat \ {0} /\ a \in Int
  BY DepositsAssumption
<1>2. /\ Debit(Pending, a).amount \in Int /\ Credit(Spot, a).amount \in Int
      /\ Debit(Spot, a).amount \in Int /\ Credit(Pending, a).amount \in Int
  BY <1>1 DEF Debit, Credit
<1>3. /\ Value(Debit(Pending, a), Spot) = 0 /\ Value(Credit(Spot, a), Spot) = a
      /\ Value(Debit(Spot, a), Spot) = -a /\ Value(Credit(Pending, a), Spot) = 0
  BY DEF Value, Debit, Credit, Spot, Pending
<1>4. NetOf(<<Debit(Pending, a), Credit(Spot, a)>>, Spot) = a
  BY <1>1, <1>2, <1>3, NetOfTwo
<1>5. NetOf(<<Debit(Spot, a), Credit(Pending, a)>>, Spot) = -a
  BY <1>1, <1>2, <1>3, NetOfTwo
<1>6. /\ Entries[<<"credit", t>>] = <<Debit(Pending, a), Credit(Spot, a)>>
      /\ Entries[<<"reversal", t>>] = <<Debit(Spot, a), Credit(Pending, a)>>
  BY KeysType DEF Entries
<1>7. journal[<<"credit", t>>] \in Int /\ journal[<<"reversal", t>>] \in Int
  BY KeysType DEF IInv, Sound
<1>8. Held(t) = journal[<<"credit", t>>] * a + journal[<<"reversal", t>>] * (-a)
  BY <1>4, <1>5, <1>6 DEF Held
<1> HIDE DEF a
<1>9. PICK c \in Int, r \in Int : c = journal[<<"credit", t>>] /\ r = journal[<<"reversal", t>>]
  BY <1>7
<1>10. c * a + r * (-a) = (c - r) * a
  BY <1>1, <1>9
<1> QED
  BY <1>1, <1>8, <1>9, <1>10 DEF a

\* Whoever finds a transfer and however their transactions interleave with the
\* reclassification, the ledger credits it at most once, a deposit shown as
\* credited has its money with the user, and one that was taken back is not shown
\* so again (creditDepositInTransaction).
THEOREM CreditedOnceAlways == Spec => []CreditedOnce
<1>1. IInv => CreditedOnce
  <2> SUFFICES ASSUME IInv, NEW t \in Transfers
               PROVE  /\ Held(t) \in {0, Amount[t]}
                      /\ row[t].status = "CREDITED" => Held(t) = Amount[t]
    BY DEF CreditedOnce
  <2>1. RowOk(row[t], t, journal, DeepOnes)
    BY DEF IInv, Sound
  <2>2. PICK c \in {0, 1}, r \in {0, 1} :
          c = journal[<<"credit", t>>] /\ r = journal[<<"reversal", t>>]
    BY KeysType DEF IInv, Sound
  <2>3. Held(t) = (c - r) * Amount[t] /\ Amount[t] \in Nat
    BY <2>2, HeldValue
  <2>4. /\ r = 1 => c = 1 /\ row[t].status # "CREDITED"
        /\ row[t].status = "CREDITED" => c = 1
    BY <2>1, <2>2 DEF RowOk
  <2>5. (1 - 0) * Amount[t] = Amount[t] /\ (0 - 0) * Amount[t] = 0 /\ (1 - 1) * Amount[t] = 0
    BY <2>3
  <2> QED
    BY <2>2, <2>3, <2>4, <2>5
<1> QED
  BY <1>1, Invariance, PTL

\* A deposit nobody announced is credited only for a transfer that is on chain with
\* its confirmations, although the scan and the reconciliation act on a block they
\* read before and the chain reorganises meanwhile.
THEOREM UnlinkedCreditIsMinedAlways == Spec => []UnlinkedCreditIsMined
<1>1. IInv => UnlinkedCreditIsMined
  BY DEF IInv, Sound, RowOk, DeepOnes, UnlinkedCreditIsMined
<1> QED
  BY <1>1, Invariance, PTL

\* An intent shown as credited names a transfer the ledger has credited, and no
\* other intent names the same, although submitIntent and the polling overwrite
\* intents they read long before.
THEOREM CreditedIntentIsPaidAlways == Spec => []CreditedIntentIsPaid
<1>1. IInv => CreditedIntentIsPaid
  <2> SUFFICES ASSUME IInv, NEW i \in Intents, intent[i].status = "CREDITED"
               PROVE  /\ intent[i].tx # None /\ Held(intent[i].tx) = Amount[intent[i].tx]
                      /\ \A j \in Intents \ {i} : intent[j].tx # intent[i].tx
    BY DEF CreditedIntentIsPaid
  <2> DEFINE t == intent[i].tx
  <2>1. t \in FromWallet /\ t \in Transfers /\ t # None /\ journal[<<"credit", t>>] = 1
    BY DepositsAssumption DEF IInv, Sound, IntentOk
  <2>2. \A j \in Intents \ {i} : intent[j].tx # t
    BY <2>1 DEF IInv, Sound, Distinct
  <2>3. journal[<<"reversal", t>>] = 0
    <3>1. RowOk(row[t], t, journal, DeepOnes) /\ journal[<<"reversal", t>>] \in {0, 1}
      BY <2>1, KeysType DEF IInv, Sound
    <3> QED
      BY <2>1, <3>1, DepositsAssumption DEF RowOk
  <2> HIDE DEF t
  <2>4. Held(t) = (1 - 0) * Amount[t] /\ Amount[t] \in Nat
    BY <2>1, <2>3, HeldValue
  <2> QED
    BY <2>1, <2>2, <2>4 DEF t
<1> QED
  BY <1>1, Invariance, PTL

-----------------------------------------------------------------------------
(* AssetContracts: the inductive invariant *)
Token == Tokens \cup {NoToken}

Contract == [there : BOOLEAN, token : Token, verified : BOOLEAN, checked : Token,
             deposit : BOOLEAN, withdrawal : BOOLEAN]

Item == [s : Standards, row : Contract, edit : Nat]

Request == [pc : {"idle"}]
      \cup [pc : {"verify"}, named : BOOLEAN, there : BOOLEAN, token : Token, edit : Nat]
      \cup [pc : {"transfers"}, deposit : BOOLEAN, withdrawal : BOOLEAN, borrows : BOOLEAN, edit : Nat]
      \cup [pc : {"bulkVerify", "bulkEnable"}, deposit : BOOLEAN, withdrawal : BOOLEAN, todo : SUBSET Item]

ContractTypeInv ==
  /\ asset \in [token : Token, verified : BOOLEAN, checked : Token]
  /\ network \in [mainnet : BOOLEAN, deposit : BOOLEAN, withdrawal : BOOLEAN]
  /\ contract \in [Standards -> Contract]
  /\ edit \in [Standards -> Nat]
  /\ call \in [Requests -> Request]
  /\ overtaken \subseteq Standards /\ borrowed \subseteq Standards

\* The asset's own verification was of a proper token.
AssetInv == asset.verified => asset.checked \in Proper

\* A row that no request overtook: the address that was checked is its own, and its flags
\* are set on its own verification or on the asset's.
ContractOk(s, line, b, assetVerified) ==
  /\ line.checked \in {NoToken, line.token}
  /\ line.token = NoToken => s = "native" \/ ~line.there
  /\ line.verified => line.there /\ (s = "native" \/ line.checked \in Proper)
  /\ line.deposit \/ line.withdrawal => line.verified \/ (s \in b /\ assetVerified)

\* What request r has read is still so in the rows k after e upserts, unless one came since:
\* then its row is among the overtaken o once it has written.
VerifyOk(r, k, e) ==
  /\ r.edit <= e["erc20"] /\ (r.there => k["erc20"].there)
  /\ r.there /\ r.edit = e["erc20"] => r.token = k["erc20"].token

TransfersOk(r, k, e, o, assetVerified) ==
  /\ r.edit <= e["erc20"] /\ (r.borrows => assetVerified)
  /\ r.edit = e["erc20"] /\ "erc20" \notin o /\ ~r.borrows /\ (r.deposit \/ r.withdrawal) =>
       k["erc20"].verified

ItemOk(item, k, e, o) ==
  /\ item.edit <= e[item.s] /\ k[item.s].there
  /\ item.edit = e[item.s] /\ item.s \notin o =>
       /\ item.row.token = k[item.s].token
       /\ item.row.verified => k[item.s].verified

RequestOk(r, k, e, o, assetVerified) ==
  /\ r.pc = "verify" => VerifyOk(r, k, e)
  /\ r.pc = "transfers" => TransfersOk(r, k, e, o, assetVerified)
  /\ r.pc \in {"bulkVerify", "bulkEnable"} => \A item \in r.todo : ItemOk(item, k, e, o)

ContractsInv ==
  /\ ContractTypeInv
  /\ asset.verified => asset.checked \in Proper
  /\ \A s \in Standards \ overtaken : ContractOk(s, contract[s], borrowed, asset.verified)
  /\ \A c \in Requests : RequestOk(call[c], contract, edit, overtaken, asset.verified)

-----------------------------------------------------------------------------
LEMMA ContractsStart == ContractInit => ContractsInv
<1> SUFFICES ASSUME ContractInit PROVE ContractsInv
  OBVIOUS
<1> USE ContractAssumption DEF ContractInit
<1>1. PICK t \in Token : /\ asset = [token |-> t, verified |-> FALSE, checked |-> NoToken]
                         /\ contract = [s \in Standards |-> Row(s = "erc20" /\ t # NoToken,
                                                                IF s = "erc20" THEN t ELSE NoToken)]
  BY DEF Token
<1>2. ContractTypeInv
  BY <1>1 DEF ContractTypeInv, Row, Contract, Token, Request, NoRequest
<1>3. \A s \in Standards : ContractOk(s, contract[s], borrowed, asset.verified)
  BY <1>1 DEF ContractOk, Row, Token, Standards
<1>4. \A c \in Requests : RequestOk(call[c], contract, edit, overtaken, asset.verified)
  BY DEF RequestOk, NoRequest
<1> QED
  BY <1>1, <1>2, <1>3, <1>4 DEF ContractsInv

\* A request stays right while the rows keep their address and lose no verification.
Stays(k, l) ==
  \A s \in Standards :
    l[s].there = k[s].there /\ l[s].token = k[s].token /\ (k[s].verified => l[s].verified)

LEMMA RequestStays ==
  ASSUME NEW k \in [Standards -> Contract], NEW l \in [Standards -> Contract], Stays(k, l),
         NEW e \in [Standards -> Nat], NEW o, NEW p, o \subseteq p,
         NEW v \in BOOLEAN, NEW w \in BOOLEAN, v => w,
         NEW r \in Request, RequestOk(r, k, e, o, v)
  PROVE  RequestOk(r, l, e, p, w)
<1>1. CASE r.pc = "verify"
  BY <1>1 DEF RequestOk, VerifyOk, Stays, Standards
<1>2. CASE r.pc = "transfers"
  <2>1. TransfersOk(r, k, e, o, v) /\ "erc20" \in Standards
    BY <1>2 DEF RequestOk, Standards
  <2>2. r.borrows \in BOOLEAN /\ r.deposit \in BOOLEAN /\ r.withdrawal \in BOOLEAN
    BY <1>2 DEF Request
  <2>3. k["erc20"].verified => l["erc20"].verified
    BY <2>1 DEF Stays
  <2>4. TransfersOk(r, l, e, p, w)
    BY <2>1, <2>2, <2>3 DEF TransfersOk
  <2> QED BY <1>2, <2>4 DEF RequestOk
<1>3. CASE r.pc \in {"bulkVerify", "bulkEnable"}
  <2>1. ASSUME NEW item \in r.todo PROVE ItemOk(item, l, e, p)
    <3>1. ItemOk(item, k, e, o) /\ item.s \in Standards
      BY <1>3 DEF RequestOk, Request, Item
    <3> QED BY <3>1 DEF ItemOk, Stays
  <2> QED BY <1>3, <2>1 DEF RequestOk
<1>4. CASE r.pc = "idle"
  BY <1>4 DEF RequestOk
<1> QED
  BY <1>1, <1>2, <1>3, <1>4 DEF Request

LEMMA UpsertKeepsContracts ==
  ASSUME ContractsInv, NEW s \in Standards, NEW t \in Token, Upsert(s, t)
  PROVE  ContractsInv'
<1>a. ContractTypeInv
  BY DEF ContractsInv
<1>b. /\ contract' = [contract EXCEPT ![s] = Row(TRUE, t)] /\ (s = "native" <=> t = NoToken)
      /\ edit' = [edit EXCEPT ![s] = @ + 1]
      /\ overtaken' = overtaken \ {s} /\ borrowed' = borrowed \ {s}
      /\ asset' = asset /\ network' = network /\ call' = call
  BY DEF Upsert, Upserted
<1> DEFINE new == Row(TRUE, t)
<1>0. new \in Contract
  BY DEF Row, Contract, Token
<1>c. edit' \in [Standards -> Nat]
  BY <1>a, <1>b DEF ContractTypeInv
<1>d. contract' \in [Standards -> Contract]
  <2> HIDE DEF new
  <2>1. contract' = [contract EXCEPT ![s] = new]
    BY <1>b DEF new
  <2> QED BY <1>a, <1>0, <2>1 DEF ContractTypeInv
<1>1. ContractTypeInv'
  BY <1>a, <1>b, <1>c, <1>d DEF ContractTypeInv
<1>2. /\ contract'[s] = new /\ edit'[s] = edit[s] + 1
      /\ \A r \in Standards : edit[r] \in Nat
      /\ \A r \in Standards \ {s} : contract'[r] = contract[r] /\ edit'[r] = edit[r]
  BY <1>a, <1>b DEF ContractTypeInv
<1>3. ASSUME NEW r \in Standards \ overtaken' PROVE ContractOk(r, contract'[r], borrowed', asset'.verified)
  <2>1. CASE r = s
    BY <2>1, <1>2, <1>b DEF ContractOk, Row, Standards
  <2>2. CASE r # s
    BY <2>2, <1>2, <1>b DEF ContractOk, ContractsInv
  <2> QED BY <2>1, <2>2
<1>4. ASSUME NEW c \in Requests PROVE RequestOk(call'[c], contract', edit', overtaken', asset'.verified)
  <2> DEFINE r == call[c]
  <2>1. RequestOk(r, contract, edit, overtaken, asset.verified) /\ r \in Request
    BY <1>a DEF ContractsInv, ContractTypeInv
  <2> SUFFICES RequestOk(r, contract', edit', overtaken', asset.verified)
    BY <1>b DEF r
  <2> HIDE DEF r
  <2>2. "erc20" \in Standards
    BY DEF Standards
  <2>3. CASE r.pc = "verify"
    <3>1. r.edit \in Nat /\ VerifyOk(r, contract, edit)
      BY <2>1, <2>3 DEF Request, RequestOk
    <3>2. VerifyOk(r, contract', edit')
      BY <3>1, <1>2, <2>2 DEF VerifyOk, Row
    <3> QED BY <3>2, <2>3 DEF RequestOk
  <2>4. CASE r.pc = "transfers"
    <3>1. /\ r.edit \in Nat /\ TransfersOk(r, contract, edit, overtaken, asset.verified)
          /\ r.deposit \in BOOLEAN /\ r.withdrawal \in BOOLEAN /\ r.borrows \in BOOLEAN
      BY <2>1, <2>4 DEF Request, RequestOk
    <3>2. asset.verified \in BOOLEAN
      BY <1>a DEF ContractTypeInv
    <3>3. CASE s = "erc20"
      <4>1. edit'["erc20"] = edit["erc20"] + 1 /\ edit["erc20"] \in Nat
        BY <3>3, <1>2, <2>2
      <4>2. TransfersOk(r, contract', edit', overtaken', asset.verified)
        BY <3>1, <3>2, <4>1 DEF TransfersOk
      <4> QED BY <4>2, <2>4 DEF RequestOk
    <3>4. CASE s # "erc20"
      <4>1. contract'["erc20"] = contract["erc20"] /\ edit'["erc20"] = edit["erc20"]
        BY <3>4, <1>2, <2>2
      <4>2. "erc20" \notin overtaken' => "erc20" \notin overtaken
        BY <3>4, <1>b
      <4>3. TransfersOk(r, contract', edit', overtaken', asset.verified)
        BY <3>1, <3>2, <4>1, <4>2 DEF TransfersOk
      <4> QED BY <4>3, <2>4 DEF RequestOk
    <3> QED BY <3>3, <3>4
  <2>5. CASE r.pc \in {"bulkVerify", "bulkEnable"}
    <3>1. ASSUME NEW item \in r.todo PROVE ItemOk(item, contract', edit', overtaken')
      <4>1. item.edit \in Nat /\ item.s \in Standards /\ ItemOk(item, contract, edit, overtaken)
        BY <2>1, <2>5 DEF Request, RequestOk, Item
      <4>2. CASE item.s = s
        BY <4>1, <4>2, <1>2 DEF Row, ItemOk
      <4>3. CASE item.s # s
        BY <4>1, <4>3, <1>b, <1>2 DEF ItemOk
      <4> QED BY <4>2, <4>3
    <3> QED BY <3>1, <2>5 DEF RequestOk
  <2>6. CASE r.pc = "idle"
    BY <2>6 DEF RequestOk
  <2> QED
    BY <2>1, <2>3, <2>4, <2>5, <2>6 DEF Request
<1> QED
  BY <1>b, <1>1, <1>3, <1>4 DEF ContractsInv

\* A request begins, or goes on with less: nothing else changes.
LEMMA RequestGoesOn ==
  ASSUME ContractsInv, NEW c \in Requests, NEW r \in Request,
         RequestOk(r, contract, edit, overtaken, asset.verified), call' = [call EXCEPT ![c] = r],
         UNCHANGED <<asset, network, contract, edit, overtaken, borrowed>>
  PROVE  ContractsInv'
<1>1. ContractTypeInv /\ call \in [Requests -> Request]
  BY DEF ContractsInv, ContractTypeInv
<1>2. call' \in [Requests -> Request]
  BY <1>1
<1>3. ContractTypeInv'
  BY <1>1, <1>2 DEF ContractTypeInv
<1>4. ASSUME NEW d \in Requests PROVE RequestOk(call'[d], contract, edit, overtaken, asset.verified)
  BY <1>1 DEF ContractsInv
<1> QED
  BY <1>3, <1>4 DEF ContractsInv

\* A request writes a row that it read when there had been so many upserts.
LEMMA RowWritten ==
  ASSUME ContractsInv, NEW s \in Standards, NEW line \in Contract, NEW at,
         contract' = [contract EXCEPT ![s] = line], edit' = edit, Overtakes(s, at),
         line.there = contract[s].there, line.token = contract[s].token, contract[s].verified => line.verified,
         at = edit[s] /\ s \notin overtaken => ContractOk(s, line, borrowed', asset'.verified),
         asset' \in [token : Token, verified : BOOLEAN, checked : Token],
         asset.verified => asset'.verified, asset'.verified => asset'.checked \in Proper,
         network' \in [mainnet : BOOLEAN, deposit : BOOLEAN, withdrawal : BOOLEAN],
         borrowed' \subseteq Standards, borrowed \subseteq borrowed' \cup {s},
         NEW c \in Requests, NEW r \in Request, call' = [call EXCEPT ![c] = r],
         RequestOk(r, contract, edit, overtaken, asset.verified)
  PROVE  ContractsInv'
<1>1. /\ contract \in [Standards -> Contract] /\ edit \in [Standards -> Nat]
      /\ asset.verified \in BOOLEAN /\ asset'.verified \in BOOLEAN
      /\ call \in [Requests -> Request] /\ overtaken \subseteq Standards
  BY DEF ContractsInv, ContractTypeInv
<1>2. contract' \in [Standards -> Contract] /\ call' \in [Requests -> Request]
  BY <1>1
<1>3. overtaken' \subseteq Standards /\ overtaken \subseteq overtaken' /\ (s \notin overtaken' => at = edit[s])
  BY <1>1 DEF Overtakes
<1>4. ContractTypeInv'
  BY <1>1, <1>2, <1>3 DEF ContractTypeInv
<1>5. ASSUME NEW z \in Standards \ overtaken' PROVE ContractOk(z, contract'[z], borrowed', asset'.verified)
  <2>1. CASE z = s
    BY <2>1, <1>1, <1>3
  <2>2. CASE z # s
    <3>1. contract'[z] = contract[z] /\ ContractOk(z, contract[z], borrowed, asset.verified)
      BY <2>2, <1>1, <1>3 DEF ContractsInv
    <3>2. z \in borrowed => z \in borrowed'
      BY <2>2
    <3> QED BY <3>1, <3>2 DEF ContractOk
  <2> QED BY <2>1, <2>2
<1>6. Stays(contract, contract')
  BY <1>1 DEF Stays
<1>7. ASSUME NEW d \in Requests PROVE RequestOk(call'[d], contract', edit', overtaken', asset'.verified)
  <2>1. RequestOk(call'[d], contract, edit, overtaken, asset.verified) /\ call'[d] \in Request
    BY <1>1, <1>2 DEF ContractsInv
  <2>2. /\ contract \in [Standards -> Contract] /\ contract' \in [Standards -> Contract]
        /\ edit \in [Standards -> Nat] /\ asset.verified \in BOOLEAN /\ asset'.verified \in BOOLEAN
        /\ overtaken \subseteq overtaken' /\ (asset.verified => asset'.verified) /\ Stays(contract, contract')
    BY <1>1, <1>2, <1>3, <1>6
  <2> DEFINE x == call'[d]   l == contract'   p == overtaken'   v == asset.verified   w == asset'.verified
  <2>3. /\ l \in [Standards -> Contract] /\ Stays(contract, l) /\ overtaken \subseteq p
        /\ v \in BOOLEAN /\ w \in BOOLEAN /\ (v => w) /\ x \in Request
        /\ RequestOk(x, contract, edit, overtaken, v)
    BY <2>1, <2>2
  <2> HIDE DEF x, l, p, v, w
  <2>4. RequestOk(x, l, edit, p, w)
    BY <2>2, <2>3, RequestStays
  <2> QED BY <2>4 DEF x, l, p, w
<1> QED
  BY <1>4, <1>5, <1>7 DEF ContractsInv

LEMMA IdleIsOk == NoRequest \in Request /\ RequestOk(NoRequest, contract, edit, overtaken, asset.verified)
  BY DEF NoRequest, Request, RequestOk

-----------------------------------------------------------------------------
LEMMA VerifyKeeps ==
  ASSUME ContractsInv, NEW c \in Requests, NEW named \in BOOLEAN, Verify(c, named)
  PROVE  ContractsInv'
<1> DEFINE line == contract["erc20"]
           token == IF line.there THEN line.token ELSE asset.token
           r == [pc |-> "verify", named |-> named, there |-> line.there, token |-> token, edit |-> edit["erc20"]]
<1>1. call' = [call EXCEPT ![c] = r] /\ UNCHANGED <<asset, network, contract, edit, overtaken, borrowed>>
  BY DEF Verify
<1>2. line \in Contract /\ asset.token \in Token /\ edit["erc20"] \in Nat
  BY DEF ContractsInv, ContractTypeInv, Standards
<1>3. r \in Request
  BY <1>2 DEF Request, Contract
<1>4. RequestOk(r, contract, edit, overtaken, asset.verified)
  BY <1>2 DEF RequestOk, VerifyOk
<1> QED
  BY <1>1, <1>3, <1>4, RequestGoesOn

LEMMA UpdateTransfersKeeps ==
  ASSUME ContractsInv, NEW c \in Requests, NEW deposit \in BOOLEAN, NEW withdrawal \in BOOLEAN,
         UpdateTransfers(c, deposit, withdrawal)
  PROVE  ContractsInv'
<1> DEFINE line == contract["erc20"]
           r == [pc |-> "transfers", deposit |-> deposit, withdrawal |-> withdrawal,
                 borrows |-> ~line.verified /\ asset.verified, edit |-> edit["erc20"]]
<1>1. /\ call' = [call EXCEPT ![c] = r] /\ UNCHANGED <<asset, network, contract, edit, overtaken, borrowed>>
      /\ deposit \/ withdrawal => line.verified \/ asset.verified
  BY DEF UpdateTransfers, IsVerified
<1>2. line.verified \in BOOLEAN /\ asset.verified \in BOOLEAN /\ edit["erc20"] \in Nat
  BY DEF ContractsInv, ContractTypeInv, Standards, Contract
<1>3. r \in Request
  BY <1>2 DEF Request
<1>4. RequestOk(r, contract, edit, overtaken, asset.verified)
  BY <1>1, <1>2 DEF RequestOk, TransfersOk
<1> QED
  BY <1>1, <1>3, <1>4, RequestGoesOn

LEMMA BulkKeeps ==
  ASSUME ContractsInv, NEW c \in Requests, NEW pc \in {"bulkVerify", "bulkEnable"},
         NEW deposit \in BOOLEAN, NEW withdrawal \in BOOLEAN, Bulk(c, pc, deposit, withdrawal)
  PROVE  ContractsInv'
<1> DEFINE items == {[s |-> s, row |-> contract[s], edit |-> edit[s]] : s \in {s \in Standards : contract[s].there}}
           r == [pc |-> pc, deposit |-> deposit, withdrawal |-> withdrawal, todo |-> items]
<1>1. call' = [call EXCEPT ![c] = r] /\ UNCHANGED <<asset, network, contract, edit, overtaken, borrowed>>
  BY DEF Bulk
<1>2. contract \in [Standards -> Contract] /\ edit \in [Standards -> Nat]
  BY DEF ContractsInv, ContractTypeInv
<1>3. \A item \in items : item \in Item /\ ItemOk(item, contract, edit, overtaken)
  BY <1>2 DEF Item, ItemOk
<1> HIDE DEF items
<1>4. r \in Request
  BY <1>3 DEF Request
<1>5. RequestOk(r, contract, edit, overtaken, asset.verified)
  BY <1>3 DEF RequestOk
<1> QED
  BY <1>1, <1>4, <1>5, RequestGoesOn

LEMMA ErcIsContract == ContractsInv => /\ "erc20" \in Standards /\ contract \in [Standards -> Contract]
                                       /\ contract["erc20"] \in Contract /\ edit \in [Standards -> Nat]
                                       /\ asset \in [token : Token, verified : BOOLEAN, checked : Token]
                                       /\ network \in [mainnet : BOOLEAN, deposit : BOOLEAN, withdrawal : BOOLEAN]
                                       /\ call \in [Requests -> Request] /\ borrowed \subseteq Standards
  BY DEF ContractsInv, ContractTypeInv, Standards

LEMMA CheckedIs ==
  ASSUME NEW line \in Contract, NEW token \in Token
  PROVE  /\ Checked(line, token) \in Contract
         /\ Checked(line, token).verified /\ Checked(line, token).checked = token
         /\ Checked(line, token).there = line.there /\ Checked(line, token).token = line.token
         /\ Checked(line, token).deposit = line.deposit /\ Checked(line, token).withdrawal = line.withdrawal
  BY DEF Checked, Contract

LEMMA VerifiedKeeps ==
  ASSUME ContractsInv, NEW c \in Requests, Verified(c)
  PROVE  ContractsInv'
<1> DEFINE r == call[c]
<1>1. /\ r \in Request /\ r.pc = "verify" /\ RequestOk(r, contract, edit, overtaken, asset.verified)
      /\ call' = [call EXCEPT ![c] = NoRequest] /\ UNCHANGED <<network, edit, borrowed>>
  BY ErcIsContract DEF Verified, Ends, ContractsInv
<1>2. /\ r.token \in Token /\ r.there \in BOOLEAN /\ r.edit \in Nat /\ VerifyOk(r, contract, edit)
  BY <1>1 DEF Request, RequestOk
<1>3. CASE r.token \notin Proper
  <2>1. UNCHANGED <<asset, contract, overtaken>>
    BY <1>3 DEF Verified
  <2> QED BY <2>1, <1>1, IdleIsOk, RequestGoesOn
<1>4. CASE r.token \in Proper
  <2>1. /\ asset' = IF r.named THEN asset ELSE Checked(asset, r.token)
        /\ IF r.there THEN contract' = [contract EXCEPT !["erc20"] = Checked(@, r.token)] /\ Overtakes("erc20", r.edit)
                      ELSE UNCHANGED <<contract, overtaken>>
    BY <1>4 DEF Verified
  <2>2. /\ asset' \in [token : Token, verified : BOOLEAN, checked : Token]
        /\ asset.verified => asset'.verified
        /\ asset'.verified => asset'.checked \in Proper
    BY <2>1, <1>2, <1>4, ErcIsContract DEF Checked, ContractsInv
  <2>3. "erc20" \notin overtaken => ContractOk("erc20", contract["erc20"], borrowed, asset.verified)
    BY ErcIsContract DEF ContractsInv
  <2>4. CASE r.there
    <3> DEFINE line == Checked(contract["erc20"], r.token)
    <3>1. /\ line \in Contract /\ line.verified /\ line.checked = r.token
          /\ line.there = contract["erc20"].there /\ line.token = contract["erc20"].token
      BY <1>2, ErcIsContract, CheckedIs
    <3>2. contract' = [contract EXCEPT !["erc20"] = line] /\ Overtakes("erc20", r.edit)
      BY <2>1, <2>4
    <3>3. r.edit = edit["erc20"] /\ "erc20" \notin overtaken => ContractOk("erc20", line, borrowed', asset'.verified)
      BY <1>2, <1>4, <2>3, <2>4, <3>1 DEF VerifyOk, ContractOk
    <3> HIDE DEF line, r
    <3>4. network' \in [mainnet : BOOLEAN, deposit : BOOLEAN, withdrawal : BOOLEAN]
          /\ borrowed' \subseteq Standards /\ borrowed \subseteq borrowed' \cup {"erc20"}
      BY <1>1, ErcIsContract
    <3> QED BY <1>1, <2>2, <3>1, <3>2, <3>3, <3>4, IdleIsOk, ErcIsContract, RowWritten
  <2>5. CASE ~r.there
    <3> DEFINE line == contract["erc20"]
    <3>1. contract' = [contract EXCEPT !["erc20"] = line]
      BY <2>1, <2>5, ErcIsContract
    <3>2. Overtakes("erc20", edit["erc20"])
      BY <2>1, <2>5 DEF Overtakes
    <3>3. "erc20" \notin overtaken => ContractOk("erc20", line, borrowed', asset'.verified)
      BY <1>1, <2>2, <2>3 DEF ContractOk
    <3>4. /\ network' \in [mainnet : BOOLEAN, deposit : BOOLEAN, withdrawal : BOOLEAN]
          /\ borrowed' \subseteq Standards /\ borrowed \subseteq borrowed' \cup {"erc20"}
          /\ line \in Contract
      BY <1>1, ErcIsContract
    <3> HIDE DEF line, r
    <3>5. line.there = contract["erc20"].there /\ line.token = contract["erc20"].token
          /\ (contract["erc20"].verified => line.verified)
      BY DEF line
    <3> QED BY <1>1, <2>2, <3>1, <3>2, <3>3, <3>4, <3>5, IdleIsOk, ErcIsContract, RowWritten
  <2> QED BY <2>4, <2>5, <1>2
<1> QED BY <1>3, <1>4

LEMMA TransfersUpdatedKeeps ==
  ASSUME ContractsInv, NEW c \in Requests, TransfersUpdated(c)
  PROVE  ContractsInv'
<1> DEFINE r == call[c]
           line == [contract["erc20"] EXCEPT !.deposit = r.deposit, !.withdrawal = r.withdrawal]
<1>1. /\ r \in Request /\ r.pc = "transfers" /\ RequestOk(r, contract, edit, overtaken, asset.verified)
      /\ call' = [call EXCEPT ![c] = NoRequest] /\ UNCHANGED <<asset, network, edit>>
      /\ contract' = [contract EXCEPT !["erc20"].deposit = r.deposit, !["erc20"].withdrawal = r.withdrawal]
      /\ Overtakes("erc20", r.edit)
      /\ borrowed' = IF r.borrows /\ (r.deposit \/ r.withdrawal) THEN borrowed \cup {"erc20"} ELSE borrowed \ {"erc20"}
  BY ErcIsContract DEF TransfersUpdated, Ends, ContractsInv
<1>2. /\ r.deposit \in BOOLEAN /\ r.withdrawal \in BOOLEAN /\ r.borrows \in BOOLEAN /\ r.edit \in Nat
      /\ TransfersOk(r, contract, edit, overtaken, asset.verified)
  BY <1>1 DEF Request, RequestOk
<1>3. /\ line \in Contract /\ line.deposit = r.deposit /\ line.withdrawal = r.withdrawal
      /\ line.verified = contract["erc20"].verified /\ line.checked = contract["erc20"].checked
      /\ line.there = contract["erc20"].there /\ line.token = contract["erc20"].token
  BY <1>2, ErcIsContract DEF Contract
<1>4. contract' = [contract EXCEPT !["erc20"] = line]
  BY <1>1, ErcIsContract DEF Contract
<1> HIDE DEF line, r
<1>5. "erc20" \notin overtaken => ContractOk("erc20", contract["erc20"], borrowed, asset.verified)
  BY ErcIsContract DEF ContractsInv
<1>6. r.edit = edit["erc20"] /\ "erc20" \notin overtaken => ContractOk("erc20", line, borrowed', asset'.verified)
  BY <1>1, <1>2, <1>3, <1>5, ErcIsContract DEF TransfersOk, ContractOk, Contract
<1>7. /\ network' \in [mainnet : BOOLEAN, deposit : BOOLEAN, withdrawal : BOOLEAN]
      /\ borrowed' \subseteq Standards /\ borrowed \subseteq borrowed' \cup {"erc20"}
  BY <1>1, ErcIsContract
<1>8. /\ asset' \in [token : Token, verified : BOOLEAN, checked : Token]
      /\ asset.verified => asset'.verified /\ (asset'.verified => asset'.checked \in Proper)
  BY <1>1, ErcIsContract DEF ContractsInv
<1>9. asset'.verified => asset'.checked \in Proper
  BY <1>1 DEF ContractsInv
<1> QED
  BY <1>1, <1>3, <1>4, <1>6, <1>7, <1>8, <1>9, IdleIsOk, ErcIsContract, RowWritten

\* One row of a bulk request is done: the request goes on with the others.
LEMMA DoneGoesOn ==
  ASSUME ContractsInv, NEW c \in Requests, call[c].pc \in {"bulkVerify", "bulkEnable"},
         NEW item \in call[c].todo, Done(c, item)
  PROVE  /\ item \in Item /\ ItemOk(item, contract, edit, overtaken)
         /\ \E r \in Request : /\ call' = [call EXCEPT ![c] = r]
                               /\ RequestOk(r, contract, edit, overtaken, asset.verified)
<1>1. call[c] \in Request /\ RequestOk(call[c], contract, edit, overtaken, asset.verified)
  BY ErcIsContract DEF ContractsInv
<1>2. /\ call[c].todo \subseteq Item /\ \A i \in call[c].todo : ItemOk(i, contract, edit, overtaken)
      /\ call[c] \in [pc : {"bulkVerify", "bulkEnable"}, deposit : BOOLEAN, withdrawal : BOOLEAN, todo : SUBSET Item]
  BY <1>1 DEF Request, RequestOk
<1>3. CASE call[c].todo = {item}
  BY <1>2, <1>3, IdleIsOk DEF Done
<1>4. CASE call[c].todo # {item}
  <2> DEFINE r == [call[c] EXCEPT !.todo = @ \ {item}]
  <2>1. call' = [call EXCEPT ![c] = r]
    BY <1>4 DEF Done
  <2>2. r \in Request /\ r.todo \subseteq call[c].todo /\ r.pc = call[c].pc
    BY <1>2 DEF Request
  <2>3. RequestOk(r, contract, edit, overtaken, asset.verified)
    BY <1>2, <2>2 DEF RequestOk
  <2> QED BY <1>2, <2>1, <2>2, <2>3
<1> QED BY <1>3, <1>4

LEMMA BulkVerifyKeeps ==
  ASSUME ContractsInv, NEW c \in Requests, BulkVerify(c)
  PROVE  ContractsInv'
<1>1. /\ call[c].pc = "bulkVerify" /\ UNCHANGED <<asset, network, edit, borrowed>>
      /\ \E item \in call[c].todo :
           /\ Done(c, item)
           /\ IF item.s = "native" \/ item.row.token \in Proper
              THEN contract' = [contract EXCEPT ![item.s] = Checked(@, item.row.token)] /\ Overtakes(item.s, item.edit)
              ELSE UNCHANGED <<contract, overtaken>>
  BY DEF BulkVerify
<1>2. PICK item \in call[c].todo :
           /\ Done(c, item)
           /\ IF item.s = "native" \/ item.row.token \in Proper
              THEN contract' = [contract EXCEPT ![item.s] = Checked(@, item.row.token)] /\ Overtakes(item.s, item.edit)
              ELSE UNCHANGED <<contract, overtaken>>
  BY <1>1
<1>3. item \in Item /\ ItemOk(item, contract, edit, overtaken)
  BY <1>1, <1>2, DoneGoesOn
<1>4. PICK r \in Request : /\ call' = [call EXCEPT ![c] = r]
                           /\ RequestOk(r, contract, edit, overtaken, asset.verified)
  BY <1>1, <1>2, DoneGoesOn
<1>5. CASE ~(item.s = "native" \/ item.row.token \in Proper)
  BY <1>1, <1>2, <1>4, <1>5, RequestGoesOn
<1>6. CASE item.s = "native" \/ item.row.token \in Proper
  <2> DEFINE s == item.s   line == Checked(contract[s], item.row.token)
  <2>1. s \in Standards /\ item.row.token \in Token /\ item.edit \in Nat /\ contract[s] \in Contract
    BY <1>3, ErcIsContract DEF Item, Contract
  <2>2. /\ line \in Contract /\ line.verified /\ line.checked = item.row.token
        /\ line.there = contract[s].there /\ line.token = contract[s].token
    BY <2>1, CheckedIs
  <2>3. contract' = [contract EXCEPT ![s] = line] /\ Overtakes(s, item.edit)
    BY <1>2, <1>6
  <2>4. s \notin overtaken => ContractOk(s, contract[s], borrowed, asset.verified)
    BY <2>1 DEF ContractsInv
  <2>5. item.edit = edit[s] /\ s \notin overtaken => ContractOk(s, line, borrowed', asset'.verified)
    BY <1>3, <1>6, <2>2, <2>4 DEF ItemOk, ContractOk
  <2>6. /\ network' \in [mainnet : BOOLEAN, deposit : BOOLEAN, withdrawal : BOOLEAN]
        /\ borrowed' \subseteq Standards /\ borrowed \subseteq borrowed' \cup {s}
        /\ asset' \in [token : Token, verified : BOOLEAN, checked : Token]
        /\ asset.verified => asset'.verified
        /\ edit' = edit
    BY <1>1, ErcIsContract
  <2>7. asset'.verified => asset'.checked \in Proper
    BY <1>1 DEF ContractsInv
  <2> HIDE DEF s, line
  <2> QED
    BY <1>4, <2>1, <2>2, <2>3, <2>5, <2>6, <2>7, RowWritten
<1> QED BY <1>5, <1>6

LEMMA BulkEnableKeeps ==
  ASSUME ContractsInv, NEW c \in Requests, BulkEnable(c)
  PROVE  ContractsInv'
<1> DEFINE Enables(item) ==
             LET withdrawal == call[c].withdrawal /\ hot
             IN  IF VerifiedForNetwork(item.s, item.row) /\ (call[c].deposit \/ withdrawal)
                 THEN /\ network' = [network EXCEPT !.deposit = @ \/ call[c].deposit, !.withdrawal = @ \/ withdrawal]
                      /\ contract' = [contract EXCEPT ![item.s].deposit = @ \/ call[c].deposit,
                                                      ![item.s].withdrawal = @ \/ withdrawal]
                      /\ Overtakes(item.s, item.edit)
                 ELSE UNCHANGED <<network, contract, overtaken>>
<1>1. /\ call[c].pc = "bulkEnable" /\ UNCHANGED <<asset, hot, edit, borrowed>>
      /\ \E item \in call[c].todo : Done(c, item) /\ Enables(item)
  BY DEF BulkEnable
<1> HIDE DEF Enables
<1>2. PICK item \in call[c].todo : Done(c, item) /\ Enables(item)
  BY <1>1
<1>3. item \in Item /\ ItemOk(item, contract, edit, overtaken)
  BY <1>1, <1>2, DoneGoesOn
<1>4. PICK r \in Request : /\ call' = [call EXCEPT ![c] = r]
                           /\ RequestOk(r, contract, edit, overtaken, asset.verified)
  BY <1>1, <1>2, DoneGoesOn
<1> DEFINE w == call[c].withdrawal /\ hot
           d == call[c].deposit
<1>5. CASE ~(VerifiedForNetwork(item.s, item.row) /\ (d \/ w))
  <2>1. UNCHANGED <<network, contract, overtaken>>
    BY <1>2, <1>5 DEF Enables
  <2> QED BY <1>1, <1>4, <2>1, RequestGoesOn
<1>6. CASE VerifiedForNetwork(item.s, item.row) /\ (d \/ w)
  <2>a. /\ network' = [network EXCEPT !.deposit = @ \/ d, !.withdrawal = @ \/ w]
        /\ contract' = [contract EXCEPT ![item.s].deposit = @ \/ d, ![item.s].withdrawal = @ \/ w]
        /\ Overtakes(item.s, item.edit)
    BY <1>2, <1>6 DEF Enables
  <2> DEFINE s == item.s
             x == contract[s].deposit \/ d
             y == contract[s].withdrawal \/ w
             line == [contract[s] EXCEPT !.deposit = x, !.withdrawal = y]
  <2>b. x \in BOOLEAN /\ y \in BOOLEAN
    OBVIOUS
  <2>1. s \in Standards /\ item.row.verified /\ item.edit \in Nat /\ contract[s] \in Contract
    BY <1>3, <1>6, ErcIsContract DEF Item, Contract, VerifiedForNetwork
  <2>c. contract' = [contract EXCEPT ![s] = line]
    BY <2>a, <2>1, ErcIsContract DEF Contract
  <2> HIDE DEF x, y
  <2>2. /\ line \in Contract /\ line.verified = contract[s].verified /\ line.checked = contract[s].checked
        /\ line.there = contract[s].there /\ line.token = contract[s].token
    BY <2>1, <2>b DEF Contract
  <2>4. s \notin overtaken => ContractOk(s, contract[s], borrowed, asset.verified)
    BY <2>1 DEF ContractsInv
  <2>5. item.edit = edit[s] /\ s \notin overtaken => ContractOk(s, line, borrowed', asset'.verified)
    BY <1>3, <2>1, <2>2, <2>4 DEF ItemOk, ContractOk
  <2>d. (network.deposit \/ d) \in BOOLEAN /\ (network.withdrawal \/ w) \in BOOLEAN
    OBVIOUS
  <2>e. network' \in [mainnet : BOOLEAN, deposit : BOOLEAN, withdrawal : BOOLEAN]
    BY <2>a, <2>d, ErcIsContract
  <2>6. /\ borrowed' \subseteq Standards /\ borrowed \subseteq borrowed' \cup {s}
        /\ asset' \in [token : Token, verified : BOOLEAN, checked : Token]
        /\ asset.verified => asset'.verified
        /\ edit' = edit /\ Overtakes(s, item.edit)
    BY <1>1, <2>a, ErcIsContract
  <2>7. asset'.verified => asset'.checked \in Proper
    BY <1>1 DEF ContractsInv
  <2> HIDE DEF s, line
  <2> QED
    BY <1>4, <2>1, <2>2, <2>c, <2>e, <2>5, <2>6, <2>7, RowWritten
<1> QED BY <1>5, <1>6

LEMMA ContractsKept == ContractsInv /\ [ContractNext]_contractVars => ContractsInv'
<1> SUFFICES ASSUME ContractsInv, [ContractNext]_contractVars PROVE ContractsInv'
  OBVIOUS
<1>1. ASSUME NEW s \in Standards, NEW t \in Tokens \cup {NoToken}, Upsert(s, t) PROVE ContractsInv'
  BY <1>1, UpsertKeepsContracts DEF Token
<1>2. ASSUME NEW c \in Requests, NEW named \in BOOLEAN, Verify(c, named) PROVE ContractsInv'
  BY <1>2, VerifyKeeps
<1>3. ASSUME NEW c \in Requests, NEW deposit \in BOOLEAN, NEW withdrawal \in BOOLEAN,
             UpdateTransfers(c, deposit, withdrawal)
      PROVE  ContractsInv'
  BY <1>3, UpdateTransfersKeeps
<1>4. ASSUME NEW c \in Requests, NEW pc \in {"bulkVerify", "bulkEnable"},
             NEW deposit \in BOOLEAN, NEW withdrawal \in BOOLEAN, Bulk(c, pc, deposit, withdrawal)
      PROVE  ContractsInv'
  BY <1>4, BulkKeeps
<1>5. ASSUME NEW c \in Requests, Verified(c) \/ TransfersUpdated(c) \/ BulkVerify(c) \/ BulkEnable(c)
      PROVE  ContractsInv'
  BY <1>5, VerifiedKeeps, TransfersUpdatedKeeps, BulkVerifyKeeps, BulkEnableKeeps
<1>6. CASE UNCHANGED contractVars
  BY <1>6 DEF contractVars, ContractsInv, ContractTypeInv
<1> QED
  BY <1>1, <1>2, <1>3, <1>4, <1>5, <1>6 DEF ContractNext

\* What is used was checked, and the services agree: a consequence of the invariant.
LEMMA ContractsAreGood == ContractsInv => ContractsAreChecked
<1> SUFFICES ASSUME ContractsInv PROVE ContractsAreChecked
  OBVIOUS
<1>1. /\ \A s \in Standards \ overtaken : ContractOk(s, contract[s], borrowed, asset.verified)
      /\ asset.verified => asset.checked \in Proper
      /\ \A s \in Standards : contract[s] \in Contract
      /\ asset.verified \in BOOLEAN
  BY DEF ContractsInv, ContractTypeInv
<1>2. NoToken \notin Proper
  BY ContractAssumption
<1>3. UsedIsChecked
  BY <1>1, <1>2 DEF UsedIsChecked, ContractOk, DepositTaken, WithdrawalTaken, Broadcastable, HasAddress, Target, Standards
<1>4. ASSUME NEW s \in Standards
      PROVE  /\ DepositShown(s) => DepositListed(s) /\ (DepositTaken(s) \/ s # Target)
             /\ WithdrawalShown(s) => WithdrawalTaken(s) \/ s # Target
             /\ DepositTaken(s) <=> AddressGiven(s)
             /\ DepositTaken(s) => Scanned(s)
  BY <1>1 DEF DepositShown, DepositListed, DepositTaken, WithdrawalShown, WithdrawalTaken, AddressGiven, Scanned,
     HasAddress, VerifiedForNetwork, Standards, Contract
<1>5. ASSUME NEW s \in Standards, s \notin overtaken, ShownInAccount(s)
      PROVE  DepositTaken(s) \/ s # Target
  BY <1>1, <1>2, <1>5 DEF ShownInAccount, DepositTaken, HasAddress, ContractOk, Standards, Contract
<1> QED
  BY <1>3, <1>4, <1>5 DEF ContractsAreChecked, ServicesAgree

\* Whatever requests overlap: the contracts that deposits and withdrawals use were checked on
\* chain with the address they have, and the services that read them decide alike.
THEOREM ContractsAreCheckedAlways == ContractSpec => []ContractsAreChecked
<1>1. ContractInit => ContractsInv
  BY ContractsStart
<1>2. ContractsInv /\ [ContractNext]_contractVars => ContractsInv'
  BY ContractsKept
<1>3. ContractsInv => ContractsAreChecked
  BY ContractsAreGood
<1> QED
  BY <1>1, <1>2, <1>3, PTL DEF ContractSpec

-----------------------------------------------------------------------------
(* DepositScans: the inductive invariant *)
RowKeys == ({"payment"} \X Payments) \cup ({"delta"} \X Int)

Detected == [key : RowKeys, sum : Nat, at : Int, credited : BOOLEAN]

\* One row for each key.
RowsAre(D) ==
  /\ D \subseteq Detected /\ IsFiniteSet(D)
  /\ \A r, s \in D : r.key = s.key => r = s

ScanPcs == {"idle", "scan", "record", "balance", "weigh", "delta"}

Reading == [pc : ScanPcs, found : SUBSET Payments, to : Int, tracked : Int, funds : Int, of : Payments \cup {Resting.of}]

ScanTypeInv ==
  /\ stream \in Streams /\ head \in Nat /\ position \in Int
  /\ came \in [Payments -> Nat] /\ listed \subseteq Arrived
  /\ RowsAre(detected)
  /\ reading \in [Finders -> Reading]
  /\ sweptAway \in Nat /\ raced \in BOOLEAN

\* What scanner x is about to record still fits into the sum of what came in.
ReadingOk(x, kind, some, sum) ==
  /\ x.found \subseteq some
  /\ x.pc \notin {"idle", "scan"} => kind = "spl"
  /\ x.pc = "record" => x.of \in some /\ x.tracked + Sum[x.of] <= sum
  /\ x.pc \in {"weigh", "delta"} => x.funds <= sum
  /\ x.pc = "delta" => x.tracked < x.funds

\* A row of a payment as it came.
IsOfPayment(r, some, at) ==
  \E p \in some : r = [key |-> OfPayment(p), sum |-> Sum[p], at |-> at[p], credited |-> r.credited]

ScanInv ==
  /\ ScanTypeInv
  /\ \A a \in Finders : ReadingOk(reading[a], stream, Arrived, Received)
  /\ stream # "spl" => \A r \in detected : IsOfPayment(r, Arrived, came)
  /\ stream = "spl" /\ ~raced => SumOf(detected) <= Received

-----------------------------------------------------------------------------
(* What came in, and the sums of rows. *)
LEMMA ReceivedOf ==
  ASSUME NEW A, A \subseteq Payments
  PROVE  /\ IsFiniteSet(A) /\ (\A p \in A : Sum[p] \in Nat)
         /\ SumOver([p \in A |-> Sum[p]]) = Part(Sum, A) /\ Part(Sum, A) \in Nat
<1> DEFINE f == [p \in A |-> Sum[p]]
<1>1. IsFiniteSet(A) /\ \A p \in A : Sum[p] \in Nat
  BY ScanAssumption, FS_Subset
<1>2. SumOver(f) = Part(f, A)
  BY SumOverPart
<1>3. \A p \in A : Sum[p] \in Int /\ f[p] = Sum[p]
  BY <1>1
<1>4. Part(f, A) = Part(Sum, A)
  <2> HIDE DEF f
  <2> QED BY <1>1, <1>3, PartSame
<1>5. Part(Sum, A) \in Int
  BY <1>1, <1>3, PartType
<1>6. 0 <= Part(Sum, A)
  <2>1. {} \in SUBSET A /\ Part(Sum, {}) = 0
    BY PartEmpty
  <2> QED BY <1>1, <2>1, PartWider
<1> QED
  BY <1>1, <1>2, <1>4, <1>5, <1>6

\* The more payments, the more they come to; each of them is part of it.
LEMMA MoreReceived ==
  ASSUME NEW A, NEW B, A \subseteq B, B \subseteq Payments
  PROVE  Part(Sum, A) <= Part(Sum, B)
  BY ReceivedOf, PartWider

LEMMA ReceivedIs == Received \in Nat /\ \A p \in Arrived : Sum[p] \in Nat /\ Sum[p] <= Received
<1>1. Arrived \subseteq Payments /\ Received = Part(Sum, Arrived) /\ Received \in Nat
  BY ReceivedOf DEF Arrived, Received
<1>2. ASSUME NEW p \in Arrived PROVE Sum[p] \in Nat /\ Sum[p] <= Received
  <2>1. /\ {p} \subseteq Arrived /\ {p} \subseteq Payments /\ {p} \ {p} = {} /\ p \in {p}
        /\ \A q \in {p} : q = p
    BY <1>1
  <2>2. Sum[p] \in Nat /\ IsFiniteSet({p})
    BY <2>1, ReceivedOf
  <2>3. Part(Sum, {p}) = Sum[p] + Part(Sum, {p} \ {p})
    <3>1. \A q \in {p} : Sum[q] \in Int
      BY <2>1, <2>2
    <3> QED BY <2>1, <2>2, <3>1, PartRemove
  <2>4. Part(Sum, {p}) = Sum[p]
    BY <2>1, <2>2, <2>3, PartEmpty
  <2> QED BY <1>1, <2>1, <2>2, <2>4, MoreReceived
<1> QED BY <1>1, <1>2

SumAt(D) == [r \in D |-> r.sum]

LEMMA SumOfIs ==
  ASSUME NEW D, RowsAre(D)
  PROVE  SumOf(D) = Part(SumAt(D), D) /\ SumOf(D) \in Nat /\ \A r \in D : SumAt(D)[r] = r.sum /\ r.sum \in Nat
<1>1. IsFiniteSet(D) /\ \A r \in D : SumAt(D)[r] = r.sum /\ r.sum \in Nat
  BY DEF RowsAre, Detected, SumAt
<1>2. SumOf(D) = Part(SumAt(D), D)
  <2>1. SumOf(D) = SumOver(SumAt(D)) /\ DOMAIN SumAt(D) = D
    BY DEF SumOf, SumAt
  <2> QED BY <2>1, SumOverPart
<1>3. Part(SumAt(D), D) \in Int
  BY <1>1, PartType
<1>4. 0 <= Part(SumAt(D), D)
  <2>1. {} \in SUBSET D /\ Part(SumAt(D), {}) = 0
    BY PartEmpty
  <2> QED BY <1>1, <2>1, PartWider
<1> QED
  BY <1>1, <1>2, <1>3, <1>4

\* A row for a new key.
LEMMA SumOfMore ==
  ASSUME NEW D, RowsAre(D), NEW x \in Detected, \A r \in D : r.key # x.key
  PROVE  RowsAre(D \cup {x}) /\ SumOf(D \cup {x}) = SumOf(D) + x.sum
<1> DEFINE E == D \cup {x}
<1>1. RowsAre(E)
  BY FS_AddElement DEF RowsAre
<1>2. x \in E /\ x \notin D /\ E \ {x} = D
  OBVIOUS
<1>3. /\ SumOf(E) = Part(SumAt(E), E) /\ (\A r \in E : SumAt(E)[r] = r.sum /\ r.sum \in Nat)
      /\ IsFiniteSet(E)
  BY <1>1, SumOfIs DEF RowsAre
<1>4. /\ SumOf(D) = Part(SumAt(D), D) /\ (\A r \in D : SumAt(D)[r] = r.sum /\ r.sum \in Nat)
      /\ IsFiniteSet(D)
  BY SumOfIs DEF RowsAre
<1> HIDE DEF E
<1>5. Part(SumAt(E), E) = SumAt(E)[x] + Part(SumAt(E), D)
  <2>1. \A r \in E : SumAt(E)[r] \in Int
    BY <1>3
  <2> QED BY <1>2, <1>3, <2>1, PartRemove
<1>6. Part(SumAt(E), D) = Part(SumAt(D), D)
  <2>1. \A r \in D : SumAt(D)[r] \in Int /\ SumAt(E)[r] = SumAt(D)[r]
    BY <1>2, <1>3, <1>4
  <2> QED BY <1>4, <2>1, PartSame
<1>7. SumAt(E)[x] = x.sum /\ x.sum \in Nat /\ SumOf(D) \in Nat
  BY <1>2, <1>3, SumOfIs
<1>8. SumOf(E) = SumOf(D) + x.sum
  BY <1>3, <1>4, <1>5, <1>6, <1>7
<1> QED
  BY <1>1, <1>8 DEF E

\* Each row written over, with the key and the sum it had.
LEMMA SumOfRewritten ==
  ASSUME NEW D, RowsAre(D), NEW m, \A r \in D : m[r] \in Detected /\ m[r].key = r.key /\ m[r].sum = r.sum
  PROVE  RowsAre({m[r] : r \in D}) /\ SumOf({m[r] : r \in D}) = SumOf(D)
<1> DEFINE E == {m[r] : r \in D}
<1>1. IsFiniteSet(D) /\ (\A r, s \in D : m[r] = m[s] => r = s)
  BY DEF RowsAre
<1>2. /\ SumOf(D) = Part(SumAt(D), D) /\ \A r \in D : SumAt(D)[r] = r.sum /\ r.sum \in Nat
  BY SumOfIs
<1>3. \A r \in D : SumAt(D)[r] \in Int /\ SumAt(E)[m[r]] = SumAt(D)[r]
  BY <1>2 DEF SumAt
<1>4. IsFiniteSet(E) /\ Part(SumAt(E), E) = Part(SumAt(D), D)
  <2> DEFINE g == SumAt(E)
             f == SumAt(D)
  <2>1. \A r \in D : f[r] \in Int /\ g[m[r]] = f[r]
    BY <1>3
  <2> HIDE DEF f, g
  <2>2. (\A r \in D : m[r] \in E) /\ (\A e \in E : \E r \in D : e = m[r])
    OBVIOUS
  <2> HIDE DEF E
  <2>3. IsFiniteSet(E) /\ Part(g, E) = Part(f, D)
    BY <1>1, <2>1, <2>2, PartRenamed
  <2> QED BY <2>3 DEF f, g
<1>5. RowsAre(E)
  BY <1>4 DEF RowsAre
<1>6. SumOf(E) = Part(SumAt(E), E)
  BY <1>5, SumOfIs
<1> QED
  BY <1>2, <1>4, <1>5, <1>6

\* recordDetectedDeposit keeps one row per key, and adds to the sum only for a new one.
LEMMA WrittenIs ==
  ASSUME RowsAre(detected), NEW key \in RowKeys, NEW sum \in Nat, NEW at \in Int, NEW deep \in BOOLEAN
  PROVE  /\ RowsAre(Written(key, sum, at, deep))
         /\ (\E r \in detected : r.key = key) => SumOf(Written(key, sum, at, deep)) = SumOf(detected)
         /\ (\A r \in detected : r.key # key) => SumOf(Written(key, sum, at, deep)) = SumOf(detected) + sum
<1>1. CASE \E r \in detected : r.key = key
  <2> DEFINE m == [r \in detected |-> IF r.key = key THEN [r EXCEPT !.credited = @ \/ deep] ELSE r]
  <2>1. Written(key, sum, at, deep) = {m[r] : r \in detected}
    BY <1>1 DEF Written
  <2>2. ASSUME NEW r \in detected
        PROVE  m[r] \in Detected /\ m[r].key = r.key /\ m[r].sum = r.sum
    <3>1. r \in Detected
      BY DEF RowsAre
    <3>2. (r.credited \/ deep) \in BOOLEAN
      OBVIOUS
    <3> QED BY <3>1, <3>2 DEF Detected
  <2> HIDE DEF m
  <2> QED
    BY <1>1, <2>1, <2>2, SumOfRewritten
<1>2. CASE \A r \in detected : r.key # key
  <2> DEFINE x == [key |-> key, sum |-> sum, at |-> at, credited |-> deep]
  <2>1. x \in Detected /\ x.key = key /\ x.sum = sum
    BY DEF Detected
  <2>2. Written(key, sum, at, deep) = detected \cup {x}
    BY <1>2 DEF Written
  <2> HIDE DEF x
  <2> QED
    BY <1>2, <2>1, <2>2, SumOfMore
<1> QED
  BY <1>1, <1>2

-----------------------------------------------------------------------------
(* The steps *)
LEMMA RestingIsOk == Resting \in Reading /\ ReadingOk(Resting, stream, Arrived, Received)
  BY DEF Resting, Reading, ScanPcs, ReadingOk

LEMMA ScanStart == ScanInit => ScanInv
<1> SUFFICES ASSUME ScanInit PROVE ScanInv
  OBVIOUS
<1>1. Arrived = {} /\ RowsAre(detected)
  BY FS_EmptySet DEF ScanInit, Arrived, RowsAre
<1>2. ScanTypeInv
  <2>1. Resting \in Reading
    BY RestingIsOk
  <2>2. reading \in [Finders -> Reading]
    BY <2>1 DEF ScanInit
  <2>3. stream \in Streams /\ head \in Nat /\ position \in Int /\ sweptAway \in Nat
    BY DEF ScanInit
  <2>5. raced \in BOOLEAN
    BY DEF ScanInit
  <2>4. came \in [Payments -> Nat] /\ listed \subseteq Arrived
    BY DEF ScanInit
  <2> QED BY <1>1, <2>2, <2>3, <2>4, <2>5 DEF ScanTypeInv
<1>3. SumOf(detected) = 0
  <2>1. SumOf(detected) = Part(SumAt(detected), detected)
    BY <1>1, SumOfIs
  <2>2. detected = {}
    BY DEF ScanInit
  <2> QED BY <2>1, <2>2, PartEmpty
<1>4. \A a \in Finders : ReadingOk(reading[a], stream, Arrived, Received)
  BY DEF ScanInit, ReadingOk, Resting
<1> QED
  BY <1>1, <1>2, <1>3, <1>4, ReceivedIs DEF ScanInv, ScanInit

\* The chain stays: what came in does.
LEMMA ReceivedStays == came' = came => Arrived' = Arrived /\ Received' = Received
  BY DEF Arrived, Received

LEMMA ScanInvIs == ScanInv => /\ reading \in [Finders -> Reading] /\ RowsAre(detected)
                              /\ SumOf(detected) \in Nat /\ Arrived \subseteq Payments
                              /\ \A a \in Finders : reading[a] \in Reading /\ ReadingOk(reading[a], stream, Arrived, Received)
                              /\ head \in Nat /\ position \in Int /\ came \in [Payments -> Nat]
                              /\ sweptAway \in Nat /\ stream \in Streams
  BY SumOfIs DEF ScanInv, ScanTypeInv, Arrived

\* A scanner goes on, with the rows as they were or as it writes them.
LEMMA ReaderGoesOn ==
  ASSUME ScanInv, NEW a \in Finders, NEW x \in Reading, ReadingOk(x, stream, Arrived, Received),
         reading' = [reading EXCEPT ![a] = x],
         UNCHANGED <<stream, head, came, listed, sweptAway>>, position' \in Int,
         RowsAre(detected'), raced' \in BOOLEAN,
         stream # "spl" => \A r \in detected' : IsOfPayment(r, Arrived, came),
         stream = "spl" /\ ~raced' => SumOf(detected') <= Received
  PROVE  ScanInv'
<1>1. Arrived' = Arrived /\ Received' = Received
  BY ReceivedStays
<1>2. reading' \in [Finders -> Reading]
  BY ScanInvIs
<1>3. ScanTypeInv'
  BY <1>1, <1>2 DEF ScanInv, ScanTypeInv
<1>4. \A b \in Finders : ReadingOk(reading'[b], stream, Arrived, Received)
  BY ScanInvIs
<1> QED
  BY <1>1, <1>3, <1>4 DEF ScanInv

LEMMA ReaderOnly ==
  ASSUME ScanInv, NEW a \in Finders, NEW x \in Reading, ReadingOk(x, stream, Arrived, Received),
         reading' = [reading EXCEPT ![a] = x],
         UNCHANGED <<stream, head, came, listed, detected, sweptAway, raced>>, position' \in Int
  PROVE  ScanInv'
<1>1. /\ RowsAre(detected) /\ raced \in BOOLEAN
      /\ stream # "spl" => \A r \in detected : IsOfPayment(r, Arrived, came)
      /\ stream = "spl" /\ ~raced => SumOf(detected) <= Received
  BY DEF ScanInv, ScanTypeInv
<1> QED
  BY <1>1, ReaderGoesOn

LEMMA FoundIsArrived ==
  ASSUME ScanInv, NEW a \in Finders
  PROVE  Found(a) \subseteq Arrived
<1>1. \A lo, hi : Within(lo, hi) \subseteq Arrived
  BY DEF Within
<1>2. stream \in {"native", "btc", "tron", "spl"} /\ listed \subseteq Arrived
  BY ScanAssumption DEF ScanInv, ScanTypeInv
<1>3. FoundNative(a) \subseteq Arrived /\ FoundBitcoin(a) \subseteq Arrived /\ FoundTron \subseteq Arrived
  BY <1>1 DEF FoundNative, FoundBitcoin, FoundTron
<1> QED
  BY <1>2, <1>3 DEF Found, FoundSpl

\* Rows written over keep what they are of.
LEMMA StillOfPayment ==
  ASSUME NEW r, NEW q, NEW some, NEW at, IsOfPayment(r, some, at), NEW deep, q = [r EXCEPT !.credited = deep]
  PROVE  IsOfPayment(q, some, at)
  BY DEF IsOfPayment

LEMMA BegunIs ==
  ASSUME NEW found, NEW to
  PROVE  [Resting EXCEPT !.pc = "scan", !.found = found, !.to = to]
           = [pc |-> "scan", found |-> found, to |-> to, tracked |-> 0, funds |-> 0, of |-> Resting.of]
<1> DEFINE of == CHOOSE p \in Payments : TRUE
<1>1. Resting = [pc |-> "idle", found |-> {}, to |-> 0, tracked |-> 0, funds |-> 0, of |-> of]
  BY Zenon DEF Resting
<1> HIDE DEF of
<1>2. PICK x : x = [pc |-> "idle", found |-> {}, to |-> 0, tracked |-> 0, funds |-> 0, of |-> of]
  OBVIOUS
<1>3. [x EXCEPT !.pc = "scan", !.found = found, !.to = to]
        = [pc |-> "scan", found |-> found, to |-> to, tracked |-> 0, funds |-> 0, of |-> of]
  <2> DEFINE y == [x EXCEPT !.pc = "scan", !.found = found, !.to = to]
             D == {"pc", "found", "to", "tracked", "funds", "of"}
  <2>1. x \in [D -> {x[d] : d \in D}]
    BY <1>2
  <2>2. y = [d \in D |-> y[d]]
    BY <2>1
  <2>3. /\ y.pc = "scan" /\ y.found = found /\ y.to = to /\ y.tracked = 0 /\ y.funds = 0 /\ y.of = of
    BY <1>2, <2>1
  <2> HIDE DEF y
  <2>4. y = [pc |-> "scan", found |-> found, to |-> to, tracked |-> 0, funds |-> 0, of |-> of]
    BY <2>2, <2>3
  <2> QED BY <2>4 DEF y
<1>4. Resting = x /\ Resting.of = of
  BY <1>1, <1>2
<1> QED
  BY <1>3, <1>4, Zenon

LEMMA BeginKeeps ==
  ASSUME ScanInv, NEW a \in Finders, Begin(a)
  PROVE  ScanInv'
<1> DEFINE x == [Resting EXCEPT !.pc = "scan", !.found = Found(a), !.to = IF stream = "spl" THEN 0 ELSE ScanTo]
           m == [r \in detected |-> [r EXCEPT !.credited = @ \/ Buried(r.at)]]
<1>1. /\ reading' = [reading EXCEPT ![a] = x] /\ UNCHANGED <<stream, head, came, listed, position, sweptAway, raced>>
      /\ detected' = IF a = "cron" THEN {m[r] : r \in detected} ELSE detected
  BY DEF Begin
<1>2. ScanTo \in Int
  BY ScanInvIs, ScanAssumption DEF ScanTo, ScanFrom, Least
<1>3. x \in Reading /\ ReadingOk(x, stream, Arrived, Received)
  <2>1. Found(a) \subseteq Arrived /\ Arrived \subseteq Payments
    BY FoundIsArrived, ScanInvIs
  <2> DEFINE to == IF stream = "spl" THEN 0 ELSE ScanTo
             found == Found(a)
  <2>a. PICK of : of = Resting.of
    OBVIOUS
  <2>2. x = [pc |-> "scan", found |-> found, to |-> to, tracked |-> 0, funds |-> 0, of |-> of]
    BY <2>a, BegunIs
  <2>3. to \in Int /\ found \subseteq Arrived /\ found \in SUBSET Payments /\ of \in Payments \cup {Resting.of}
    BY <1>2, <2>1, <2>a
  <2> HIDE DEF x, to, found
  <2>4. x \in Reading
    BY <2>2, <2>3 DEF Reading, ScanPcs
  <2> QED BY <2>2, <2>3, <2>4 DEF ReadingOk
<1>4. /\ RowsAre(detected) /\ raced \in BOOLEAN
      /\ stream # "spl" => \A r \in detected : IsOfPayment(r, Arrived, came)
      /\ stream = "spl" /\ ~raced => SumOf(detected) <= Received
  BY DEF ScanInv, ScanTypeInv
<1>5. ASSUME NEW r \in detected
      PROVE  m[r] \in Detected /\ m[r].key = r.key /\ m[r].sum = r.sum
  <2>1. r \in Detected
    BY <1>4 DEF RowsAre
  <2>2. (r.credited \/ Buried(r.at)) \in BOOLEAN
    OBVIOUS
  <2> QED BY <2>1, <2>2 DEF Detected
<1>6. stream # "spl" => \A r \in detected : IsOfPayment(m[r], Arrived, came)
  BY <1>4, StillOfPayment
<1> HIDE DEF m
<1>7. RowsAre({m[r] : r \in detected}) /\ SumOf({m[r] : r \in detected}) = SumOf(detected)
  BY <1>4, <1>5, SumOfRewritten
<1>8. /\ RowsAre(detected')
      /\ stream # "spl" => \A r \in detected' : IsOfPayment(r, Arrived, came)
      /\ stream = "spl" /\ ~raced => SumOf(detected') <= Received
  <2>1. CASE a = "cron"
    BY <2>1, <1>1, <1>4, <1>6, <1>7
  <2>2. CASE a # "cron"
    BY <2>2, <1>1, <1>4
  <2> QED BY <2>1, <2>2
<1> HIDE DEF x
<1> QED
  BY <1>1, <1>3, <1>4, <1>8, ScanInvIs, ReaderGoesOn

LEMMA RowsAsTheyAre ==
  ScanInv => /\ RowsAre(detected) /\ raced \in BOOLEAN
             /\ stream # "spl" => \A r \in detected : IsOfPayment(r, Arrived, came)
             /\ stream = "spl" /\ ~raced => SumOf(detected) <= Received
  BY DEF ScanInv, ScanTypeInv

\* A scanner puts a payment aside.
LEMMA LessFound ==
  ASSUME ScanInv, NEW a \in Finders, NEW p
  PROVE  /\ [reading[a] EXCEPT !.found = @ \ {p}] \in Reading
         /\ ReadingOk([reading[a] EXCEPT !.found = @ \ {p}], stream, Arrived, Received)
<1>1. reading[a] \in Reading /\ ReadingOk(reading[a], stream, Arrived, Received)
  BY ScanInvIs
<1> QED BY <1>1 DEF Reading, ReadingOk

LEMMA ConsiderKeeps ==
  ASSUME ScanInv, NEW a \in Finders, Consider(a)
  PROVE  ScanInv'
<1>1. PICK p \in reading[a].found :
       reading' = IF SkippedAtScan(SumOf(detected), Received - sweptAway, Sum[p])
               THEN [reading EXCEPT ![a].found = @ \ {p}]
               ELSE [reading EXCEPT ![a].pc = "record", ![a].of = p, ![a].tracked = SumOf(detected)]
  BY DEF Consider
<1>2. /\ UNCHANGED <<stream, head, came, listed, detected, position, sweptAway, raced>> /\ stream = "spl"
      /\ position' \in Int
  BY ScanInvIs DEF Consider
<1>3. /\ reading \in [Finders -> Reading] /\ reading[a] \in Reading /\ ReadingOk(reading[a], stream, Arrived, Received)
      /\ SumOf(detected) \in Nat /\ sweptAway \in Nat /\ Arrived \subseteq Payments
  BY ScanInvIs
<1>4. p \in Arrived /\ Sum[p] \in Nat /\ Sum[p] <= Received /\ Received \in Nat
  BY <1>3, ReceivedIs DEF ReadingOk
<1>5. CASE SkippedAtScan(SumOf(detected), Received - sweptAway, Sum[p])
  <2> DEFINE x == [reading[a] EXCEPT !.found = @ \ {p}]
  <2>1. reading' = [reading EXCEPT ![a] = x]
    BY <1>1, <1>3, <1>5
  <2>2. x \in Reading /\ ReadingOk(x, stream, Arrived, Received)
    BY LessFound
  <2> HIDE DEF x
  <2> QED BY <1>2, <2>1, <2>2, ReaderOnly
<1>6. CASE ~SkippedAtScan(SumOf(detected), Received - sweptAway, Sum[p])
  <2> DEFINE n == SumOf(detected)
             x == [reading[a] EXCEPT !.pc = "record", !.of = p, !.tracked = n]
  <2>1. reading' = [reading EXCEPT ![a] = x]
    BY <1>1, <1>3, <1>6
  <2>2. n + Sum[p] <= Received
    BY <1>3, <1>4, <1>6 DEF SkippedAtScan
  <2>3. n \in Int /\ p \in Payments
    BY <1>3, <1>4
  <2> HIDE DEF n
  <2>4. x \in Reading /\ x.pc = "record" /\ x.of = p /\ x.tracked = n /\ x.found = reading[a].found
    BY <1>3, <2>3 DEF Reading, ScanPcs
  <2> HIDE DEF x
  <2>5. ReadingOk(x, stream, Arrived, Received)
    BY <1>2, <1>3, <1>4, <2>2, <2>4 DEF ReadingOk
  <2> QED BY <1>2, <2>1, <2>4, <2>5, ReaderOnly
<1> QED BY <1>5, <1>6

LEMMA RecordConsideredKeeps ==
  ASSUME ScanInv, NEW a \in Finders, RecordConsidered(a)
  PROVE  ScanInv'
<1> DEFINE p == reading[a].of
           x == [Resting EXCEPT !.pc = "scan", !.found = reading[a].found \ {p}, !.to = reading[a].to]
           wrote == Written(OfPayment(p), Sum[p], came[p], Buried(came[p]))
<1>1. /\ reading[a].pc = "record" /\ detected' = wrote
      /\ raced' = (raced \/ (SumOf(detected) # reading[a].tracked /\ ~\E r \in detected : r.key = OfPayment(p)))
      /\ reading' = [reading EXCEPT ![a] = x]
      /\ UNCHANGED <<stream, head, came, listed, position, sweptAway>>
  <2>1. reading[a].pc = "record" /\ UNCHANGED <<stream, head, came, listed, position, sweptAway>>
    BY DEF RecordConsidered
  <2>2. detected' = wrote
    BY DEF RecordConsidered
  <2>3. reading' = [reading EXCEPT ![a] = x]
    BY DEF RecordConsidered
  <2>4. raced' = (raced \/ (SumOf(detected) # reading[a].tracked /\ ~\E r \in detected : r.key = OfPayment(p)))
    BY Zenon DEF RecordConsidered
  <2> QED BY <2>1, <2>2, <2>3, <2>4
<1>2. /\ reading[a] \in Reading /\ ReadingOk(reading[a], stream, Arrived, Received)
      /\ RowsAre(detected) /\ SumOf(detected) \in Nat /\ Arrived \subseteq Payments /\ came \in [Payments -> Nat]
      /\ position' \in Int
  BY <1>1, ScanInvIs
<1>3. /\ p \in Arrived /\ stream = "spl" /\ reading[a].tracked + Sum[p] <= Received /\ reading[a].tracked \in Int
  BY <1>1, <1>2 DEF ReadingOk, Reading
<1>4. /\ OfPayment(p) \in RowKeys /\ Sum[p] \in Nat /\ came[p] \in Int /\ Buried(came[p]) \in BOOLEAN
  BY <1>2, <1>3, ReceivedIs DEF OfPayment, RowKeys, Buried
<1>5. /\ RowsAre(wrote)
      /\ (\E r \in detected : r.key = OfPayment(p)) => SumOf(wrote) = SumOf(detected)
      /\ (\A r \in detected : r.key # OfPayment(p)) => SumOf(wrote) = SumOf(detected) + Sum[p]
  BY <1>2, <1>4, WrittenIs
<1> HIDE DEF p, wrote
<1>6. x \in Reading /\ x.pc = "scan" /\ x.found \subseteq Arrived
  <2> DEFINE less == reading[a].found \ {p}
             to == reading[a].to
             of == Resting.of
  <2>1. /\ less \in SUBSET Payments /\ less \subseteq Arrived /\ to \in Int
        /\ of \in Payments \cup {Resting.of}
    BY <1>2 DEF ReadingOk, Reading
  <2>2. x = [pc |-> "scan", found |-> less, to |-> to, tracked |-> 0, funds |-> 0, of |-> of]
    BY BegunIs
  <2> HIDE DEF less, to, of, x
  <2> QED BY <2>1, <2>2 DEF Reading, ScanPcs
<1> HIDE DEF x
<1>7. ReadingOk(x, stream, Arrived, Received)
  BY <1>6 DEF ReadingOk
<1>8. raced' \in BOOLEAN
  BY <1>1, RowsAsTheyAre
<1>9. ~raced' => SumOf(wrote) <= Received
  <2> SUFFICES ASSUME ~raced' PROVE SumOf(wrote) <= Received
    OBVIOUS
  <2>1. ~raced /\ (SumOf(detected) = reading[a].tracked \/ \E r \in detected : r.key = OfPayment(p))
    BY <1>1
  <2>2. SumOf(detected) <= Received
    BY <2>1, <1>3, RowsAsTheyAre
  <2>3. CASE \E r \in detected : r.key = OfPayment(p)
    BY <2>2, <2>3, <1>5
  <2>4. CASE \A r \in detected : r.key # OfPayment(p)
    BY <2>1, <2>4, <1>3, <1>5
  <2> QED BY <2>3, <2>4
<1> QED
  BY <1>1, <1>2, <1>3, <1>5, <1>6, <1>7, <1>8, <1>9, ReaderGoesOn

LEMMA RecordFoundKeeps ==
  ASSUME ScanInv, NEW a \in Finders, RecordFound(a)
  PROVE  ScanInv'
<1>1. PICK p \in reading[a].found :
       /\ detected' = Written(OfPayment(p), Sum[p], came[p], Buried(came[p]))
       /\ reading' = [reading EXCEPT ![a].found = @ \ {p}]
  BY DEF RecordFound
<1> DEFINE x == [reading[a] EXCEPT !.found = @ \ {p}]
<1>2. /\ UNCHANGED <<stream, head, came, listed, position, sweptAway, raced>> /\ stream # "spl"
      /\ position' \in Int /\ raced' \in BOOLEAN
  BY ScanInvIs, RowsAsTheyAre DEF RecordFound
<1>3. /\ reading \in [Finders -> Reading] /\ ReadingOk(reading[a], stream, Arrived, Received)
      /\ RowsAre(detected) /\ Arrived \subseteq Payments /\ came \in [Payments -> Nat]
  BY ScanInvIs
<1>4. p \in Arrived /\ p \in Payments /\ reading' = [reading EXCEPT ![a] = x]
  BY <1>1, <1>3 DEF ReadingOk
<1>5. x \in Reading /\ ReadingOk(x, stream, Arrived, Received)
  BY LessFound
<1> HIDE DEF x
<1>6. /\ OfPayment(p) \in RowKeys /\ Sum[p] \in Nat /\ came[p] \in Int /\ Buried(came[p]) \in BOOLEAN
  BY <1>3, <1>4, ReceivedIs DEF OfPayment, RowKeys, Buried
<1>7. RowsAre(detected')
  BY <1>1, <1>3, <1>6, WrittenIs
<1>8. ASSUME NEW r \in detected' PROVE IsOfPayment(r, Arrived, came)
  <2>1. \A q \in detected : IsOfPayment(q, Arrived, came)
    BY <1>2, RowsAsTheyAre
  <2>2. CASE \E q \in detected : q.key = OfPayment(p)
    <3>1. PICK q \in detected : r = IF q.key = OfPayment(p) THEN [q EXCEPT !.credited = @ \/ Buried(came[p])] ELSE q
      BY <1>1, <2>2 DEF Written
    <3> DEFINE deep == q.credited \/ Buried(came[p])
    <3>2. r = q \/ r = [q EXCEPT !.credited = deep]
      BY <3>1
    <3> HIDE DEF deep
    <3> QED BY <2>1, <3>2, StillOfPayment
  <2>3. CASE ~\E q \in detected : q.key = OfPayment(p)
    <3>1. r \in detected \/ r = [key |-> OfPayment(p), sum |-> Sum[p], at |-> came[p], credited |-> Buried(came[p])]
      BY <1>1, <2>3 DEF Written
    <3> QED BY <2>1, <3>1, <1>4 DEF IsOfPayment
  <2> QED BY <2>2, <2>3
<1> QED
  BY <1>2, <1>4, <1>5, <1>7, <1>8, ReaderGoesOn

LEMMA UnresolvedKeeps ==
  ASSUME ScanInv, NEW a \in Finders, Unresolved(a)
  PROVE  ScanInv'
<1>1. PICK p \in reading[a].found : reading' = [reading EXCEPT ![a].found = @ \ {p}]
  BY DEF Unresolved
<1> DEFINE x == [reading[a] EXCEPT !.found = @ \ {p}]
<1>2. /\ UNCHANGED <<stream, head, came, listed, detected, position, sweptAway, raced>> /\ position' \in Int
      /\ reading' = [reading EXCEPT ![a] = x]
  BY <1>1, ScanInvIs DEF Unresolved
<1>3. x \in Reading /\ ReadingOk(x, stream, Arrived, Received)
  BY LessFound
<1> HIDE DEF x
<1> QED BY <1>2, <1>3, ReaderOnly

LEMMA ScanFinishesKeeps ==
  ASSUME ScanInv, NEW a \in Finders, ScanFinishes(a)
  PROVE  ScanInv'
<1> DEFINE y == [reading[a] EXCEPT !.pc = "balance"]
           x == IF a = "user" /\ stream = "spl" THEN y ELSE Resting
<1>1. /\ UNCHANGED <<stream, head, came, listed, detected, sweptAway, raced>>
      /\ position' \in {reading[a].to, position}
      /\ reading' = [reading EXCEPT ![a] = x]
  BY DEF ScanFinishes
<1>2. reading[a] \in Reading /\ ReadingOk(reading[a], stream, Arrived, Received) /\ position \in Int
  BY ScanInvIs
<1>3. position' \in Int
  BY <1>1, <1>2 DEF Reading
<1>4. stream = "spl" => y \in Reading /\ ReadingOk(y, stream, Arrived, Received)
  BY <1>2 DEF Reading, ScanPcs, ReadingOk
<1> HIDE DEF y
<1>5. x \in Reading /\ ReadingOk(x, stream, Arrived, Received)
  BY <1>4, RestingIsOk
<1> HIDE DEF x
<1> QED BY <1>1, <1>3, <1>5, ReaderOnly

LEMMA ScanFailsKeeps ==
  ASSUME ScanInv, NEW a \in Finders, ScanFails(a)
  PROVE  ScanInv'
<1>1. /\ UNCHANGED <<stream, head, came, listed, detected, position, sweptAway, raced>> /\ position' \in Int
      /\ reading' = [reading EXCEPT ![a] = Resting]
  BY ScanInvIs DEF ScanFails
<1> QED BY <1>1, RestingIsOk, ReaderOnly

LEMMA ReadBalanceKeeps == ASSUME ScanInv, ReadBalance PROVE ScanInv'
<1> DEFINE a == "user"
           n == Received - sweptAway
           x == [reading[a] EXCEPT !.pc = "weigh", !.funds = n]
<1>1. /\ UNCHANGED <<stream, head, came, listed, detected, position, sweptAway, raced>>
      /\ reading[a].pc = "balance" /\ a \in Finders
  BY DEF ReadBalance, Finders
<1>2. /\ reading \in [Finders -> Reading] /\ reading[a] \in Reading /\ ReadingOk(reading[a], stream, Arrived, Received)
      /\ position' \in Int /\ sweptAway \in Nat
  BY <1>1, ScanInvIs
<1>3. reading' = [reading EXCEPT ![a] = x]
  BY <1>1, <1>2 DEF ReadBalance
<1>4. n \in Int /\ n <= Received
  BY <1>2, ReceivedIs
<1> HIDE DEF n, a
<1>5. x \in Reading /\ x.pc = "weigh" /\ x.funds = n /\ x.found = reading[a].found
  BY <1>2, <1>4 DEF Reading, ScanPcs
<1> HIDE DEF x
<1>6. ReadingOk(x, stream, Arrived, Received)
  BY <1>1, <1>2, <1>4, <1>5 DEF ReadingOk
<1> QED BY <1>1, <1>2, <1>3, <1>5, <1>6, ReaderOnly

LEMMA WeighKeeps == ASSUME ScanInv, Weigh PROVE ScanInv'
<1> DEFINE a == "user"
           n == SumOf(detected)
           y == [reading[a] EXCEPT !.pc = "delta", !.tracked = n]
           x == IF reading[a].funds <= n THEN Resting ELSE y
<1>1. /\ UNCHANGED <<stream, head, came, listed, detected, position, sweptAway, raced>>
      /\ reading[a].pc = "weigh" /\ a \in Finders /\ reading' = [reading EXCEPT ![a] = x]
  BY DEF Weigh, Finders
<1>2. /\ reading[a] \in Reading /\ ReadingOk(reading[a], stream, Arrived, Received)
      /\ position' \in Int /\ n \in Nat
  BY <1>1, ScanInvIs
<1> DEFINE r == reading[a]
<1> HIDE DEF n, a
<1>n. n \in Int /\ r \in Reading
  BY <1>2
<1>y. y = [r EXCEPT !.pc = "delta", !.tracked = n]
  OBVIOUS
<1> HIDE DEF r, y
<1>r. /\ r.funds \in Int
      /\ r = [pc |-> r.pc, found |-> r.found, to |-> r.to, tracked |-> r.tracked, funds |-> r.funds, of |-> r.of]
  BY <1>n DEF Reading
<1>z. y = [pc |-> "delta", found |-> r.found, to |-> r.to, tracked |-> n, funds |-> r.funds, of |-> r.of]
  BY <1>y, <1>r
<1>t. y \in Reading
  BY <1>n, <1>z DEF Reading, ScanPcs
<1>3. y \in Reading /\ y.pc = "delta" /\ y.funds = reading[a].funds /\ y.found = reading[a].found /\ y.tracked = n
      /\ reading[a].funds \in Int
  BY <1>t, <1>r, <1>z DEF r
<1>4. reading[a].funds <= n \/ ReadingOk(y, stream, Arrived, Received)
  BY <1>1, <1>2, <1>3 DEF ReadingOk
<1>5. x \in Reading /\ ReadingOk(x, stream, Arrived, Received)
  BY <1>3, <1>4, RestingIsOk
<1> HIDE DEF x
<1> QED BY <1>1, <1>2, <1>5, ReaderOnly

LEMMA RecordDeltaKeeps == ASSUME ScanInv, RecordDelta PROVE ScanInv'
<1> DEFINE a == "user"
           n == reading[a].funds - reading[a].tracked
           wrote == Written(OfDelta(n), n, head, TRUE)
<1>1. /\ reading[a].pc = "delta" /\ detected' = wrote /\ a \in Finders
      /\ reading' = [reading EXCEPT ![a] = Resting]
      /\ UNCHANGED <<stream, head, came, listed, position, sweptAway>>
  BY DEF RecordDelta, Finders
<1>2. raced' = (raced \/ (SumOf(detected) # reading[a].tracked /\ ~\E r \in detected : r.key = OfDelta(n)))
  BY Zenon DEF RecordDelta
<1>3. /\ reading[a] \in Reading /\ ReadingOk(reading[a], stream, Arrived, Received)
      /\ RowsAre(detected) /\ SumOf(detected) \in Nat /\ position' \in Int /\ head \in Nat
  BY <1>1, ScanInvIs
<1>4. /\ stream = "spl" /\ reading[a].funds <= Received /\ reading[a].tracked \in Int /\ reading[a].funds \in Int
      /\ n \in Nat
  BY <1>1, <1>3 DEF ReadingOk, Reading
<1>5. OfDelta(n) \in RowKeys /\ head \in Int
  BY <1>3, <1>4 DEF OfDelta, RowKeys
<1>6. /\ RowsAre(wrote)
      /\ (\E r \in detected : r.key = OfDelta(n)) => SumOf(wrote) = SumOf(detected)
      /\ (\A r \in detected : r.key # OfDelta(n)) => SumOf(wrote) = SumOf(detected) + n
  BY <1>3, <1>4, <1>5, WrittenIs
<1>7. reading[a].tracked + n = reading[a].funds
  BY <1>4
<1> HIDE DEF n, wrote, a
<1>8. raced' \in BOOLEAN
  BY <1>2, RowsAsTheyAre
<1>9. ~raced' => SumOf(wrote) <= Received
  <2> SUFFICES ASSUME ~raced' PROVE SumOf(wrote) <= Received
    OBVIOUS
  <2>1. ~raced /\ (SumOf(detected) = reading[a].tracked \/ \E r \in detected : r.key = OfDelta(n))
    BY <1>2
  <2>2. SumOf(detected) <= Received
    BY <2>1, <1>4, RowsAsTheyAre
  <2>3. CASE \E r \in detected : r.key = OfDelta(n)
    BY <2>2, <2>3, <1>6
  <2>4. CASE \A r \in detected : r.key # OfDelta(n)
    BY <2>1, <2>4, <1>4, <1>6, <1>7
  <2> QED BY <2>3, <2>4
<1> QED
  BY <1>1, <1>3, <1>4, <1>6, <1>8, <1>9, RestingIsOk, ReaderGoesOn

LEMMA NewBlockKeeps == ASSUME ScanInv, NewBlock PROVE ScanInv'
<1>1. PICK S \in SUBSET {p \in Payments : came[p] = 0 /\ head + 1 + Settling <= MaxHead[stream]} :
       /\ came' = [p \in Payments |-> IF p \in S THEN head + 1 ELSE came[p]]
       /\ \E T \in IF stream = "spl" THEN SUBSET S ELSE {S} : listed' = listed \union T
  BY DEF NewBlock
<1>2. head' = head + 1 /\ UNCHANGED <<stream, detected, position, reading, sweptAway, raced>>
  BY DEF NewBlock
<1>3. /\ head \in Nat /\ came \in [Payments -> Nat] /\ listed \subseteq Arrived /\ Arrived \subseteq Payments
      /\ \A a \in Finders : reading[a] \in Reading /\ ReadingOk(reading[a], stream, Arrived, Received)
  BY ScanInvIs DEF ScanInv, ScanTypeInv
<1>4. /\ came' \in [Payments -> Nat] /\ Arrived' = Arrived \cup S /\ \A p \in Arrived : came'[p] = came[p]
  BY <1>1, <1>3 DEF Arrived
<1>5. listed' \subseteq Arrived'
  <2>1. PICK T : T \subseteq S /\ listed' = listed \cup T
    BY <1>1
  <2> QED BY <2>1, <1>3, <1>4
<1>6. Received <= Received' /\ Received \in Nat /\ Received' \in Nat
  <2>1. Arrived \subseteq Arrived' /\ Arrived' \subseteq Payments
    BY <1>1, <1>3, <1>4
  <2> DEFINE after == Arrived'
  <2>2. Received' = SumOver([p \in after |-> Sum[p]])
    BY DEF Received
  <2> HIDE DEF after
  <2>3. Arrived \subseteq after /\ after \subseteq Payments
    BY <2>1 DEF after
  <2>4. Received' = Part(Sum, after) /\ Part(Sum, after) \in Nat
    BY <2>2, <2>3, ReceivedOf
  <2>5. Received = Part(Sum, Arrived) /\ Received \in Nat
    BY <1>3, ReceivedOf DEF Received
  <2> QED BY <2>3, <2>4, <2>5, MoreReceived
<1>7. ScanTypeInv'
  BY <1>2, <1>3, <1>4, <1>5 DEF ScanInv, ScanTypeInv
<1>8. ASSUME NEW a \in Finders PROVE ReadingOk(reading[a], stream, Arrived', Received')
  <2>1. reading[a] \in Reading /\ ReadingOk(reading[a], stream, Arrived, Received)
    BY <1>3
  <2>2. reading[a].pc = "record" => reading[a].of \in Arrived /\ Sum[reading[a].of] \in Nat /\ reading[a].tracked \in Int
    BY <2>1, ReceivedIs DEF ReadingOk, Reading
  <2>3. reading[a].funds \in Int
    BY <2>1 DEF Reading
  <2>4. Arrived \subseteq Arrived'
    BY <1>4
  <2> QED BY <2>1, <2>2, <2>3, <2>4, <1>6 DEF ReadingOk
<1>9. stream # "spl" => \A r \in detected : IsOfPayment(r, Arrived', came')
  <2> SUFFICES ASSUME stream # "spl", NEW r \in detected PROVE IsOfPayment(r, Arrived', came')
    OBVIOUS
  <2>1. PICK p \in Arrived : r = [key |-> OfPayment(p), sum |-> Sum[p], at |-> came[p], credited |-> r.credited]
    BY DEF ScanInv, IsOfPayment
  <2>2. p \in Arrived' /\ came'[p] = came[p]
    BY <1>4
  <2> QED BY <2>1, <2>2 DEF IsOfPayment
<1>10. stream = "spl" /\ ~raced => SumOf(detected) <= Received'
  BY <1>6, ScanInvIs DEF ScanInv
<1> QED
  BY <1>2, <1>7, <1>8, <1>9, <1>10 DEF ScanInv

LEMMA SweepCreditedKeeps == ASSUME ScanInv, SweepCredited PROVE ScanInv'
<1>1. /\ UNCHANGED <<stream, head, came, listed, detected, position, reading, raced>>
      /\ sweptAway < Least(Received, CreditedSum) /\ sweptAway' = Least(Received, CreditedSum)
  BY DEF SweepCredited
<1>2. CreditedSum \in Nat
  <2> DEFINE D == {r \in detected : r.credited}
  <2>1. RowsAre(D)
    <3>1. RowsAre(detected)
      BY ScanInvIs
    <3>2. IsFiniteSet(D)
      BY <3>1, FS_Subset DEF RowsAre
    <3> QED BY <3>1, <3>2 DEF RowsAre
  <2> HIDE DEF D
  <2>2. SumOf(D) \in Nat
    BY <2>1, SumOfIs
  <2> QED BY <2>2 DEF CreditedSum, D
<1>3. sweptAway' \in Nat
  BY <1>1, <1>2, ReceivedIs DEF Least
<1>4. Arrived' = Arrived /\ Received' = Received
  BY <1>1, ReceivedStays
<1> QED
  BY <1>1, <1>3, <1>4 DEF ScanInv, ScanTypeInv

LEMMA ScanKept == ScanInv /\ [ScanNext]_scanVars => ScanInv'
<1> SUFFICES ASSUME ScanInv, [ScanNext]_scanVars PROVE ScanInv'
  OBVIOUS
<1>1. ASSUME NEW a \in Finders, Begin(a) \/ Consider(a) \/ RecordConsidered(a) \/ RecordFound(a)
                                 \/ ScanFinishes(a) \/ Unresolved(a) \/ ScanFails(a)
      PROVE  ScanInv'
  BY <1>1, BeginKeeps, ConsiderKeeps, RecordConsideredKeeps, RecordFoundKeeps, ScanFinishesKeeps,
     UnresolvedKeeps, ScanFailsKeeps
<1>2. CASE ReadBalance \/ Weigh \/ RecordDelta \/ NewBlock \/ SweepCredited
  BY <1>2, ReadBalanceKeeps, WeighKeeps, RecordDeltaKeeps, NewBlockKeeps, SweepCreditedKeeps
<1>3. CASE UNCHANGED scanVars
  <2>1. came' = came
    BY <1>3 DEF scanVars
  <2>2. Arrived' = Arrived /\ Received' = Received
    BY <2>1, ReceivedStays
  <2> QED BY <1>3, <2>2 DEF ScanInv, ScanTypeInv, scanVars
<1>4. "cron" \in Finders /\ "user" \in Finders
  BY DEF Finders
<1> QED
  BY <1>1, <1>2, <1>3, <1>4 DEF ScanNext, CronStep, UserStep

\* One payment for each row: what the rows of the other streams come to.
LEMMA PaymentsAreReceived ==
  ASSUME ScanInv, stream # "spl"
  PROVE  SumOf(detected) <= Received
<1>1. RowsAre(detected) /\ (\A r \in detected : IsOfPayment(r, Arrived, came)) /\ Arrived \subseteq Payments
  BY ScanInvIs, RowsAsTheyAre
<1> DEFINE m == [r \in detected |-> CHOOSE p \in Arrived : r.key = OfPayment(p) /\ r.sum = Sum[p]]
           A == {m[r] : r \in detected}
<1>2. ASSUME NEW r \in detected PROVE m[r] \in Arrived /\ r.key = OfPayment(m[r]) /\ r.sum = Sum[m[r]]
  <2>1. \E p \in Arrived : r.key = OfPayment(p) /\ r.sum = Sum[p]
    BY <1>1 DEF IsOfPayment
  <2> QED BY <2>1
<1> HIDE DEF m
<1>3. \A q, r \in detected : m[q] = m[r] => q = r
  BY <1>1, <1>2 DEF RowsAre
<1>4. A \subseteq Arrived /\ (\A r \in detected : m[r] \in A) /\ (\A p \in A : \E r \in detected : p = m[r])
  BY <1>2
<1> HIDE DEF A
<1>5. /\ SumOf(detected) = Part(SumAt(detected), detected) /\ IsFiniteSet(detected)
      /\ \A r \in detected : SumAt(detected)[r] \in Int /\ Sum[m[r]] = SumAt(detected)[r]
  BY <1>1, <1>2, SumOfIs DEF RowsAre
<1>6. Part(Sum, A) = Part(SumAt(detected), detected)
  BY <1>3, <1>4, <1>5, PartRenamed
<1>7. Part(Sum, A) <= Part(Sum, Arrived) /\ Received = Part(Sum, Arrived)
  BY <1>1, <1>4, MoreReceived, ReceivedOf DEF Received
<1> QED
  BY <1>5, <1>6, <1>7

\* Whatever two scanners read and write side by side, and however often the address is swept: as
\* long as no row is written over a sum that has changed, no more is credited than came in.
THEOREM CreditedIsReceivedAlways == ScanSpec => []CreditedIsReceived
<1>1. ScanInit => ScanInv
  BY ScanStart
<1>2. ScanInv /\ [ScanNext]_scanVars => ScanInv'
  BY ScanKept
<1>3. ScanInv => CreditedIsReceived
  BY PaymentsAreReceived, RowsAsTheyAre DEF CreditedIsReceived, IsOfPayment
<1> QED
  BY <1>1, <1>2, <1>3, PTL DEF ScanSpec

-----------------------------------------------------------------------------
(* DepositAddresses: the inductive invariant *)
Pc == {"idle", "create", "restart", "obtain", "activate", "audit", "track"}

AddressTypeInv ==
  /\ home \in Homes
  /\ place \in [status : {"none", "PROVISIONING", "ACTIVE", "FAILED"}, address : Int]
  /\ provision \in [Provisions -> [pc : Pc, address : Int]]
  /\ keys \in Nat

\* The custody provider has one key: that is the only address there is.
CustodyInv ==
  /\ given \subseteq {CustodyAddress}
  /\ \A k \in Provisions : provision[k].pc \in {"activate", "audit", "track"} => provision[k].address = CustodyAddress
  /\ \/ place.address = CustodyAddress
     \/ place.status # "ACTIVE" /\ given = {} /\ \A k \in Provisions : provision[k].pc \notin {"audit", "track"}

\* The service makes the keys: as long as no calls overlapped, none failed late and the script
\* has not run, one call at most is under way, and one that will write over the row has found
\* that it shows no address.
OwnInv ==
  /\ \A j, k \in Provisions : provision[j].pc # "idle" /\ provision[k].pc # "idle" => j = k
  /\ given \subseteq {place.address} /\ (place.status # "ACTIVE" => given = {})
  /\ \A k \in Provisions :
       /\ provision[k].pc \in {"audit", "track"} => place.status = "ACTIVE" /\ place.address = provision[k].address
       /\ provision[k].pc \in {"create", "restart", "obtain", "activate"} => place.status # "ACTIVE"

AddressInv ==
  /\ AddressTypeInv
  /\ home # "own" => CustodyInv
  /\ home = "own" /\ renewed = {} => OwnInv

-----------------------------------------------------------------------------
LEMMA AddressStart == AddressInit => AddressInv
  BY DEF AddressInit, AddressInv, AddressTypeInv, CustodyInv, OwnInv, NoProvision, Unset, CustodyAddress, Pc

LEMMA AddressTypeKept == AddressTypeInv /\ [AddressNext]_addressVars => AddressTypeInv'
<1> SUFFICES ASSUME AddressTypeInv, [AddressNext]_addressVars PROVE AddressTypeInv'
  OBVIOUS
<1> USE DEF AddressTypeInv, Pc, NoProvision, Unset, CustodyAddress, Goes
<1>1. ASSUME NEW k \in Provisions, LookUp(k) PROVE AddressTypeInv'
  <2> DEFINE pc == IF place.status = "FAILED" THEN "restart" ELSE IF place.status = "none" THEN "create" ELSE "obtain"
             x  == IF IsThere(place.status) THEN [pc |-> "track", address |-> place.address]
                   ELSE [pc |-> pc, address |-> Unset]
  <2>1. provision' = [provision EXCEPT ![k] = x] /\ home' = home /\ place' = place /\ keys' = keys
    BY <1>1 DEF LookUp
  <2>2. x \in [pc : Pc, address : Int]
    OBVIOUS
  <2> HIDE DEF x, Pc
  <2>3. provision' \in [Provisions -> [pc : Pc, address : Int]]
    BY <2>1, <2>2
  <2> QED BY <2>1, <2>3
<1>2. ASSUME NEW k \in Provisions, ProvisionFails(k) PROVE AddressTypeInv'
  <2> HIDE DEF NoProvision, Pc
  <2>1. NoProvision \in [pc : Pc, address : Int]
    BY DEF NoProvision, Pc
  <2>2. provision' \in [Provisions -> [pc : Pc, address : Int]]
    BY <1>2, <2>1 DEF ProvisionFails
  <2>3. place' \in [status : {"none", "PROVISIONING", "ACTIVE", "FAILED"}, address : Int]
        /\ home' = home /\ keys' = keys
    BY <1>2 DEF ProvisionFails
  <2> QED BY <2>2, <2>3
<1>3. ASSUME NEW k \in Provisions, CreateRow(k) PROVE AddressTypeInv'
  BY <1>3 DEF CreateRow
<1>4. ASSUME NEW k \in Provisions, RestartRow(k) PROVE AddressTypeInv'
  BY <1>4 DEF RestartRow
<1>5. ASSUME NEW k \in Provisions, Obtain(k) PROVE AddressTypeInv'
  BY <1>5 DEF Obtain
<1>6. ASSUME NEW k \in Provisions, Activate(k) PROVE AddressTypeInv'
  BY <1>6 DEF Activate
<1>7. ASSUME NEW k \in Provisions, Audit(k) PROVE AddressTypeInv'
  BY <1>7 DEF Audit
<1>8. ASSUME NEW k \in Provisions, Answer(k) PROVE AddressTypeInv'
  BY <1>8 DEF Answer
<1>9. CASE Show \/ ReconcileStep \/ ReconcileFails
  BY <1>9 DEF Show, ReconcileStep, ReconcileReads, ReconcileAdds, ReconcileFails
<1>10. CASE Migrate
  BY <1>10 DEF Migrate
<1>11. CASE UNCHANGED addressVars
  BY <1>11 DEF addressVars
<1> QED
  BY <1>1, <1>2, <1>3, <1>4, <1>5, <1>6, <1>7, <1>8, <1>9, <1>10, <1>11 DEF AddressNext, AddressStep

LEMMA CustodyKept ==
  ASSUME AddressTypeInv, home # "own", CustodyInv, [AddressNext]_addressVars
  PROVE  CustodyInv'
<1> USE DEF AddressTypeInv, CustodyInv, Pc, NoProvision, At, Goes
<1>1. ASSUME NEW k \in Provisions, LookUp(k) PROVE CustodyInv'
  BY <1>1 DEF LookUp, IsThere
<1>2. ASSUME NEW k \in Provisions, ProvisionFails(k) PROVE CustodyInv'
  BY <1>2 DEF ProvisionFails
<1>3. ASSUME NEW k \in Provisions, CreateRow(k) PROVE CustodyInv'
  BY <1>3 DEF CreateRow
<1>4. ASSUME NEW k \in Provisions, RestartRow(k) PROVE CustodyInv'
  BY <1>4 DEF RestartRow
<1>5. ASSUME NEW k \in Provisions, Obtain(k) PROVE CustodyInv'
  BY <1>5 DEF Obtain
<1>6. ASSUME NEW k \in Provisions, Activate(k) PROVE CustodyInv'
  BY <1>6 DEF Activate
<1>7. ASSUME NEW k \in Provisions, Audit(k) PROVE CustodyInv'
  BY <1>7 DEF Audit
<1>8. ASSUME NEW k \in Provisions, Answer(k) PROVE CustodyInv'
  BY <1>8 DEF Answer
<1>9. CASE Show \/ ReconcileStep \/ ReconcileFails
  BY <1>9 DEF Show, ReconcileStep, ReconcileReads, ReconcileAdds, ReconcileFails
<1>10. CASE Migrate
  BY <1>10 DEF Migrate
<1>11. CASE UNCHANGED addressVars
  BY <1>11 DEF addressVars
<1> QED
  BY <1>1, <1>2, <1>3, <1>4, <1>5, <1>6, <1>7, <1>8, <1>9, <1>10, <1>11 DEF AddressNext, AddressStep

LEMMA OwnKept ==
  ASSUME AddressTypeInv, OwnInv, [AddressNext]_addressVars, renewed = {}, renewed' = {}
  PROVE  OwnInv'
<1> USE DEF AddressTypeInv, OwnInv, Pc, NoProvision, At, Goes
<1>1. ASSUME NEW k \in Provisions, LookUp(k) PROVE OwnInv'
  <2>1. \A j \in Provisions \ {k} : provision[j].pc = "idle"
    BY <1>1 DEF LookUp, Others
  <2> QED BY <2>1, <1>1 DEF LookUp, IsThere
<1>2. ASSUME NEW k \in Provisions, ProvisionFails(k) PROVE OwnInv'
  BY <1>2 DEF ProvisionFails
<1>3. ASSUME NEW k \in Provisions, CreateRow(k) PROVE OwnInv'
  BY <1>3 DEF CreateRow
<1>4. ASSUME NEW k \in Provisions, RestartRow(k) PROVE OwnInv'
  BY <1>4 DEF RestartRow
<1>5. ASSUME NEW k \in Provisions, Obtain(k) PROVE OwnInv'
  BY <1>5 DEF Obtain
<1>6. ASSUME NEW k \in Provisions, Activate(k) PROVE OwnInv'
  BY <1>6 DEF Activate
<1>7. ASSUME NEW k \in Provisions, Audit(k) PROVE OwnInv'
  BY <1>7 DEF Audit
<1>8. ASSUME NEW k \in Provisions, Answer(k) PROVE OwnInv'
  BY <1>8 DEF Answer
<1>9. CASE Show \/ ReconcileStep \/ ReconcileFails
  BY <1>9 DEF Show, ReconcileStep, ReconcileReads, ReconcileAdds, ReconcileFails
<1>10. CASE Migrate
  BY <1>10 DEF Migrate
<1>11. CASE UNCHANGED addressVars
  BY <1>11 DEF addressVars
<1> QED
  BY <1>1, <1>2, <1>3, <1>4, <1>5, <1>6, <1>7, <1>8, <1>9, <1>10, <1>11 DEF AddressNext, AddressStep

\* The network stays what it is, and what has been renewed stays so.
LEMMA HomeStays == [AddressNext]_addressVars => home' = home /\ (renewed' = {} => renewed = {})
<1> SUFFICES ASSUME [AddressNext]_addressVars PROVE home' = home /\ (renewed' = {} => renewed = {})
  OBVIOUS
<1>1. ASSUME NEW k \in Provisions, LookUp(k) \/ ProvisionFails(k) \/ CreateRow(k) \/ RestartRow(k) \/ Obtain(k)
                                   \/ Activate(k) \/ Audit(k) \/ Answer(k)
      PROVE  home' = home /\ (renewed' = {} => renewed = {})
  BY <1>1 DEF LookUp, ProvisionFails, CreateRow, RestartRow, Obtain, Activate, Audit, Answer
<1>2. CASE Show \/ ReconcileStep \/ ReconcileFails \/ Migrate \/ UNCHANGED addressVars
  BY <1>2 DEF Show, ReconcileStep, ReconcileReads, ReconcileAdds, ReconcileFails, Migrate, addressVars
<1> QED
  BY <1>1, <1>2 DEF AddressNext, AddressStep

\* An address that was shown stays the user's, unless calls that made keys overlapped, one
\* failed after it had written its address, or the script moved it.
THEOREM GivenIsKeptAlways == AddressSpec => []GivenIsKept
<1>1. AddressInit => AddressInv
  BY AddressStart
<1>2. AddressInv /\ [AddressNext]_addressVars => AddressInv'
  BY AddressTypeKept, CustodyKept, OwnKept, HomeStays DEF AddressInv
<1>3. AddressInv => GivenIsKept
  BY DEF AddressInv, CustodyInv, OwnInv, GivenIsKept
<1> QED
  BY <1>1, <1>2, <1>3, PTL DEF AddressSpec
=============================================================================
