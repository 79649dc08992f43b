-------------------------- MODULE Funds_proof --------------------------
(***************************************************************************)
(* Theorems about what the platform moves between its own wallets.          *)
(* DepositSweeps: any deposits and wallets of any families, any amounts,    *)
(* need of gas, limit of attempts and number of faults.  Treasury: any      *)
(* withdrawals, rows and needs, any limits and number of faults.            *)
(***************************************************************************)
EXTENDS DepositSweeps, Treasury, Ledger_proof

-----------------------------------------------------------------------------
(* Sweeps: types *)

Statuses == {"NONE", "PENDING", "FUNDING_GAS", "BROADCASTING", "BROADCASTED", "CONFIRMED", "BLOCKED"}
Causes   == {"NONE", "limit", "policy", "ineligible", "unready", "mismatch", "ambiguous", "provider",
             "empty", "gas", "send", "event"}

SweepRow == [status : Statuses, purse : Purses, raw : Nat, attempts : Nat, tx : Nat, gasTx : Nat,
             req : BOOLEAN, why : Causes]

\* Where a pass has a sweep in hand.
Handling == {"confirm", "provider", "gas", "fund", "funded", "mark", "send", "sent"}
Pass == [pc : {"idle", "create", "list", "rows"} \cup Handling, group : SUBSET Credits,
         todo : SUBSET (Ids \X SweepRow), id : Ids \cup {0}, row : SweepRow, att : Nat, value : Int]
Call == [pc : {"idle", "write"}, id : Ids \cup {0}, kind : {"gas", "sweep"}, att : Nat,
         event : {"NONE", "accepted", "broadcasted", "failed"}, row : SweepRow]
Paid == [value : Nat \ {0}, state : {"sent", "mined", "reverted"}]

Typed ==
  /\ credit \in [Credits -> [purse : Purses, credited : BOOLEAN, sweep : Ids \cup {0}]]
  /\ family \in [Purses -> Kinds]
  /\ sweep \in [Ids -> SweepRow]
  /\ wallet \in [Purses -> [tok : Nat, gas : Nat]]
  /\ DOMAIN transfer \subseteq {"gas", "sweep"} \X Ids \X (Nat \ {0})
  /\ IsFiniteSet(DOMAIN transfer)
  /\ \A t \in DOMAIN transfer : transfer[t] \in Paid
  /\ worker \in Pass
  /\ hook \in Call
  /\ putBack \subseteq Ids
  /\ fuel \in 0 .. MaxFaults

-----------------------------------------------------------------------------
(* The rows, and what has been read of them *)

Limit(s) == Amount * Cardinality(InSweep(s))

\* A row x of the sweep s: it asks for some of what its deposits brought, its hash is that
\* of a transfer, and CONFIRMED means that one was mined.
RowOk(s, x) ==
  /\ x.status = "NONE" => InSweep(s) = {} /\ \A t \in DOMAIN transfer : t[2] # s
  /\ x.status # "NONE" =>
       /\ InSweep(s) # {} /\ \A d \in InSweep(s) : credit[d].purse = x.purse
       /\ x.raw \in 1 .. Limit(s)
  /\ x.tx # 0 => <<"sweep", s, x.tx>> \in DOMAIN transfer
  /\ x.status = "BROADCASTED" => x.tx # 0
  /\ x.status = "CONFIRMED" => \E t \in Sends("sweep", s) : transfer[t].state = "mined"

\* A row x that was listed of the sweep s, which is still not confirmed.
Listed(s, x) ==
  /\ s \in Ids /\ sweep[s].status \notin {"NONE", "CONFIRMED"}
  /\ x.purse = sweep[s].purse /\ x.status \in Moving \cup {"BROADCASTED"}
  /\ x.raw \in 1 .. Limit(s)
  /\ x.status = "BROADCASTED" => x.tx # 0 /\ <<"sweep", s, x.tx>> \in DOMAIN transfer

\* The pass of the timer.
PassOk ==
  /\ \A d \in worker.group : credit[d].sweep = 0
  /\ \A x \in worker.todo : Listed(x[1], x[2]) /\ x[1] # worker.id
  /\ \A x, y \in worker.todo : x[1] = y[1] => x = y
  /\ worker.pc \notin Handling => worker.id = 0
  /\ worker.pc \in Handling =>
       /\ Listed(worker.id, worker.row)
       /\ worker.pc = "confirm" => worker.row.status = "BROADCASTED"
       /\ worker.pc = "gas" => worker.row.status # "BROADCASTED"
                               /\ (worker.row.status = "BROADCASTING" => family[worker.row.purse] = "tron")
       /\ worker.pc \in {"fund", "send"} => worker.att # 0 /\ worker.value \in Nat \ {0}
       /\ worker.pc = "send" => worker.value <= Limit(worker.id)
       /\ worker.pc = "funded" => worker.att # 0
       /\ worker.pc = "sent" => worker.att # 0 /\ <<"sweep", worker.id, worker.att>> \in DOMAIN transfer

\* The webhook: a row that was read CONFIRMED still is, and one read BROADCASTED has a hash.
HookOk ==
  hook.pc = "write" =>
    /\ hook.id \in Ids /\ hook.row.status # "NONE" /\ sweep[hook.id].status # "NONE" /\ hook.att # 0
    /\ <<hook.kind, hook.id, hook.att>> \in DOMAIN transfer
    /\ hook.row.tx # 0 => <<"sweep", hook.id, hook.row.tx>> \in DOMAIN transfer
    /\ hook.row.status = "BROADCASTED" => hook.row.tx # 0 /\ sweep[hook.id].tx # 0
    /\ hook.row.status = "CONFIRMED" => sweep[hook.id].status = "CONFIRMED"

Books == SweepAssumption /\ Typed /\ (\A s \in Ids : RowOk(s, sweep[s])) /\ PassOk /\ HookOk

-----------------------------------------------------------------------------
(* One transfer *)

Unsent(s) == Sends("sweep", s) = {}

\* The row of s, and what the pass has read of it, say that something may have been sent.
Said == {"BROADCASTING", "BROADCASTED", "CONFIRMED", "BLOCKED"}
Told(s) ==
  /\ sweep[s].status \in Said
  /\ \A x \in worker.todo : x[1] = s => x[2].status \in {"BROADCASTING", "BROADCASTED"}
  /\ worker.id = s => worker.pc \in {"confirm", "provider", "sent"}

\* Nothing of s was sent, or it was sent once and the row says so.
OnceOk(s) ==
  FamilyOf(s) # "tron" /\ s \notin putBack =>
    Unsent(s) \/ (Cardinality(Sends("sweep", s)) = 1 /\ Told(s))

\* A pass about to send has marked its sweep.
MarkedOk ==
  worker.pc = "send" /\ worker.id \notin putBack =>
    sweep[worker.id].status \in {"BROADCASTING", "BROADCASTED", "BLOCKED"}

-----------------------------------------------------------------------------
(* One top-up *)

Used == MaxFaults - fuel

\* The full top-ups of s that are under way.
Full(s) == {t \in Sends("gas", s) : transfer[t] = [value |-> GasNeed, state |-> "sent"]}

\* The faults that may still become a top-up of s: those so far, but for the one of a
\* webhook call that has read the row.
Excuses(s) == Used - (IF hook.pc = "write" /\ hook.id = s THEN 1 ELSE 0)

\* A sweep with row x may be topped up without another fault.
MayFund(s, x) ==
  \/ x.status = "PENDING"
  \/ x.status = "BLOCKED" /\ x.why = "ineligible"
  \/ /\ FamilyOf(s) = "tron"
     /\ \/ x.status = "FUNDING_GAS" /\ <<"gas", s, x.gasTx>> \notin Full(s)
        \/ x.status = "BROADCASTING"

\* The worker has topped s up, or is sending it, and has still to write so.
Busy(s) ==
  worker.id = s /\ \/ worker.pc = "funded"
                   \/ worker.pc \in {"send", "sent"}

\* A top-up of s may come without another fault.
Claim(s) ==
  \/ MayFund(s, sweep[s]) /\ ~Busy(s)
  \/ \E x \in worker.todo : x[1] = s /\ MayFund(s, x[2])
  \/ /\ worker.id = s
     /\ \/ worker.pc = "gas" /\ MayFund(s, worker.row)
        \/ worker.pc = "fund" /\ (worker.value = GasNeed \/ FamilyOf(s) = "tron")
        \/ worker.pc = "funded" /\ FamilyOf(s) = "tron" /\ <<"gas", s, worker.att>> \notin Full(s)

\* One more is under way than there were faults, and that only while none may come.
TopUpOk(s) ==
  FamilyOf(s) # "sol" =>
    /\ Cardinality(Full(s)) <= 1 + Excuses(s)
    /\ Claim(s) => Cardinality(Full(s)) <= Excuses(s)

OneInv == Books /\ MarkedOk /\ \A s \in Ids : OnceOk(s)
TopInv == Books /\ \A s \in Ids : TopUpOk(s)

-----------------------------------------------------------------------------
(* Numbers *)

LEMMA IdsType ==
  ASSUME SweepAssumption
  PROVE  Cardinality(Credits) \in Nat /\ Ids \subseteq Nat \ {0} /\ 0 \notin Ids
<1>1. Cardinality(Credits) \in Nat
  BY FS_CardinalityType DEF SweepAssumption
<1> QED
  BY <1>1 DEF Ids

LEMMA LimitType ==
  ASSUME SweepAssumption, NEW s
  PROVE  Limit(s) \in Nat /\ (InSweep(s) # {} => Limit(s) > 0)
<1>1. InSweep(s) \in SUBSET Credits /\ IsFiniteSet(Credits) /\ Amount \in Nat \ {0}
  BY DEF InSweep, SweepAssumption
<1>2. IsFiniteSet(InSweep(s))
  BY <1>1, FS_Subset
<1>3. PICK n \in Nat : n = Cardinality(InSweep(s))
  BY <1>2, FS_CardinalityType
<1>4. InSweep(s) # {} => n > 0
  BY <1>2, <1>3, FS_EmptySet
<1>5. Amount * n \in Nat /\ (n > 0 => Amount * n > 0)
  BY <1>1
<1> QED
  BY <1>3, <1>4, <1>5 DEF Limit

\* A finite set of numbers has a greatest one.
LEMMA GreatestNumber ==
  ASSUME NEW S \in SUBSET Nat, IsFiniteSet(S), S # {}
  PROVE  Max(S) \in S
<1> DEFINE Has(T) == \E x \in T : \A y \in T : x >= y
           Bad == {T \in SUBSET S : T # {} /\ ~Has(T)}
<1>1. \A T \in Bad : IsFiniteSet(T)
  BY FS_Subset
<1>a. \A T \in Bad : T \subseteq S /\ T # {} /\ ~Has(T)
  OBVIOUS
<1>b. \A T \in SUBSET S : T # {} /\ ~Has(T) => T \in Bad
  OBVIOUS
<1> HIDE DEF Bad
<1>2. Bad = {}
  <2> SUFFICES ASSUME Bad # {}
               PROVE  FALSE
    OBVIOUS
  <2>1. PICK T \in Bad : \A R \in Bad : R \subseteq T => R = T
    BY <1>1, LeastSet
  <2>2. PICK x \in T : TRUE
    BY <1>a
  <2>3. T \ {x} \notin Bad
    BY <2>1
  <2>4. CASE T \ {x} = {}
    <3>1. x \in Nat /\ \A y \in T : y = x
      BY <1>a, <2>4
    <3>2. Has(T)
      BY <2>2, <3>1
    <3> QED
      BY <1>a, <3>2
  <2>5. CASE T \ {x} # {}
    <3>1. Has(T \ {x})
      BY <1>a, <1>b, <2>3, <2>5
    <3>2. PICK m \in T \ {x} : \A y \in T \ {x} : m >= y
      BY <3>1
    <3>3. Has(T)
      <4>1. T \subseteq Nat
        BY <1>a
      <4>2. CASE m >= x
        <5>1. \A y \in T : m >= y
          BY <3>2, <4>2
        <5> QED
          BY <5>1
      <4>3. CASE x >= m
        <5>1. \A y \in T : x >= y
          BY <3>2, <4>1, <4>3
        <5> QED
          BY <5>1
      <4> QED
        BY <4>1, <4>2, <4>3
    <3> QED
      BY <1>a, <3>3
  <2> QED
    BY <2>4, <2>5
<1>3. S \in SUBSET S /\ S \notin Bad
  BY <1>2
<1>4. Has(S)
  BY <1>3, <1>b
<1>5. PICK m \in S : \A y \in S : m >= y
  BY <1>4
<1> QED
  BY <1>5 DEF Max

LEMMA ConstantTypes ==
  ASSUME SweepAssumption
  PROVE  /\ NoRow \in SweepRow
         /\ Resting \in Pass
         /\ NoHook \in Call
         /\ Amount \in Nat \ {0} /\ GasNeed \in Nat \ {0} /\ MaxAttempts \in Nat \ {0} /\ MaxFaults \in Nat
<1>1. (CHOOSE w \in Purses : TRUE) \in Purses
  BY DEF SweepAssumption
<1>2. NoRow \in SweepRow
  BY <1>1 DEF NoRow, SweepRow, Statuses, Causes
<1>3. Resting \in Pass
  BY <1>2 DEF Resting, Pass
<1>4. NoHook \in Call
  BY <1>2 DEF NoHook, Call
<1> QED
  BY <1>2, <1>3, <1>4 DEF SweepAssumption

-----------------------------------------------------------------------------
(* How a step leaves rows and passes *)

\* What every step but the making of a sweep does: the deposits of a sweep stay, no
\* transfer is forgotten, and a mined one that a CONFIRMED row rests on stays mined.
Grown ==
  /\ \A d \in Credits : credit'[d].sweep = credit[d].sweep /\ credit'[d].purse = credit[d].purse
  /\ DOMAIN transfer \subseteq DOMAIN transfer'
  /\ \A t \in DOMAIN transfer : transfer[t].state = "mined" =>
       transfer'[t].state = "mined" \/ sweep'[t[2]].status # "CONFIRMED"
  /\ \A t \in DOMAIN transfer' \ DOMAIN transfer : sweep'[t[2]].status # "NONE"

\* A row that exists stays and keeps its wallet; only the sweep in the worker's hands
\* becomes CONFIRMED.
RowsGo ==
  \A s \in Ids :
    /\ sweep[s].status # "NONE" => sweep'[s].status # "NONE" /\ sweep'[s].purse = sweep[s].purse
    /\ sweep'[s].status = "CONFIRMED" => sweep[s].status = "CONFIRMED" \/ worker.id = s

\* Webhook events only leave CONFIRMED, and write a hash away.
FinalStays ==
  \A s \in Ids : /\ sweep[s].status = "CONFIRMED" => sweep'[s].status = "CONFIRMED"
                 /\ sweep[s].tx # 0 => sweep'[s].tx # 0

LEMMA SameDeposits ==
  ASSUME Grown, NEW s
  PROVE  InSweep(s)' = InSweep(s) /\ Limit(s)' = Limit(s)
<1>1. InSweep(s)' = InSweep(s)
  BY DEF Grown, InSweep
<1> QED
  BY <1>1 DEF Limit

LEMMA RowsStep ==
  ASSUME Grown, \A s \in Ids : RowOk(s, sweep'[s])
  PROVE  \A s \in Ids : RowOk(s, sweep[s])'
<1> SUFFICES ASSUME NEW s \in Ids
             PROVE  RowOk(s, sweep[s])'
  OBVIOUS
<1>1. RowOk(s, sweep'[s]) /\ InSweep(s)' = InSweep(s) /\ Limit(s)' = Limit(s)
  BY SameDeposits
<1>2. InSweep(s) \subseteq Credits
  BY DEF InSweep
<1>3. (sweep[s].status = "NONE" => InSweep(s) = {} /\ \A t \in DOMAIN transfer : t[2] # s)'
  BY <1>1 DEF RowOk, Grown
<1>4. (sweep[s].status # "NONE" =>
       /\ InSweep(s) # {} /\ \A d \in InSweep(s) : credit[d].purse = sweep[s].purse
       /\ sweep[s].raw \in 1 .. Limit(s))'
  BY <1>1, <1>2 DEF RowOk, Grown
<1>5. (/\ sweep[s].tx # 0 => <<"sweep", s, sweep[s].tx>> \in DOMAIN transfer
       /\ sweep[s].status = "BROADCASTED" => sweep[s].tx # 0)'
  BY <1>1 DEF RowOk, Grown
<1>6. (sweep[s].status = "CONFIRMED" => \E t \in Sends("sweep", s) : transfer[t].state = "mined")'
  BY <1>1 DEF RowOk, Grown, Sends
<1> QED
  BY <1>3, <1>4, <1>5, <1>6 DEF RowOk

LEMMA ListedStep ==
  ASSUME Grown, RowsGo, NEW s, NEW x, Listed(s, x), s # worker.id \/ sweep'[s].status # "CONFIRMED"
  PROVE  Listed(s, x)'
<1>1. Limit(s)' = Limit(s)
  BY SameDeposits
<1>2. (s \in Ids)' /\ s \in Ids
  BY DEF Listed, Ids
<1> QED
  BY <1>1, <1>2 DEF Listed, RowsGo, Grown

\* What is left of the list is still right.
TodoOk ==
  /\ \A d \in worker.group : credit[d].sweep = 0
  /\ \A x \in worker.todo : Listed(x[1], x[2]) /\ x[1] # worker.id
  /\ \A x, y \in worker.todo : x[1] = y[1] => x = y

LEMMA TodoStep ==
  ASSUME Typed, PassOk, Grown, RowsGo, worker'.group \subseteq worker.group,
         worker'.todo \subseteq worker.todo, \A x \in worker'.todo : x[1] # worker'.id
  PROVE  TodoOk'
<1>1. (\A d \in worker.group : credit[d].sweep = 0)'
  BY DEF PassOk, Grown, Typed, Pass
<1>2. ASSUME NEW x \in worker'.todo
      PROVE  Listed(x[1], x[2])'
  <2>1. Listed(x[1], x[2]) /\ x[1] # worker.id
    BY <1>2 DEF PassOk
  <2> QED
    BY <2>1, ListedStep
<1>3. (\A x, y \in worker.todo : x[1] = y[1] => x = y)'
  BY DEF PassOk
<1> QED
  BY <1>1, <1>2, <1>3 DEF TodoOk

\* A pass that another actor's step leaves alone.
LEMMA PassStays ==
  ASSUME Typed, PassOk, Grown, RowsGo, worker' = worker, family' = family,
         worker.pc \in Handling => sweep'[worker.id].status # "CONFIRMED"
  PROVE  PassOk'
<1>1. TodoOk'
  BY TodoStep DEF PassOk
<1>2. ASSUME worker.pc \in Handling
      PROVE  Listed(worker.id, worker.row)'
  <2>1. PICK s, x : s = worker.id /\ x = worker.row
    OBVIOUS
  <2>2. Listed(s, x)
    BY <1>2, <2>1 DEF PassOk
  <2>3. Listed(s, x)'
    BY <1>2, <2>1, <2>2, ListedStep
  <2> QED
    BY <2>1, <2>3 DEF Listed
<1>3. Limit(worker.id)' = Limit(worker.id)
  <2>1. PICK s : s = worker.id
    OBVIOUS
  <2>2. Limit(s)' = Limit(s)
    BY SameDeposits
  <2> QED
    BY <2>1, <2>2 DEF Limit, InSweep
<1> QED
  BY <1>1, <1>2, <1>3 DEF PassOk, TodoOk, Grown

\* A pass that lets go of its sweep.
LEMMA PassMoves ==
  ASSUME Typed, PassOk, Grown, RowsGo, NextRow, 0 \notin Ids
  PROVE  PassOk'
<1>1. /\ worker'.group = {} /\ worker'.todo = worker.todo /\ worker'.id = 0
      /\ worker'.pc \notin Handling
  BY DEF NextRow, Resting, Handling
<1>2. \A x \in worker'.todo : x[1] # worker'.id
  BY <1>1 DEF PassOk, Listed
<1>3. TodoOk'
  BY <1>1, <1>2, TodoStep
<1> QED
  BY <1>1, <1>3 DEF PassOk, TodoOk

\* The webhook's call while others go on.
LEMMA HookStays ==
  ASSUME Typed, HookOk, hook' = hook, RowsGo, FinalStays, DOMAIN transfer \subseteq DOMAIN transfer'
  PROVE  HookOk'
BY DEF HookOk, RowsGo, FinalStays, Ids

LEMMA BooksStep ==
  ASSUME SweepAssumption, Typed', Grown, \A s \in Ids : RowOk(s, sweep'[s]), PassOk', HookOk'
  PROVE  Books'
<1>1. \A s \in Ids : RowOk(s, sweep[s])'
  BY RowsStep
<1>2. (\A s \in Ids : RowOk(s, sweep[s]))'
  BY <1>1 DEF Ids
<1>3. SweepAssumption'
  BY DEF SweepAssumption
<1> QED
  BY <1>2, <1>3 DEF Books

LEMMA Words ==
  /\ {"NONE", "PENDING", "FUNDING_GAS", "BROADCASTING", "BROADCASTED", "CONFIRMED", "BLOCKED"} \subseteq Statuses
  /\ {"NONE", "limit", "policy", "ineligible", "unready", "mismatch", "ambiguous", "provider", "empty",
      "gas", "send", "event"} \subseteq Causes
BY DEF Statuses, Causes

\* Writing one row.
LEMMA RowSet ==
  ASSUME Typed, \A i \in Ids : RowOk(i, sweep[i]), NEW s \in Ids, NEW x \in SweepRow, Set(s, x),
         RowOk(s, x), x.status # "NONE", x.purse = sweep[s].purse,
         x.status = "CONFIRMED" => sweep[s].status = "CONFIRMED" \/ worker.id = s
  PROVE  /\ sweep' \in [Ids -> SweepRow] /\ sweep'[s] = x
         /\ \A i \in Ids : RowOk(i, sweep'[i])
         /\ RowsGo
         /\ sweep[s].status # "CONFIRMED" /\ (sweep[s].tx # 0 => x.tx # 0) => FinalStays
<1>1. sweep \in [Ids -> SweepRow] /\ sweep' = [sweep EXCEPT ![s] = x]
  BY DEF Typed, Set
<1>2. sweep'[s] = x /\ \A i \in Ids : i # s => sweep'[i] = sweep[i]
  BY <1>1
<1>3. \A i \in Ids : RowOk(i, sweep'[i])
  BY <1>2
<1>4. RowsGo
  BY <1>2 DEF RowsGo
<1>5. sweep[s].status # "CONFIRMED" /\ (sweep[s].tx # 0 => x.tx # 0) => FinalStays
  BY <1>2 DEF FinalStays
<1> QED
  BY <1>1, <1>2, <1>3, <1>4, <1>5

LEMMA RowsStay ==
  ASSUME Typed, \A i \in Ids : RowOk(i, sweep[i]), UNCHANGED sweep
  PROVE  sweep' \in [Ids -> SweepRow] /\ (\A i \in Ids : RowOk(i, sweep'[i])) /\ RowsGo /\ FinalStays
BY DEF Typed, RowsGo, FinalStays

\* Writes that keep the hash.
LEMMA PlainRow ==
  ASSUME NEW s, NEW r, NEW x, RowOk(s, r), r.status # "NONE", x.purse = r.purse, x.tx = r.tx,
         x.raw = r.raw \/ x.raw \in 1 .. Limit(s), x.status \in Moving \cup {"BLOCKED", r.status}
  PROVE  RowOk(s, x)
BY DEF RowOk, Moving

\* Blocking the sweep in hand.
LEMMA Blocked ==
  ASSUME Typed, \A i \in Ids : RowOk(i, sweep[i]), NEW s \in Ids, NEW why \in Causes, Block(s, why),
         sweep[s].status \notin {"NONE", "CONFIRMED"}
  PROVE  /\ sweep' \in [Ids -> SweepRow] /\ (\A i \in Ids : RowOk(i, sweep'[i])) /\ RowsGo /\ FinalStays
         /\ sweep'[s].status = "BLOCKED"
<1>1. PICK r \in SweepRow : r = sweep[s]
  BY DEF Typed
<1>2. PICK x : x = [r EXCEPT !.status = "BLOCKED", !.why = why]
  OBVIOUS
<1>3. x \in SweepRow /\ x.purse = r.purse /\ x.tx = r.tx /\ x.raw = r.raw /\ x.status = "BLOCKED"
  BY <1>1, <1>2 DEF SweepRow, Statuses
<1>4. RowOk(s, x)
  BY <1>1, <1>3, PlainRow
<1>5. Set(s, x)
  BY <1>1, <1>2 DEF Block
<1> QED
  BY <1>1, <1>3, <1>4, <1>5, RowSet

LEMMA TypedStep ==
  ASSUME Typed, sweep' \in [Ids -> SweepRow], worker' \in Pass, fuel' \in 0 .. MaxFaults,
         UNCHANGED <<credit, family, wallet, transfer, hook, putBack>>
  PROVE  Typed'
BY DEF Typed, Ids

LEMMA NextRowType ==
  ASSUME SweepAssumption, Typed, NextRow
  PROVE  worker' \in Pass
BY ConstantTypes DEF NextRow, Typed, Pass

LEMMA FaultType ==
  ASSUME SweepAssumption, Typed
  PROVE  /\ fuel \in 0 .. MaxFaults
         /\ SFault => fuel' \in 0 .. MaxFaults
BY ConstantTypes DEF Typed, SFault

LEMMA GrownStill ==
  ASSUME UNCHANGED <<credit, transfer>>
  PROVE  Grown
BY DEF Grown

\* A pass that lets go of its sweep, with the row written.
LEMMA BooksNextRow ==
  ASSUME Books, NextRow, UNCHANGED <<credit, family, wallet, transfer, hook, putBack>>,
         fuel' \in 0 .. MaxFaults, sweep' \in [Ids -> SweepRow], \A i \in Ids : RowOk(i, sweep'[i]),
         RowsGo, FinalStays
  PROVE  Books'
<1>1. Grown /\ SweepAssumption /\ Typed /\ PassOk /\ HookOk
  BY GrownStill DEF Books
<1>2. Typed'
  BY <1>1, NextRowType, TypedStep
<1>3. PassOk'
  BY <1>1, PassMoves, IdsType
<1>4. HookOk'
  BY <1>1, HookStays DEF Grown
<1> QED
  BY <1>1, <1>2, <1>3, <1>4, BooksStep

\* The sweep in hand.
LEMMA InHand ==
  ASSUME Books, worker.pc \in Handling
  PROVE  /\ worker.id \in Ids /\ sweep[worker.id] \in SweepRow /\ RowOk(worker.id, sweep[worker.id])
         /\ sweep[worker.id].status \notin {"NONE", "CONFIRMED"}
         /\ worker.row \in SweepRow /\ worker.row.purse = sweep[worker.id].purse
         /\ worker.row.purse \in Purses
         /\ worker.row.status \in Moving \cup {"BROADCASTED"}
         /\ worker.row.raw \in 1 .. Limit(worker.id)
BY DEF Books, PassOk, Listed, Typed, Pass, SweepRow

\* A pass that goes on with the sweep in hand.
LEMMA PassGoesOn ==
  ASSUME Typed, PassOk, Grown, RowsGo, worker.pc \in Handling, worker'.pc \in Handling \ {"confirm", "gas"},
         worker'.group = worker.group, worker'.todo = worker.todo, worker'.id = worker.id,
         worker'.row.purse = worker.row.purse, worker'.row.status = worker.row.status,
         worker'.row.tx = worker.row.tx, worker'.row.raw \in 1 .. Limit(worker.id),
         sweep'[worker.id].status # "CONFIRMED",
         worker'.pc \in {"fund", "send"} => worker'.att # 0 /\ worker'.value \in Nat \ {0},
         worker'.pc = "send" => worker'.value <= Limit(worker.id),
         worker'.pc = "funded" => worker'.att # 0,
         worker'.pc = "sent" => worker'.att # 0 /\ <<"sweep", worker.id, worker'.att>> \in DOMAIN transfer'
  PROVE  PassOk'
<1>1. TodoOk'
  BY TodoStep DEF PassOk
<1>2. PICK s, x : s = worker.id /\ x = worker'.row
  OBVIOUS
<1>3. Listed(s, x)
  BY <1>2 DEF PassOk, Listed
<1>4. Listed(s, x)' /\ Limit(s)' = Limit(s)
  BY <1>2, <1>3, ListedStep, SameDeposits
<1>5. Listed(worker.id, worker.row)'
  BY <1>2, <1>4 DEF Listed
<1>6. Limit(worker.id)' = Limit(worker.id)
  BY <1>2, <1>4 DEF Limit, InSweep
<1> QED
  BY <1>1, <1>5, <1>6 DEF PassOk, TodoOk

-----------------------------------------------------------------------------
(* Deposits, the chain and the operator *)

LEMMA BooksArrive ==
  ASSUME Books, NEW d \in Credits, Arrive(d)
  PROVE  Books'
<1>1. SweepAssumption /\ Typed /\ PassOk /\ HookOk /\ \A i \in Ids : RowOk(i, sweep[i])
  BY DEF Books
<1>2. PICK c \in [purse : Purses, credited : BOOLEAN, sweep : Ids \cup {0}] : c = credit[d]
  BY <1>1 DEF Typed
<1>3. credit' \in [Credits -> [purse : Purses, credited : BOOLEAN, sweep : Ids \cup {0}]]
  BY <1>1, <1>2 DEF Arrive, Typed
<1>4. wallet' \in [Purses -> [tok : Nat, gas : Nat]]
  <2>1. PICK w \in [tok : Nat, gas : Nat] : w = wallet[c.purse]
    BY <1>1 DEF Typed
  <2>2. [w EXCEPT !.tok = w.tok + Amount] \in [tok : Nat, gas : Nat]
    BY <1>1, ConstantTypes
  <2> QED
    BY <1>1, <1>2, <2>1, <2>2 DEF Arrive, Typed
<1>5. Typed'
  BY <1>1, <1>3, <1>4 DEF Arrive, Typed, Ids
<1>6. Grown
  BY <1>1, <1>2 DEF Arrive, Grown, Typed
<1>7. (\A i \in Ids : RowOk(i, sweep'[i])) /\ RowsGo /\ FinalStays
  BY <1>1, RowsStay DEF Arrive
<1>8. PassOk'
  <2>1. worker.pc \in Handling => sweep'[worker.id].status # "CONFIRMED"
    BY InHand DEF Arrive
  <2> QED
    BY <1>1, <1>6, <1>7, <2>1, PassStays DEF Arrive
<1>9. HookOk'
  BY <1>1, <1>6, <1>7, HookStays DEF Arrive, Grown
<1> QED
  BY <1>1, <1>5, <1>6, <1>7, <1>8, <1>9, BooksStep

LEMMA BooksMine ==
  ASSUME Books, NEW t \in DOMAIN transfer, Mine(t)
  PROVE  Books'
<1> DEFINE w == sweep[t[2]].purse
           f == family[w]
           v == transfer[t].value
           covered == CASE t[1] = "gas" -> TRUE
                        [] f \in {"erc20", "tron"} -> wallet[w].tok >= v /\ wallet[w].gas > 0
                        [] OTHER -> wallet[w].tok > v
           paid(state) ==
             IF t[1] = "gas" THEN (IF state = "reverted" THEN wallet[w]
                                   ELSE IF f = "sol" THEN [wallet[w] EXCEPT !.tok = wallet[w].tok + v]
                                   ELSE [wallet[w] EXCEPT !.gas = wallet[w].gas + v])
             ELSE IF f \in {"erc20", "tron"}
             THEN [tok |-> IF state = "mined" THEN wallet[w].tok - v ELSE wallet[w].tok,
                   gas |-> IF wallet[w].gas > 0 THEN wallet[w].gas - 1 ELSE 0]
             ELSE [wallet[w] EXCEPT !.tok = IF state = "mined" THEN wallet[w].tok - v - 1 ELSE wallet[w].tok]
           Mined(state) == /\ transfer' = [transfer EXCEPT ![t].state = state]
                           /\ wallet' = [wallet EXCEPT ![w] = paid(state)]
<1>1. SweepAssumption /\ Typed /\ PassOk /\ HookOk /\ \A i \in Ids : RowOk(i, sweep[i])
  BY DEF Books
<1>2. PICK p \in Paid : p = transfer[t]
  BY <1>1 DEF Typed
<1>3. p.value \in Nat \ {0} /\ p.state = "sent" /\ v = p.value
  BY <1>2 DEF Paid, Mine
<1>w. w \in Purses /\ wallet \in [Purses -> [tok : Nat, gas : Nat]]
  <2>1. t[2] \in Ids
    BY <1>1 DEF Typed
  <2> QED
    BY <1>1, <2>1 DEF Typed, SweepRow
<1>4. PICK state \in {"mined", "reverted"} : Mined(state) /\ (state = "mined" => covered)
  <2>1. CASE covered
    <3>1. Mined("mined") \/ Mined("reverted")
      BY <2>1 DEF Mine
    <3> QED
      BY <2>1, <3>1
  <2>2. CASE ~covered
    <3>1. Mined("reverted")
      BY <2>2 DEF Mine
    <3> QED
      BY <3>1
  <2> QED
    BY <2>1, <2>2
<1>5. transfer' = [transfer EXCEPT ![t] = [p EXCEPT !.state = state]]
  BY <1>2, <1>4
<1>6. /\ DOMAIN transfer' = DOMAIN transfer
      /\ transfer'[t] = [p EXCEPT !.state = state] /\ transfer'[t] \in Paid
      /\ \A u \in DOMAIN transfer : u # t => transfer'[u] = transfer[u]
  BY <1>5, <1>2 DEF Paid
<1>7. wallet' \in [Purses -> [tok : Nat, gas : Nat]]
  <2>1. PICK b \in [tok : Nat, gas : Nat] : b = wallet[w]
    BY <1>w
  <2>2. paid(state) \in [tok : Nat, gas : Nat]
    <3>1. CASE t[1] = "gas"
      BY <1>3, <2>1, <3>1
    <3>2. CASE t[1] # "gas" /\ f \in {"erc20", "tron"}
      <4>1. PICK n \in Nat : n = IF state = "mined" THEN b.tok - v ELSE b.tok
        <5>1. state = "mined" => b.tok >= v
          BY <1>4, <2>1, <3>2
        <5> HIDE DEF v, f, w
        <5> QED
          BY <1>3, <5>1
      <4>2. PICK m \in Nat : m = IF b.gas > 0 THEN b.gas - 1 ELSE 0
        OBVIOUS
      <4>3. paid(state) = [tok |-> n, gas |-> m]
        BY <2>1, <3>2, <4>1, <4>2
      <4> HIDE DEF paid
      <4> QED
        BY <4>3
    <3>3. CASE t[1] # "gas" /\ f \notin {"erc20", "tron"}
      <4>1. PICK n \in Nat : n = IF state = "mined" THEN b.tok - v - 1 ELSE b.tok
        <5>1. state = "mined" => b.tok > v
          BY <1>4, <2>1, <3>3
        <5> HIDE DEF v, f, w
        <5> QED
          BY <1>3, <5>1
      <4>2. paid(state) = [b EXCEPT !.tok = n]
        BY <2>1, <3>3, <4>1
      <4> HIDE DEF paid
      <4> QED
        BY <4>2
    <3> QED
      BY <3>1, <3>2, <3>3
  <2>3. PICK c \in [tok : Nat, gas : Nat] : wallet' = [wallet EXCEPT ![w] = c]
    BY <1>4, <2>2
  <2> QED
    BY <1>w, <2>3
<1> HIDE DEF w, f, v, covered, paid, Mined
<1>8. Typed'
  BY <1>1, <1>6, <1>7, FaultType DEF Mine, Typed, Ids
<1>9. Grown
  BY <1>1, <1>2, <1>3, <1>6 DEF Mine, Grown, Typed
<1>10. (\A i \in Ids : RowOk(i, sweep'[i])) /\ RowsGo /\ FinalStays
  BY <1>1, RowsStay DEF Mine
<1>11. PassOk'
  <2>1. worker.pc \in Handling => sweep'[worker.id].status # "CONFIRMED"
    BY InHand DEF Mine
  <2> QED
    BY <1>1, <1>9, <1>10, <2>1, PassStays DEF Mine
<1>12. HookOk'
  BY <1>1, <1>9, <1>10, HookStays DEF Mine, Grown
<1> QED
  BY <1>1, <1>8, <1>9, <1>10, <1>11, <1>12, BooksStep

LEMMA BooksRecover ==
  ASSUME Books, NEW s \in Ids, RecoverBlocked(s)
  PROVE  Books'
<1>1. SweepAssumption /\ Typed /\ PassOk /\ HookOk /\ \A i \in Ids : RowOk(i, sweep[i])
  BY DEF Books
<1>2. PICK r \in SweepRow : r = sweep[s]
  BY <1>1 DEF Typed
<1>3. PICK tok \in Nat : tok = wallet[r.purse].tok
  BY <1>1 DEF Typed, SweepRow
<1>4. r.status = "BLOCKED" /\ r.raw \in 1 .. Limit(s) /\ Limit(s) \in Nat /\ tok > 0 /\ RowOk(s, r)
  BY <1>1, <1>2, <1>3, LimitType DEF RecoverBlocked, RowOk
<1>5. Capped(r.raw, tok) \in 1 .. Limit(s)
  BY <1>4 DEF Capped
<1>a. PICK raw \in Nat : raw = Capped(r.raw, tok)
  BY <1>4, <1>5
<1>6. PICK x : x = [r EXCEPT !.status = "PENDING", !.attempts = 0, !.why = "NONE", !.raw = raw]
  OBVIOUS
<1>7. x \in SweepRow /\ x.purse = r.purse /\ x.tx = r.tx /\ x.raw \in 1 .. Limit(s) /\ x.status = "PENDING"
  BY <1>2, <1>5, <1>6, <1>a, Words DEF SweepRow
<1>8. RowOk(s, x)
  BY <1>4, <1>7, PlainRow DEF Moving
<1>9. Set(s, x)
  <2>1. sweep' = [sweep EXCEPT ![s] = [sweep[s] EXCEPT !.status = "PENDING", !.attempts = 0, !.why = "NONE",
                    !.raw = Capped(sweep[s].raw, wallet[sweep[s].purse].tok)]]
    BY DEF RecoverBlocked
  <2> QED
    BY <1>2, <1>3, <1>6, <1>a, <2>1 DEF Set
<1>10. /\ sweep' \in [Ids -> SweepRow] /\ (\A i \in Ids : RowOk(i, sweep'[i])) /\ RowsGo /\ FinalStays
       /\ sweep'[s].status = "PENDING" /\ \A i \in Ids : i # s => sweep'[i] = sweep[i]
  <2>1. sweep' \in [Ids -> SweepRow] /\ (\A i \in Ids : RowOk(i, sweep'[i])) /\ RowsGo /\ FinalStays
    BY <1>1, <1>2, <1>4, <1>7, <1>8, <1>9, RowSet
  <2> QED
    BY <1>1, <1>7, <1>9, <2>1 DEF Set, Typed
<1>11. Typed'
  BY <1>1, <1>10, FaultType DEF RecoverBlocked, Typed, Ids
<1>12. Grown
  BY GrownStill DEF RecoverBlocked
<1>13. PassOk'
  <2>1. worker.pc \in Handling => sweep'[worker.id].status # "CONFIRMED"
    BY <1>10, InHand
  <2> QED
    BY <1>1, <1>10, <1>12, <2>1, PassStays DEF RecoverBlocked
<1>14. HookOk'
  BY <1>1, <1>10, <1>12, HookStays DEF RecoverBlocked, Grown
<1> QED
  BY <1>1, <1>10, <1>11, <1>12, <1>13, <1>14, BooksStep

-----------------------------------------------------------------------------
(* The pass of the timer *)

LEMMA BooksBegins ==
  ASSUME Books, PassBegins
  PROVE  Books'
<1>1. SweepAssumption /\ Typed /\ PassOk /\ HookOk /\ \A i \in Ids : RowOk(i, sweep[i])
  BY DEF Books
<1>2. Grown
  BY GrownStill DEF PassBegins
<1>3. ASSUME NEW i \in Ids
      PROVE  /\ sweep'[i] \in SweepRow /\ RowOk(i, sweep'[i])
             /\ sweep'[i] = sweep[i] \/ (sweep[i].status = "BLOCKED" /\ sweep'[i].status = "PENDING")
             /\ sweep'[i].purse = sweep[i].purse /\ sweep'[i].tx = sweep[i].tx
  <2>1. PICK r \in SweepRow : r = sweep[i] /\ RowOk(i, r)
    BY <1>1 DEF Typed
  <2>2. CASE i \in Requeued
    <3>1. PICK x : x = [r EXCEPT !.status = "PENDING", !.why = "NONE"]
      OBVIOUS
    <3>2. x \in SweepRow /\ x.purse = r.purse /\ x.tx = r.tx /\ x.raw = r.raw /\ x.status = "PENDING"
      BY <3>1, Words DEF SweepRow
    <3>3. r.status = "BLOCKED"
      BY <2>1, <2>2 DEF Requeued
    <3>4. RowOk(i, x)
      BY <2>1, <3>2, <3>3, PlainRow DEF Moving
    <3>5. sweep'[i] = x
      BY <2>1, <2>2, <3>1 DEF PassBegins
    <3> QED
      BY <2>1, <3>2, <3>3, <3>4, <3>5
  <2>3. CASE i \notin Requeued
    <3>1. sweep'[i] = r
      BY <2>1, <2>3 DEF PassBegins
    <3> QED
      BY <2>1, <3>1
  <2> QED
    BY <2>2, <2>3
<1>4. sweep' \in [Ids -> SweepRow]
  <2>1. sweep' = [i \in Ids |-> sweep'[i]]
    BY DEF PassBegins
  <2> QED
    BY <1>3, <2>1
<1>5. RowsGo /\ FinalStays
  BY <1>3 DEF RowsGo, FinalStays
<1>6. /\ worker' \in Pass /\ worker'.pc = "create" /\ worker'.todo = {} /\ worker'.id = 0
      /\ worker'.group = {d \in Credits : credit[d].credited /\ credit[d].sweep = 0}
  BY <1>1, ConstantTypes DEF PassBegins, Resting, Pass
<1>7. Typed'
  BY <1>1, <1>4, <1>6 DEF PassBegins, Typed, Ids, Requeued
<1>8. PassOk'
  BY <1>6 DEF PassOk, PassBegins, Handling
<1>9. HookOk'
  BY <1>1, <1>2, <1>5, HookStays DEF PassBegins, Grown
<1> QED
  BY <1>1, <1>2, <1>3, <1>7, <1>8, <1>9, BooksStep

LEMMA BooksLists ==
  ASSUME Books, PassLists
  PROVE  Books'
<1>1. SweepAssumption /\ Typed /\ PassOk /\ HookOk /\ \A i \in Ids : RowOk(i, sweep[i])
  BY DEF Books
<1>2. Grown
  BY GrownStill DEF PassLists
<1>3. ASSUME NEW i \in Ids
      PROVE  /\ sweep'[i] \in SweepRow /\ RowOk(i, sweep'[i])
             /\ \/ sweep'[i] = sweep[i]
                \/ sweep[i].status \in Moving /\ sweep'[i].status = "BLOCKED" /\ sweep[i].attempts >= MaxAttempts
             /\ sweep'[i].purse = sweep[i].purse /\ sweep'[i].tx = sweep[i].tx
  <2>1. PICK r \in SweepRow : r = sweep[i] /\ RowOk(i, r)
    BY <1>1 DEF Typed
  <2>2. CASE OverLimit(r)
    <3>1. PICK x : x = [r EXCEPT !.status = "BLOCKED", !.why = "limit"]
      OBVIOUS
    <3>2. x \in SweepRow /\ x.purse = r.purse /\ x.tx = r.tx /\ x.raw = r.raw /\ x.status = "BLOCKED"
      BY <3>1, Words DEF SweepRow
    <3>3. r.status \in Moving /\ r.status # "NONE" /\ r.attempts >= MaxAttempts
      BY <2>2 DEF OverLimit, Moving
    <3>4. RowOk(i, x)
      BY <2>1, <3>2, <3>3, PlainRow
    <3>5. sweep'[i] = x
      BY <2>1, <2>2, <3>1 DEF PassLists
    <3> QED
      BY <2>1, <3>2, <3>3, <3>4, <3>5
  <2>3. CASE ~OverLimit(r)
    BY <2>1, <2>3 DEF PassLists
  <2> QED
    BY <2>2, <2>3
<1>4. sweep' \in [Ids -> SweepRow]
  <2>1. sweep' = [i \in Ids |-> sweep'[i]]
    BY DEF PassLists
  <2> QED
    BY <1>3, <2>1
<1>5. RowsGo /\ FinalStays
  BY <1>3 DEF RowsGo, FinalStays, Moving
<1>6. PICK T : T = {<<s, sweep[s]>> : s \in {i \in Ids : /\ sweep[i].status \in Moving \cup {"BROADCASTED"}
                                                       /\ sweep[i].attempts < MaxAttempts}}
  OBVIOUS
<1>7. T \in SUBSET (Ids \X SweepRow)
  BY <1>1, <1>6 DEF Typed
<1>8. worker' = [worker EXCEPT !.pc = "rows", !.todo = T]
  BY <1>6 DEF PassLists
<1>9. /\ worker' \in Pass /\ worker'.pc = "rows" /\ worker'.todo = T /\ worker'.id = 0
      /\ worker'.group = worker.group
  BY <1>1, <1>7, <1>8 DEF Typed, Pass, PassOk, Handling, PassLists
<1>10. Typed'
  BY <1>1, <1>4, <1>9, FaultType, TypedStep DEF PassLists
<1>11. PassOk'
  <2>1. ASSUME NEW y \in T
        PROVE  Listed(y[1], y[2])' /\ y[1] # 0
    <3>1. PICK i \in Ids : /\ y[1] = i /\ y[2] = sweep[i] /\ sweep[i].status \in Moving \cup {"BROADCASTED"}
                           /\ sweep[i].attempts < MaxAttempts
      BY <1>6, <2>1
    <3>2. PICK x \in SweepRow : x = sweep[i] /\ RowOk(i, x)
      BY <1>1 DEF Typed
    <3>3. ~(x.attempts >= MaxAttempts)
      BY <3>1, <3>2, ConstantTypes, <1>1 DEF SweepRow
    <3>4. sweep'[i] = x
      BY <1>3, <3>1, <3>2, <3>3
    <3>5. Listed(i, x)
      BY <3>1, <3>2 DEF Listed, RowOk, Moving
    <3>6. Listed(i, x)'
      BY <1>2, <1>5, <3>1, <3>2, <3>4, <3>5, ListedStep DEF Moving
    <3>7. i # 0
      BY <1>1, IdsType
    <3> QED
      BY <3>1, <3>2, <3>6, <3>7 DEF Listed
  <2>2. \A x, y \in T : x[1] = y[1] => x = y
    BY <1>6
  <2>3. (\A d \in worker.group : credit[d].sweep = 0)'
    BY <1>1, <1>9 DEF PassOk, PassLists
  <2>4. (\A x \in worker.todo : Listed(x[1], x[2]) /\ x[1] # worker.id)'
    BY <1>9, <2>1
  <2> QED
    BY <1>9, <2>2, <2>3, <2>4 DEF PassOk, Handling
<1>12. HookOk'
  BY <1>1, <1>2, <1>5, HookStays DEF PassLists, Grown
<1> QED
  BY <1>1, <1>2, <1>3, <1>10, <1>11, <1>12, BooksStep

LEMMA StageTo ==
  ASSUME NEW f, NEW status
  PROVE  /\ Stage(f, status) \in {"confirm", "provider", "mark", "gas"}
         /\ Stage(f, status) = "confirm" <=> status = "BROADCASTED"
         /\ Stage(f, status) = "gas" => status # "BROADCASTED" /\ (status = "BROADCASTING" => f = "tron")
         /\ Stage(f, status) = "mark" => f = "native" /\ status \notin {"BROADCASTED", "BROADCASTING"}
<1>1. CASE status = "BROADCASTED"
  BY <1>1 DEF Stage
<1>2. CASE status = "BROADCASTING" /\ f # "tron"
  BY <1>2 DEF Stage
<1>3. CASE status # "BROADCASTED" /\ ~(status = "BROADCASTING" /\ f # "tron")
  BY <1>3 DEF Stage
<1> QED
  BY <1>1, <1>2, <1>3

\* The oldest of the rows that are left.
LEMMA NextToDo ==
  ASSUME Books, worker.todo # {}
  PROVE  (CHOOSE y \in worker.todo : \A z \in worker.todo : y[1] <= z[1]) \in worker.todo
<1>1. worker.todo \in SUBSET (Ids \X SweepRow) /\ Ids \subseteq Nat
  BY IdsType DEF Books, Typed, Pass
<1> DEFINE S == {y[1] : y \in worker.todo}
<1>2. S \in SUBSET Nat /\ S # {}
  BY <1>1
<1>3. PICK n \in S : \A m \in S : n <= m
  BY <1>2, LeastNumber
<1>4. \E y \in worker.todo : \A z \in worker.todo : y[1] <= z[1]
  BY <1>3
<1> QED
  BY <1>4

LEMMA BooksTake ==
  ASSUME Books, TakeRow
  PROVE  Books'
<1>1. SweepAssumption /\ Typed /\ PassOk /\ HookOk /\ \A i \in Ids : RowOk(i, sweep[i])
  BY DEF Books
<1>2. Grown
  BY GrownStill DEF TakeRow
<1>3. Resting \in Pass /\ worker.todo \in SUBSET (Ids \X SweepRow) /\ 0 \notin Ids
  BY <1>1, ConstantTypes, IdsType DEF Typed, Pass
<1>4. CASE worker.todo = {}
  <2>1. worker' = Resting /\ UNCHANGED <<sweep, fuel>>
    BY <1>4 DEF TakeRow
  <2>2. sweep' \in [Ids -> SweepRow] /\ (\A i \in Ids : RowOk(i, sweep'[i])) /\ RowsGo /\ FinalStays
    BY <1>1, <2>1, RowsStay
  <2>3. Typed'
    BY <1>1, <1>3, <2>1, <2>2, FaultType, TypedStep DEF TakeRow
  <2>4. PassOk'
    BY <2>1 DEF PassOk, Resting, Handling
  <2>5. HookOk'
    BY <1>1, <1>2, <2>2, HookStays DEF TakeRow, Grown
  <2> QED
    BY <1>1, <1>2, <2>2, <2>3, <2>4, <2>5, BooksStep
<1>5. CASE worker.todo # {}
  <2> DEFINE x == CHOOSE y \in worker.todo : \A z \in worker.todo : y[1] <= z[1]
             rest == worker.todo \ {x}
  <2>1. x \in worker.todo
    BY <1>1, <1>5, NextToDo
  <2>2. \/ /\ worker' = [Resting EXCEPT !.pc = Stage(family[x[2].purse], x[2].status), !.todo = rest,
                                        !.id = x[1], !.row = x[2]]
           /\ UNCHANGED <<sweep, fuel>>
        \/ /\ SFault /\ worker' = [Resting EXCEPT !.pc = "rows", !.todo = rest]
           /\ \E why \in Refusals : Block(x[1], why)
    BY <1>5 DEF TakeRow
  <2> HIDE DEF x
  <2>3. PICK s \in Ids, r \in SweepRow : s = x[1] /\ r = x[2] /\ x = <<s, r>>
    BY <1>3, <2>1
  <2>4. Listed(s, r) /\ sweep[s].status \notin {"NONE", "CONFIRMED"} /\ s # 0
    BY <1>1, <1>3, <2>1, <2>3 DEF PassOk, Listed
  <2>5. \A y \in rest : y \in worker.todo /\ y[1] # s /\ y[1] # 0
    BY <1>1, <1>3, <2>1, <2>3 DEF PassOk
  <2>6. CASE /\ worker' = [Resting EXCEPT !.pc = Stage(family[x[2].purse], x[2].status), !.todo = rest,
                                          !.id = x[1], !.row = x[2]]
             /\ UNCHANGED <<sweep, fuel>>
    <3>1. sweep' \in [Ids -> SweepRow] /\ (\A i \in Ids : RowOk(i, sweep'[i])) /\ RowsGo /\ FinalStays
      BY <1>1, <2>6, RowsStay
    <3>2. PICK pc \in {"confirm", "provider", "mark", "gas"} :
            /\ pc = Stage(family[r.purse], r.status) /\ (pc = "confirm" <=> r.status = "BROADCASTED")
            /\ pc = "gas" => r.status # "BROADCASTED" /\ (r.status = "BROADCASTING" => family[r.purse] = "tron")
      BY StageTo
    <3>3. worker' = [Resting EXCEPT !.pc = pc, !.todo = rest, !.id = s, !.row = r]
      BY <2>3, <2>6, <3>2
    <3> HIDE DEF rest
    <3>4. /\ worker'.pc = pc /\ worker'.todo = rest /\ worker'.id = s /\ worker'.row = r
          /\ worker'.group = {}
      BY <3>3 DEF Resting
    <3>5. worker' \in Pass
      BY <1>3, <2>5, <3>3 DEF Pass, Handling
    <3>6. Typed'
      BY <1>1, <3>1, <3>5, <2>6, FaultType, TypedStep DEF TakeRow
    <3>7. TodoOk'
      BY <1>1, <1>2, <2>5, <3>1, <3>4, TodoStep
    <3>8. Listed(s, r)'
      BY <1>2, <2>4, <2>6, <3>1, ListedStep
    <3>9. Listed(worker.id, worker.row)'
      BY <3>4, <3>8 DEF Listed
    <3>10. PassOk'
      <4>1. family' = family
        BY DEF TakeRow
      <4> QED
        BY <3>2, <3>4, <3>7, <3>9, <4>1 DEF PassOk, TodoOk, Handling
    <3>11. HookOk'
      BY <1>1, <1>2, <3>1, HookStays DEF TakeRow, Grown
    <3> QED
      BY <1>1, <1>2, <3>1, <3>6, <3>10, <3>11, BooksStep
  <2>7. CASE /\ SFault /\ worker' = [Resting EXCEPT !.pc = "rows", !.todo = rest]
             /\ \E why \in Refusals : Block(x[1], why)
    <3>1. PICK why \in Causes : Block(s, why)
      BY <2>3, <2>7, Words DEF Refusals
    <3>2. sweep' \in [Ids -> SweepRow] /\ (\A i \in Ids : RowOk(i, sweep'[i])) /\ RowsGo /\ FinalStays
      BY <1>1, <2>4, <3>1, Blocked
    <3> HIDE DEF rest
    <3>3. /\ worker'.pc = "rows" /\ worker'.todo = rest /\ worker'.id = 0
          /\ worker'.group = {}
      BY <2>7 DEF Resting
    <3>4. worker' \in Pass
      BY <1>3, <2>5, <2>7 DEF Pass, Handling
    <3>5. Typed'
      BY <1>1, <2>7, <3>2, <3>4, FaultType, TypedStep DEF TakeRow
    <3>6. TodoOk'
      BY <1>1, <1>2, <2>5, <3>2, <3>3, TodoStep
    <3>7. PassOk'
      BY <3>3, <3>6 DEF PassOk, TodoOk, Handling
    <3>8. HookOk'
      BY <1>1, <1>2, <3>2, HookStays DEF TakeRow, Grown
    <3> QED
      BY <1>1, <1>2, <3>2, <3>5, <3>7, <3>8, BooksStep
  <2> QED
    BY <2>2, <2>6, <2>7
<1> QED
  BY <1>4, <1>5

LEMMA BooksConfirm ==
  ASSUME Books, Confirm
  PROVE  Books'
<1>1. SweepAssumption /\ Typed /\ PassOk /\ HookOk /\ \A i \in Ids : RowOk(i, sweep[i])
  BY DEF Books
<1>2. worker.pc \in Handling
  BY DEF Confirm, Handling
<1>3. PICK s \in Ids, r \in SweepRow :
        s = worker.id /\ r = sweep[s] /\ RowOk(s, r) /\ r.status \notin {"NONE", "CONFIRMED"}
  BY <1>2, InHand
<1>4. PICK t \in DOMAIN transfer : t = <<"sweep", s, worker.row.tx>>
  BY <1>1, <1>2, <1>3 DEF Confirm, PassOk, Listed
<1>5. /\ sweep' \in [Ids -> SweepRow] /\ (\A i \in Ids : RowOk(i, sweep'[i])) /\ RowsGo /\ FinalStays
  <2>1. CASE UNCHANGED sweep
    BY <1>1, <2>1, RowsStay
  <2>2. CASE transfer[t].state = "mined" /\ Set(s, [r EXCEPT !.status = "CONFIRMED", !.why = "NONE"])
    <3>1. PICK x : x = [r EXCEPT !.status = "CONFIRMED", !.why = "NONE"]
      OBVIOUS
    <3>2. x \in SweepRow /\ x.purse = r.purse /\ x.tx = r.tx /\ x.raw = r.raw /\ x.status = "CONFIRMED"
      BY <1>3, <3>1, Words DEF SweepRow
    <3>3. t \in Sends("sweep", s)
      BY <1>4 DEF Sends
    <3>4. RowOk(s, x)
      BY <1>3, <2>2, <3>2, <3>3 DEF RowOk
    <3>5. Set(s, x) /\ (sweep[s].tx # 0 => x.tx # 0) /\ x.status # "NONE"
      BY <1>3, <2>2, <3>1, <3>2
    <3> QED
      BY <1>1, <1>3, <3>2, <3>4, <3>5, RowSet
  <2>3. CASE Block(s, "mismatch")
    BY <1>1, <1>3, <2>3, Blocked, Words
  <2> QED
    BY <1>3, <1>4, <2>1, <2>2, <2>3 DEF Confirm, Matched
<1>6. fuel' \in 0 .. MaxFaults
  BY <1>1, FaultType DEF Confirm
<1> QED
  BY <1>5, <1>6, BooksNextRow DEF Confirm

LEMMA BooksAsk ==
  ASSUME Books, AskProvider
  PROVE  Books'
<1>1. SweepAssumption /\ Typed /\ PassOk /\ HookOk /\ \A i \in Ids : RowOk(i, sweep[i])
  BY DEF Books
<1>2. worker.pc \in Handling
  BY DEF AskProvider, Handling
<1>3. PICK s \in Ids, r \in SweepRow :
        s = worker.id /\ r = sweep[s] /\ RowOk(s, r) /\ r.status \notin {"NONE", "CONFIRMED"}
  BY <1>2, InHand
<1> DEFINE sent == {t \in DOMAIN transfer : t[1] = "sweep" /\ t[2] = s}
           last == Max({t[3] : t \in sent})
<1>5. /\ sweep' \in [Ids -> SweepRow] /\ (\A i \in Ids : RowOk(i, sweep'[i])) /\ RowsGo /\ FinalStays
  <2>1. CASE \E why \in Causes : Block(s, why)
    BY <1>1, <1>3, <2>1, Blocked
  <2>2. CASE sent # {} /\ Set(s, [r EXCEPT !.status = "BROADCASTED", !.tx = last])
    <3>1. {t[3] : t \in sent} \in SUBSET Nat /\ {t[3] : t \in sent} # {}
      BY <1>1, <2>2 DEF Typed
    <3>2. IsFiniteSet({t[3] : t \in sent})
      <4>1. IsFiniteSet(sent)
        BY <1>1, FS_Subset DEF Typed
      <4> DEFINE T == {t[3] : t \in sent}
                 n == [t \in sent |-> t[3]]
      <4>2. n \in Surjection(sent, T)
        BY DEF Surjection
      <4> HIDE DEF T, n, sent
      <4>3. IsFiniteSet(T)
        BY <4>1, <4>2, FS_Surjection
      <4> QED
        BY <4>3 DEF T
    <3>3. last \in {t[3] : t \in sent}
      BY <3>1, <3>2, GreatestNumber
    <3>4. PICK t \in sent : t[3] = last
      BY <3>3
    <3>5. t \in DOMAIN transfer /\ t = <<"sweep", s, last>> /\ last \in Nat \ {0}
      BY <1>1, <3>4 DEF Typed
    <3> HIDE DEF last
    <3>6. PICK x : x = [r EXCEPT !.status = "BROADCASTED", !.tx = last]
      OBVIOUS
    <3>7. x \in SweepRow /\ x.purse = r.purse /\ x.tx = last /\ x.raw = r.raw /\ x.status = "BROADCASTED"
      BY <1>3, <3>5, <3>6, Words DEF SweepRow
    <3>8. RowOk(s, x)
      BY <1>3, <3>5, <3>7 DEF RowOk
    <3>9. Set(s, x) /\ (sweep[s].tx # 0 => x.tx # 0) /\ x.status # "NONE" /\ x.status # "CONFIRMED"
      BY <2>2, <3>5, <3>6, <3>7
    <3> QED
      BY <1>1, <1>3, <3>7, <3>8, <3>9, RowSet
  <2>3. CASE UNCHANGED sweep
    BY <1>1, <2>3, RowsStay
  <2>4. \/ Block(s, "ambiguous") \/ Block(s, "provider")
        \/ sent # {} /\ Set(s, [r EXCEPT !.status = "BROADCASTED", !.tx = last])
        \/ UNCHANGED sweep
    BY <1>3 DEF AskProvider
  <2> QED
    BY <2>1, <2>2, <2>3, <2>4, Words
<1>6. fuel' \in 0 .. MaxFaults
  BY <1>1, FaultType DEF AskProvider
<1> QED
  BY <1>5, <1>6, BooksNextRow DEF AskProvider

\* While a deposit is free, so is an id: each sweep has a deposit of its own.
LEMMA FreeId ==
  ASSUME SweepAssumption, Typed, \A i \in Ids : RowOk(i, sweep[i]), NEW d \in Credits, credit[d].sweep = 0
  PROVE  Min({i \in Ids : sweep[i].status = "NONE"}) \in {i \in Ids : sweep[i].status = "NONE"}
<1> DEFINE Free == {i \in Ids : sweep[i].status = "NONE"}
           Taken == {i \in Ids : sweep[i].status # "NONE"}
           Others == Credits \ {d}
           f == [i \in Taken |-> CHOOSE c \in InSweep(i) : TRUE]
<1>1. Ids \subseteq Nat /\ 0 \notin Ids /\ Cardinality(Credits) \in Nat
  BY IdsType
<1>2. Free # {}
  <2> SUFFICES ASSUME Free = {}
               PROVE  FALSE
    OBVIOUS
  <2>1. Taken = Ids
    OBVIOUS
  <2>2. ASSUME NEW i \in Taken
        PROVE  f[i] \in Others /\ credit[f[i]].sweep = i
    <3>1. InSweep(i) # {}
      BY <2>2 DEF RowOk
    <3>2. f[i] \in InSweep(i)
      BY <2>2, <3>1
    <3> QED
      BY <1>1, <3>2 DEF InSweep
  <2>3. f \in Injection(Taken, Others)
    <3>1. f \in [Taken -> Others]
      BY <2>2
    <3>2. \A a, b \in Taken : f[a] = f[b] => a = b
      BY <2>2
    <3> HIDE DEF f
    <3> QED
      BY <3>1, <3>2 DEF Injection, IsInjective
  <2> HIDE DEF f
  <2>4. IsFiniteSet(Credits) /\ IsFiniteSet(Others) /\ Cardinality(Others) = Cardinality(Credits) - 1
    BY FS_RemoveElement DEF SweepAssumption
  <2>5. Cardinality(Taken) <= Cardinality(Others)
    BY <2>3, <2>4, FS_Injection
  <2>6. Cardinality(Ids) = Cardinality(Credits)
    <3>1. Cardinality(1 .. Cardinality(Credits))
            = IF 1 > Cardinality(Credits) THEN 0 ELSE Cardinality(Credits) - 1 + 1
      BY <1>1, FS_Interval
    <3> QED
      BY <1>1, <3>1 DEF Ids
  <2> HIDE DEF Taken, Others, Free
  <2>7. Cardinality(Taken) = Cardinality(Ids)
    BY <2>1
  <2> QED
    BY <1>1, <2>4, <2>5, <2>6, <2>7
<1>3. PICK n \in Free : \A m \in Free : n <= m
  BY <1>1, <1>2, LeastNumber
<1> HIDE DEF Free
<1>4. Min(Free) \in Free
  BY <1>3 DEF Min
<1> QED
  BY <1>4 DEF Free

LEMMA BooksCreates ==
  ASSUME Books, PassCreates
  PROVE  Books'
<1>1. SweepAssumption /\ Typed /\ PassOk /\ HookOk /\ \A i \in Ids : RowOk(i, sweep[i])
  BY DEF Books
<1>2. 0 \notin Ids /\ worker.group \subseteq Credits /\ worker.id = 0
  BY <1>1, IdsType DEF Typed, Pass, PassOk, PassCreates, Handling
<1>3. CASE worker.group = {}
  <2>1. worker' = [worker EXCEPT !.pc = "list"] /\ UNCHANGED <<credit, sweep>>
    BY <1>3 DEF PassCreates
  <2>2. sweep' \in [Ids -> SweepRow] /\ (\A i \in Ids : RowOk(i, sweep'[i])) /\ RowsGo /\ FinalStays
    BY <1>1, <2>1, RowsStay
  <2>3. /\ worker'.pc = "list" /\ worker'.id = 0 /\ worker'.group = worker.group
        /\ worker'.todo = worker.todo /\ worker' \in Pass
    BY <1>1, <1>2, <2>1 DEF Typed, Pass
  <2>4. Typed'
    BY <1>1, <2>1, <2>2, <2>3, FaultType, TypedStep DEF PassCreates
  <2>5. Grown
    BY <2>1, GrownStill DEF PassCreates
  <2>6. TodoOk'
    BY <1>1, <1>2, <2>2, <2>3, <2>5, TodoStep DEF PassOk
  <2>7. PassOk'
    BY <2>3, <2>6 DEF PassOk, TodoOk, Handling
  <2>8. HookOk'
    BY <1>1, <2>2, <2>5, HookStays DEF PassCreates, Grown
  <2> QED
    BY <1>1, <2>2, <2>4, <2>5, <2>7, <2>8, BooksStep
<1>4. CASE worker.group # {}
  <2>1. PICK d \in worker.group : d = CHOOSE c \in worker.group : TRUE
    BY <1>4
  <2>2. d \in Credits /\ credit[d].sweep = 0
    BY <1>1, <1>2, <2>1 DEF PassOk
  <2>3. PICK w \in Purses : w = credit[d].purse
    BY <1>1, <2>2 DEF Typed
  <2>4. PICK s \in Ids : s = Min({i \in Ids : sweep[i].status = "NONE"}) /\ sweep[s].status = "NONE"
    BY <1>1, <2>2, FreeId
  <2>5. PICK C : C = Collected(w)
    OBVIOUS
  <2>6. C \subseteq Credits /\ d \in C /\ \A c \in C : credit[c].purse = w /\ credit[c].sweep = 0
    BY <1>2, <2>2, <2>3, <2>5 DEF Collected
  <2>7. PICK raw : raw = Amount * Cardinality(C)
    OBVIOUS
  <2>8. PICK x : x = [NoRow EXCEPT !.status = "PENDING", !.purse = w, !.raw = raw]
    OBVIOUS
  <2>9. /\ sweep' = [sweep EXCEPT ![s] = x]
        /\ credit' = [c \in Credits |-> IF c \in C THEN [credit[c] EXCEPT !.sweep = s] ELSE credit[c]]
        /\ worker' = [worker EXCEPT !.group = {c \in worker.group : credit[c].purse # w}]
    BY <1>4, <2>1, <2>3, <2>4, <2>5, <2>7, <2>8 DEF PassCreates
  <2>10. InSweep(s) = {}
    BY <1>1, <2>4 DEF RowOk
  <2>11. InSweep(s)' = C
    <3>1. ASSUME NEW c \in Credits
          PROVE  credit'[c].sweep = s <=> c \in C
      <4>1. credit[c].sweep # s
        BY <2>10 DEF InSweep
      <4>2. PICK o \in [purse : Purses, credited : BOOLEAN, sweep : Ids \cup {0}] : o = credit[c]
        BY <1>1 DEF Typed
      <4> QED
        BY <2>9, <4>1, <4>2
    <3> QED
      BY <2>6, <3>1 DEF InSweep
  <2>12. \A i \in Ids \ {s} : InSweep(i)' = InSweep(i)
    <3>1. ASSUME NEW c \in Credits, NEW i \in Ids \ {s}
          PROVE  credit'[c].sweep = i <=> credit[c].sweep = i
      <4>1. PICK o \in [purse : Purses, credited : BOOLEAN, sweep : Ids \cup {0}] : o = credit[c]
        BY <1>1 DEF Typed
      <4> QED
        BY <1>2, <2>6, <2>9, <4>1
    <3> QED
      BY <3>1 DEF InSweep
  <2>13. /\ credit' \in [Credits -> [purse : Purses, credited : BOOLEAN, sweep : Ids \cup {0}]]
         /\ \A c \in Credits : credit'[c].purse = credit[c].purse
    <3>1. ASSUME NEW c \in Credits
          PROVE  /\ credit'[c] \in [purse : Purses, credited : BOOLEAN, sweep : Ids \cup {0}]
                 /\ credit'[c].purse = credit[c].purse
      <4>1. PICK o \in [purse : Purses, credited : BOOLEAN, sweep : Ids \cup {0}] : o = credit[c]
        BY <1>1 DEF Typed
      <4> QED
        BY <2>9, <4>1
    <3>2. credit' = [c \in Credits |-> credit'[c]]
      BY <2>9
    <3> QED
      BY <3>1, <3>2
  <2>14. raw \in Nat \ {0} /\ Limit(s)' = raw
    <3>1. IsFiniteSet(C)
      BY <1>1, <2>6, FS_Subset DEF SweepAssumption
    <3>2. Cardinality(C) \in Nat \ {0}
      BY <2>6, <3>1, FS_CardinalityType, FS_EmptySet
    <3>3. raw \in Nat \ {0}
      BY <1>1, <2>7, <3>2, ConstantTypes
    <3> QED
      BY <2>7, <2>11, <3>3 DEF Limit
  <2>15. /\ x \in SweepRow /\ x.status = "PENDING" /\ x.purse = w /\ x.raw = raw /\ x.tx = 0
         /\ NoRow \in SweepRow
    <3>1. NoRow \in SweepRow /\ NoRow.tx = 0
      BY <1>1, ConstantTypes DEF NoRow
    <3> QED
      BY <2>8, <2>14, <3>1, Words DEF SweepRow
  <2>16. sweep' \in [Ids -> SweepRow] /\ sweep'[s] = x /\ \A i \in Ids \ {s} : sweep'[i] = sweep[i]
    BY <1>1, <2>9, <2>15 DEF Typed
  <2>17. \A i \in Ids : RowOk(i, sweep[i])'
    <3>1. RowOk(s, x)'
      <4>1. \A c \in C : credit'[c].purse = w
        BY <2>6, <2>13
      <4>2. (\A c \in InSweep(s) : credit[c].purse = x.purse)'
        BY <2>11, <2>15, <4>1
      <4>3. InSweep(s)' # {}
        BY <2>6, <2>11
      <4>4. x.raw \in 1 .. Limit(s)'
        BY <2>14, <2>15
      <4> QED
        BY <2>15, <4>2, <4>3, <4>4 DEF RowOk
    <3>2. ASSUME NEW i \in Ids \ {s}
          PROVE  RowOk(i, sweep[i])'
      <4>1. PICK r : r = sweep[i]
        OBVIOUS
      <4>2. RowOk(i, r)
        BY <1>1, <4>1
      <4>3. InSweep(i)' = InSweep(i) /\ Limit(i)' = Limit(i) /\ InSweep(i) \subseteq Credits
        BY <2>12 DEF Limit, InSweep
      <4>4. transfer' = transfer
        BY DEF PassCreates
      <4>5. RowOk(i, r)'
        BY <2>13, <4>2, <4>3, <4>4 DEF RowOk, Sends
      <4> QED
        BY <2>16, <4>1, <4>5 DEF RowOk
    <3> QED
      BY <2>16, <3>1, <3>2 DEF RowOk
  <2>18. /\ worker'.pc = worker.pc /\ worker'.id = worker.id /\ worker'.todo = worker.todo
         /\ worker'.group = {c \in worker.group : credit[c].purse # w} /\ worker' \in Pass
    <3>1. {c \in worker.group : credit[c].purse # w} \in SUBSET Credits
      BY <1>2
    <3> QED
      BY <1>1, <2>9, <3>1 DEF Typed, Pass
  <2>19. Typed'
    BY <1>1, <2>13, <2>16, <2>18 DEF Typed, PassCreates, Ids
  <2>20. ASSUME NEW y \in worker.todo
         PROVE  Listed(y[1], y[2])'
    <3>1. Listed(y[1], y[2]) /\ y[1] # s
      BY <1>1, <2>4 DEF PassOk, Listed
    <3>2. PICK i \in Ids \ {s} : i = y[1]
      BY <3>1 DEF Listed
    <3>3. Limit(i)' = Limit(i) /\ sweep'[i] = sweep[i] /\ transfer' = transfer
      BY <2>12, <2>16 DEF Limit, PassCreates
    <3> QED
      BY <3>1, <3>2, <3>3 DEF Listed, Ids
  <2>21. \A c \in worker'.group : credit'[c].sweep = 0
    <3>1. ASSUME NEW c \in worker'.group
          PROVE  credit'[c].sweep = 0
      <4>1. c \in worker.group /\ c \in Credits /\ c \notin C
        BY <1>2, <2>6, <2>18, <3>1
      <4> QED
        BY <1>1, <2>9, <4>1 DEF PassOk
    <3> QED
      BY <3>1
  <2>22. PassOk'
    <3>1. (\A y \in worker.todo : Listed(y[1], y[2]) /\ y[1] # worker.id)'
      BY <1>1, <2>18, <2>20 DEF PassOk
    <3>2. worker.pc = "create"
      BY DEF PassCreates
    <3> QED
      BY <1>1, <1>2, <2>18, <2>21, <3>1, <3>2 DEF PassOk, Handling
  <2>23. HookOk'
    <3>1. hook' = hook /\ transfer' = transfer
      BY DEF PassCreates
    <3>2. hook.pc = "write" => hook.id \in Ids \ {s}
      BY <1>1, <2>4 DEF HookOk
    <3>3. hook.pc = "write" => sweep'[hook.id] = sweep[hook.id]
      BY <2>16, <3>2
    <3> QED
      BY <1>1, <3>1, <3>3 DEF HookOk, Ids
  <2>24. (\A i \in Ids : RowOk(i, sweep[i]))'
    BY <2>17 DEF Ids
  <2>25. SweepAssumption'
    BY <1>1 DEF SweepAssumption
  <2> QED
    BY <2>19, <2>22, <2>23, <2>24, <2>25 DEF Books
<1> QED
  BY <1>3, <1>4

-----------------------------------------------------------------------------
(* Topping up and sending *)

\* A pass goes on after writing the row of its sweep, or without.
LEMMA BooksGoesOn ==
  ASSUME Books, worker.pc \in Handling, worker' \in Pass, worker'.pc \in Handling \ {"confirm", "gas"},
         worker'.group = worker.group, worker'.todo = worker.todo, worker'.id = worker.id,
         worker'.row.purse = worker.row.purse, worker'.row.status = worker.row.status,
         worker'.row.tx = worker.row.tx, worker'.row.raw \in 1 .. Limit(worker.id),
         worker'.pc \in {"fund", "send"} => worker'.att # 0 /\ worker'.value \in Nat \ {0},
         worker'.pc = "send" => worker'.value <= Limit(worker.id),
         worker'.pc = "funded" => worker'.att # 0,
         worker'.pc = "sent" => worker'.att # 0 /\ <<"sweep", worker.id, worker'.att>> \in DOMAIN transfer',
         Typed', Grown, \A i \in Ids : RowOk(i, sweep'[i]), RowsGo, FinalStays,
         sweep'[worker.id].status # "CONFIRMED", hook' = hook
  PROVE  Books'
<1>1. SweepAssumption /\ Typed /\ PassOk /\ HookOk
  BY DEF Books
<1>2. PassOk'
  BY <1>1, PassGoesOn
<1>3. HookOk'
  BY <1>1, HookStays DEF Grown
<1> QED
  BY <1>1, <1>2, <1>3, BooksStep

\* Nothing of what is asked for is missing, or something is.
LEMMA MissingType ==
  ASSUME Books, NEW f, NEW w \in Purses, NEW raw \in Nat
  PROVE  Missing(f, w, raw) \in Int /\ wallet[w].tok \in Nat /\ wallet[w].gas \in Nat
<1>1. PICK b \in [tok : Nat, gas : Nat] : b = wallet[w]
  BY DEF Books, Typed
<1> QED
  BY <1>1, ConstantTypes DEF Books, Missing

LEMMA BooksCheckGas ==
  ASSUME Books, CheckGas
  PROVE  Books'
<1>1. SweepAssumption /\ Typed /\ PassOk /\ HookOk /\ \A i \in Ids : RowOk(i, sweep[i])
  BY DEF Books
<1>2. worker.pc \in Handling
  BY DEF CheckGas, Handling
<1>3. PICK s \in Ids, r \in SweepRow :
        s = worker.id /\ r = sweep[s] /\ RowOk(s, r) /\ r.status \notin {"NONE", "CONFIRMED"}
  BY <1>2, InHand
<1>4. PICK o \in SweepRow : o = worker.row /\ o.purse \in Purses /\ o.raw \in 1 .. Limit(s)
  BY <1>2, <1>3, InHand
<1>5. PICK w \in Purses : w = o.purse
  BY <1>4
<1>f. PICK f : f = family[w]
  OBVIOUS
<1>6. PICK raw : raw = IF f = "tron" THEN Capped(o.raw, wallet[w].tok) ELSE o.raw
  OBVIOUS
<1>7. Limit(s) \in Nat /\ wallet[w].tok \in Nat
  BY <1>1, LimitType, MissingType
<1>8. raw \in 1 .. Limit(s) \/ (f = "tron" /\ wallet[w].tok = 0)
  BY <1>4, <1>6, <1>7 DEF Capped
<1>9. fuel' \in 0 .. MaxFaults /\ fuel' = fuel
  BY <1>1, FaultType DEF CheckGas
<1>10. UNCHANGED <<credit, family, wallet, transfer, hook, putBack>> /\ Grown
  BY GrownStill DEF CheckGas
<1>11. PICK gasTx : gasTx = IF o.gasTx = 0 THEN "none" ELSE transfer[<<"gas", s, o.gasTx>>].state
  OBVIOUS
<1>12. \/ (\E why \in Causes : Block(s, why)) /\ NextRow
       \/ UNCHANGED sweep /\ NextRow
       \/ /\ ~(f = "tron" /\ wallet[w].tok = 0)
          /\ Set(s, [r EXCEPT !.status = "PENDING", !.raw = raw, !.why = "NONE"]) /\ NextRow
       \/ /\ ~(f = "tron" /\ wallet[w].tok = 0)
          /\ Set(s, [r EXCEPT !.raw = IF f = "tron" THEN raw ELSE r.raw])
          /\ worker' = [worker EXCEPT !.pc = "mark", !.row = [o EXCEPT !.raw = raw]]
       \/ /\ ~(f = "tron" /\ wallet[w].tok = 0) /\ ~(Missing(f, w, raw) <= 0)
          /\ \E status \in {r.status, "BLOCKED"}, why \in {r.why, "gas"} :
               Set(s, [r EXCEPT !.attempts = r.attempts + 1, !.raw = IF f = "tron" THEN raw ELSE r.raw,
                                !.status = status, !.why = why])
          /\ worker' = [worker EXCEPT !.pc = "fund", !.att = r.attempts + 1, !.value = Missing(f, w, raw)]
  <2> DEFINE waits == o.status = "FUNDING_GAS" /\ f # "sol"
  <2>0. "empty" \in Causes /\ "gas" \in Causes
    BY Words
  <2>1. CASE f = "tron" /\ wallet[w].tok = 0
    <3>1. Block(s, "empty") /\ NextRow
      BY <1>3, <1>4, <1>5, <1>f, <2>1 DEF CheckGas
    <3> QED
      BY <2>0, <3>1
  <2>2. CASE ~(f = "tron" /\ wallet[w].tok = 0) /\ Missing(f, w, raw) <= 0
    <3>1. /\ Set(s, [r EXCEPT !.raw = IF f = "tron" THEN raw ELSE r.raw])
          /\ worker' = [worker EXCEPT !.pc = "mark", !.row.raw = raw]
      BY <1>3, <1>4, <1>5, <1>f, <1>6, <2>2 DEF CheckGas
    <3> QED
      BY <1>4, <2>2, <3>1
  <2>3. CASE /\ ~(f = "tron" /\ wallet[w].tok = 0) /\ ~(Missing(f, w, raw) <= 0)
             /\ waits /\ gasTx = "reverted" /\ (f = "tron" \/ wallet[w].gas = 0)
    <3>1. Block(s, "gas") /\ NextRow
      BY <1>3, <1>4, <1>5, <1>f, <1>6, <1>11, <2>3 DEF CheckGas
    <3> QED
      BY <2>0, <3>1
  <2>4. CASE /\ ~(f = "tron" /\ wallet[w].tok = 0) /\ ~(Missing(f, w, raw) <= 0)
             /\ ~(waits /\ gasTx = "reverted" /\ (f = "tron" \/ wallet[w].gas = 0))
             /\ waits /\ f = "tron" /\ gasTx = "mined"
    BY <1>3, <1>4, <1>5, <1>f, <1>6, <1>11, <2>4 DEF CheckGas
  <2>5. CASE /\ ~(f = "tron" /\ wallet[w].tok = 0) /\ ~(Missing(f, w, raw) <= 0)
             /\ ~(waits /\ gasTx = "reverted" /\ (f = "tron" \/ wallet[w].gas = 0))
             /\ ~(waits /\ f = "tron" /\ gasTx = "mined") /\ ~TopsUp(f, o, w)
    BY <1>3, <1>4, <1>5, <1>f, <1>6, <1>11, <2>5 DEF CheckGas
  <2>6. CASE /\ ~(f = "tron" /\ wallet[w].tok = 0) /\ ~(Missing(f, w, raw) <= 0)
             /\ ~(waits /\ gasTx = "reverted" /\ (f = "tron" \/ wallet[w].gas = 0))
             /\ ~(waits /\ f = "tron" /\ gasTx = "mined") /\ TopsUp(f, o, w)
    <3>1. /\ Set(s, [r EXCEPT !.attempts = r.attempts + 1, !.raw = IF f = "tron" THEN raw ELSE r.raw,
                              !.status = IF waits /\ gasTx = "reverted" THEN "BLOCKED" ELSE r.status,
                              !.why = IF waits /\ gasTx = "reverted" THEN "gas" ELSE r.why])
          /\ worker' = [worker EXCEPT !.pc = "fund", !.att = r.attempts + 1, !.value = Missing(f, w, raw)]
      BY <1>3, <1>4, <1>5, <1>f, <1>6, <1>11, <2>6 DEF CheckGas
    <3>2. PICK status \in {r.status, "BLOCKED"} :
            status = IF waits /\ gasTx = "reverted" THEN "BLOCKED" ELSE r.status
      OBVIOUS
    <3>3. PICK why \in {r.why, "gas"} :
            why = IF waits /\ gasTx = "reverted" THEN "gas" ELSE r.why
      OBVIOUS
    <3> QED
      BY <2>6, <3>1, <3>2, <3>3
  <2> HIDE DEF waits
  <2> QED
    BY <2>1, <2>2, <2>3, <2>4, <2>5, <2>6
<1>14. ASSUME NEW why \in Causes, Block(s, why), NextRow
       PROVE  Books'
  BY <1>1, <1>3, <1>9, <1>10, <1>14, Blocked, BooksNextRow
<1>15. ASSUME UNCHANGED sweep, NextRow
       PROVE  Books'
  BY <1>1, <1>9, <1>10, <1>15, RowsStay, BooksNextRow
\* What is written of the row.
<1>16. ASSUME NEW x \in SweepRow, Set(s, x), x.purse = r.purse, x.tx = r.tx,
              x.status \in {"PENDING", "BLOCKED", r.status}, x.raw = r.raw \/ x.raw \in 1 .. Limit(s)
       PROVE  /\ sweep' \in [Ids -> SweepRow] /\ (\A i \in Ids : RowOk(i, sweep'[i])) /\ RowsGo /\ FinalStays
              /\ sweep'[s].status # "CONFIRMED"
  <2>1. RowOk(s, x)
    BY <1>3, <1>16, PlainRow DEF Moving
  <2>2. x.status \notin {"NONE", "CONFIRMED"}
    BY <1>3, <1>16
  <2> QED
    BY <1>1, <1>3, <1>16, <2>1, <2>2, RowSet
<1>17. ASSUME NEW x \in SweepRow, Set(s, x), x.purse = r.purse, x.tx = r.tx,
              x.status \in {"PENDING", "BLOCKED", r.status}, x.raw = r.raw \/ x.raw \in 1 .. Limit(s),
              worker' \in Pass, worker'.pc \in {"mark", "fund"}, worker'.group = worker.group,
              worker'.todo = worker.todo, worker'.id = worker.id,
              worker'.row.purse = o.purse, worker'.row.status = o.status, worker'.row.tx = o.tx,
              worker'.row.raw \in 1 .. Limit(s),
              worker'.pc = "fund" => worker'.att # 0 /\ worker'.value \in Nat \ {0}
       PROVE  Books'
  <2>1. /\ sweep' \in [Ids -> SweepRow] /\ (\A i \in Ids : RowOk(i, sweep'[i])) /\ RowsGo /\ FinalStays
        /\ sweep'[s].status # "CONFIRMED"
    BY <1>16, <1>17
  <2>2. Typed'
    BY <1>1, <1>9, <1>10, <1>17, <2>1, TypedStep
  <2>3. worker'.pc \in Handling \ {"confirm", "gas"}
    BY <1>17 DEF Handling
  <2> QED
    BY <1>2, <1>3, <1>4, <1>10, <1>17, <2>1, <2>2, <2>3, BooksGoesOn
<1>18. CASE ~(f = "tron" /\ wallet[w].tok = 0)
  <2>1. raw \in 1 .. Limit(s) /\ raw \in Nat \ {0}
    BY <1>7, <1>8, <1>18
  <2>2. r.raw \in Nat /\ r.attempts \in Nat /\ r.status \in Statuses
    BY DEF SweepRow
  <2>3. ASSUME Set(s, [r EXCEPT !.status = "PENDING", !.raw = raw, !.why = "NONE"]), NextRow
        PROVE  Books'
    <3>1. PICK x : x = [r EXCEPT !.status = "PENDING", !.raw = raw, !.why = "NONE"]
      OBVIOUS
    <3>2. x \in SweepRow /\ x.purse = r.purse /\ x.tx = r.tx /\ x.raw = raw /\ x.status = "PENDING"
      BY <2>1, <3>1, Words DEF SweepRow
    <3>3. /\ sweep' \in [Ids -> SweepRow] /\ (\A i \in Ids : RowOk(i, sweep'[i])) /\ RowsGo /\ FinalStays
      BY <1>16, <2>1, <2>3, <3>1, <3>2
    <3> QED
      BY <1>9, <1>10, <2>3, <3>3, BooksNextRow
  <2>4. ASSUME Set(s, [r EXCEPT !.raw = IF f = "tron" THEN raw ELSE r.raw]),
               worker' = [worker EXCEPT !.pc = "mark", !.row = [o EXCEPT !.raw = raw]]
        PROVE  Books'
    <3>1. PICK x : x = [r EXCEPT !.raw = IF f = "tron" THEN raw ELSE r.raw]
      OBVIOUS
    <3>2. /\ x \in SweepRow /\ x.purse = r.purse /\ x.tx = r.tx /\ x.raw \in {raw, r.raw}
          /\ x.status = r.status
      BY <2>1, <2>2, <3>1 DEF SweepRow
    <3>3. PICK y : y = [o EXCEPT !.raw = raw]
      OBVIOUS
    <3>4. y \in SweepRow /\ y.raw = raw
      BY <2>1, <3>3 DEF SweepRow
    <3>5. worker \in Pass
      BY <1>1 DEF Typed
    <3>6. worker' = [worker EXCEPT !.pc = "mark", !.row = y]
      BY <2>4, <3>3
    <3>7. /\ worker' \in Pass /\ worker'.pc = "mark" /\ worker'.group = worker.group
          /\ worker'.todo = worker.todo /\ worker'.id = worker.id /\ worker'.row = y
      BY <3>4, <3>5, <3>6 DEF Pass, Handling
    <3>8. y.purse = o.purse /\ y.status = o.status /\ y.tx = o.tx
      BY <3>3 DEF SweepRow
    <3>9. Set(s, x)
      BY <2>4, <3>1
    <3> QED
      BY <1>17, <2>1, <3>2, <3>4, <3>7, <3>8, <3>9
  <2>5. ASSUME NEW status \in {r.status, "BLOCKED"}, NEW why \in {r.why, "gas"}, ~(Missing(f, w, raw) <= 0),
               Set(s, [r EXCEPT !.attempts = r.attempts + 1, !.raw = IF f = "tron" THEN raw ELSE r.raw,
                                !.status = status, !.why = why]),
               worker' = [worker EXCEPT !.pc = "fund", !.att = r.attempts + 1, !.value = Missing(f, w, raw)]
        PROVE  Books'
    <3>0. PICK q \in Nat : q = (IF f = "tron" THEN raw ELSE r.raw) /\ q \in {raw, r.raw}
      BY <2>1, <2>2
    <3>1. PICK x : x = [r EXCEPT !.attempts = r.attempts + 1, !.raw = q, !.status = status, !.why = why]
      OBVIOUS
    <3>2. /\ x \in SweepRow /\ x.purse = r.purse /\ x.tx = r.tx /\ x.raw = q /\ x.status = status
      <4>1. status \in Statuses /\ r.attempts + 1 \in Nat /\ why \in Causes
        BY <2>2, Words DEF SweepRow
      <4> QED
        BY <3>1, <4>1 DEF SweepRow
    <3>9. Set(s, x)
      BY <2>5, <3>0, <3>1
    <3>3. PICK value \in Int : value = Missing(f, w, raw) /\ value > 0
      BY <2>1, <2>5, MissingType
    <3>4. PICK att \in Nat : att = r.attempts + 1 /\ att # 0
      BY <2>2
    <3>5. worker \in Pass
      BY <1>1 DEF Typed
    <3>6. worker' = [worker EXCEPT !.pc = "fund", !.att = att, !.value = value]
      BY <2>5, <3>3, <3>4
    <3>7. /\ worker' \in Pass /\ worker'.pc = "fund" /\ worker'.group = worker.group
          /\ worker'.todo = worker.todo /\ worker'.id = worker.id /\ worker'.row = worker.row
          /\ worker'.att = att /\ worker'.value = value
      BY <3>5, <3>6 DEF Pass, Handling
    <3>8. x.status \in {"PENDING", "BLOCKED", r.status}
      BY <2>5, <3>2
    <3> QED
      BY <1>4, <1>17, <2>1, <3>0, <3>2, <3>3, <3>4, <3>7, <3>8, <3>9
  <2> QED
    BY <1>12, <1>14, <1>15, <2>3, <2>4, <2>5
<1>19. CASE f = "tron" /\ wallet[w].tok = 0
  BY <1>12, <1>14, <1>15, <1>19
<1> QED
  BY <1>18, <1>19

LEMMA TransferredStep ==
  ASSUME Typed, NEW kind \in {"gas", "sweep"}, Transferred(kind), worker.id \in Ids,
         worker.att \in Nat \ {0}, worker.value \in Nat \ {0}
  PROVE  /\ DOMAIN transfer' = DOMAIN transfer \cup {<<kind, worker.id, worker.att>>}
         /\ transfer'[<<kind, worker.id, worker.att>>] = [value |-> worker.value, state |-> "sent"]
         /\ \A t \in DOMAIN transfer : t # <<kind, worker.id, worker.att>> => transfer'[t] = transfer[t]
         /\ DOMAIN transfer' \subseteq {"gas", "sweep"} \X Ids \X (Nat \ {0})
         /\ IsFiniteSet(DOMAIN transfer')
         /\ \A t \in DOMAIN transfer' : transfer'[t] \in Paid
<1> DEFINE n == <<kind, worker.id, worker.att>>
           D == DOMAIN transfer \cup {n}
<1>1. transfer' = [t \in D |-> IF t = n THEN [value |-> worker.value, state |-> "sent"] ELSE transfer[t]]
  BY DEF Transferred
<1>2. DOMAIN transfer' = D
  BY <1>1
<1>3. transfer'[n] = [value |-> worker.value, state |-> "sent"]
  BY <1>1
<1>4. \A t \in DOMAIN transfer : t # n => transfer'[t] = transfer[t]
  BY <1>1
<1>5. n \in {"gas", "sweep"} \X Ids \X (Nat \ {0})
  OBVIOUS
<1>6. IsFiniteSet(D)
  BY FS_AddElement DEF Typed
<1>7. D \subseteq {"gas", "sweep"} \X Ids \X (Nat \ {0})
  BY <1>5 DEF Typed
<1>8. transfer'[n] \in Paid
  BY <1>3 DEF Paid
<1>9. \A t \in D : transfer'[t] \in Paid
  <2> HIDE DEF n
  <2> QED
    BY <1>4, <1>8 DEF Typed
<1> QED
  BY <1>2, <1>3, <1>4, <1>6, <1>7, <1>9

LEMMA GrownBy ==
  ASSUME Typed, NEW kind \in {"gas", "sweep"}, Transferred(kind), worker.id \in Ids,
         worker.att \in Nat \ {0}, worker.value \in Nat \ {0}, credit' = credit,
         sweep'[worker.id].status \notin {"NONE", "CONFIRMED"}
  PROVE  Grown
<1>1. PICK n : n = <<kind, worker.id, worker.att>>
  OBVIOUS
<1>3. n[2] = worker.id
  BY <1>1
<1>2. /\ DOMAIN transfer' = DOMAIN transfer \cup {n}
      /\ \A t \in DOMAIN transfer : t # n => transfer'[t] = transfer[t]
  BY <1>1, TransferredStep
<1> QED
  BY <1>2, <1>3 DEF Grown

\* A call that is sent, or lost on the way.
MaySend(kind) == Transferred(kind) \/ UNCHANGED transfer

LEMMA MaySendStep ==
  ASSUME Typed, NEW kind \in {"gas", "sweep"}, MaySend(kind), worker.id \in Ids,
         worker.att \in Nat \ {0}, worker.value \in Nat \ {0}, credit' = credit,
         sweep'[worker.id].status \notin {"NONE", "CONFIRMED"}
  PROVE  /\ Grown
         /\ DOMAIN transfer' \subseteq {"gas", "sweep"} \X Ids \X (Nat \ {0})
         /\ IsFiniteSet(DOMAIN transfer')
         /\ \A t \in DOMAIN transfer' : transfer'[t] \in Paid
<1>1. CASE Transferred(kind)
  BY <1>1, GrownBy, TransferredStep
<1>2. CASE UNCHANGED transfer
  BY <1>2, GrownStill DEF Typed
<1> QED
  BY <1>1, <1>2 DEF MaySend

\* The types after a call.
LEMMA TypedSend ==
  ASSUME Typed, sweep' \in [Ids -> SweepRow], worker' \in Pass, fuel' \in 0 .. MaxFaults,
         UNCHANGED <<credit, family, wallet, hook, putBack>>,
         DOMAIN transfer' \subseteq {"gas", "sweep"} \X Ids \X (Nat \ {0}),
         IsFiniteSet(DOMAIN transfer'), \A t \in DOMAIN transfer' : transfer'[t] \in Paid
  PROVE  Typed'
BY DEF Typed, Ids

\* An attempt after which the pass goes on with the next row.
LEMMA BooksAttempt ==
  ASSUME Books, worker.pc \in {"fund", "send"}, NextRow, NEW kind \in {"gas", "sweep"}, MaySend(kind),
         UNCHANGED <<credit, family, wallet, hook, putBack>>, fuel' \in 0 .. MaxFaults,
         sweep' \in [Ids -> SweepRow], \A i \in Ids : RowOk(i, sweep'[i]), RowsGo, FinalStays,
         sweep'[worker.id].status \notin {"NONE", "CONFIRMED"}
  PROVE  Books'
<1>1. SweepAssumption /\ Typed /\ PassOk /\ HookOk
  BY DEF Books
<1>2. worker.id \in Ids /\ worker.att \in Nat \ {0} /\ worker.value \in Nat \ {0}
  BY <1>1, InHand DEF PassOk, Handling, Typed, Pass
<1>3. /\ Grown
      /\ DOMAIN transfer' \subseteq {"gas", "sweep"} \X Ids \X (Nat \ {0})
      /\ IsFiniteSet(DOMAIN transfer')
      /\ \A t \in DOMAIN transfer' : transfer'[t] \in Paid
  BY <1>1, <1>2, MaySendStep
<1>4. Typed'
  BY <1>1, <1>3, NextRowType, TypedSend
<1>5. PassOk'
  BY <1>1, <1>3, PassMoves, IdsType
<1>6. HookOk'
  BY <1>1, <1>3, HookStays DEF Grown
<1> QED
  BY <1>1, <1>3, <1>4, <1>5, <1>6, BooksStep

\* A call that is answered.
LEMMA BooksAnswered ==
  ASSUME Books, NEW kind \in {"gas", "sweep"}, NEW pc \in {"funded", "sent"},
         worker.pc = IF kind = "gas" THEN "fund" ELSE "send", pc = IF kind = "gas" THEN "funded" ELSE "sent",
         Transferred(kind), worker' = [worker EXCEPT !.pc = pc],
         UNCHANGED <<credit, family, sweep, wallet, hook, putBack, fuel>>
  PROVE  Books'
<1>1. SweepAssumption /\ Typed /\ PassOk /\ HookOk /\ \A i \in Ids : RowOk(i, sweep[i])
  BY DEF Books
<1>2. worker.pc \in {"fund", "send"} /\ worker.pc \in Handling
  BY DEF Handling
<1>3. worker \in Pass /\ worker.att \in Nat \ {0} /\ worker.value \in Nat \ {0}
  BY <1>1, <1>2 DEF PassOk, Typed, Pass
<1>4. /\ worker' \in Pass /\ worker'.pc = pc /\ worker'.group = worker.group
      /\ worker'.todo = worker.todo /\ worker'.id = worker.id /\ worker'.row = worker.row
      /\ worker'.att = worker.att
  BY <1>3 DEF Pass, Handling
<1>5. /\ worker.id \in Ids /\ sweep'[worker.id].status \notin {"NONE", "CONFIRMED"}
      /\ worker.row.raw \in 1 .. Limit(worker.id)
  BY <1>2, InHand
<1>6. /\ Grown
      /\ DOMAIN transfer' \subseteq {"gas", "sweep"} \X Ids \X (Nat \ {0})
      /\ IsFiniteSet(DOMAIN transfer')
      /\ \A t \in DOMAIN transfer' : transfer'[t] \in Paid
  BY <1>1, <1>3, <1>5, MaySendStep DEF MaySend
<1>7. sweep' \in [Ids -> SweepRow] /\ (\A i \in Ids : RowOk(i, sweep'[i])) /\ RowsGo /\ FinalStays
  BY <1>1, RowsStay
<1>8. Typed'
  BY <1>1, <1>4, <1>6, <1>7, FaultType, TypedSend
<1>9. pc = "sent" => <<"sweep", worker.id, worker.att>> \in DOMAIN transfer'
  BY <1>1, <1>3, <1>5, TransferredStep
<1>10. pc \in Handling \ {"confirm", "gas"} /\ pc \notin {"fund", "send"}
  BY DEF Handling
<1> QED
  BY <1>2, <1>3, <1>4, <1>5, <1>6, <1>7, <1>8, <1>9, <1>10, BooksGoesOn

LEMMA BooksFund ==
  ASSUME Books, Fund
  PROVE  Books'
<1>1. SweepAssumption /\ Typed /\ \A i \in Ids : RowOk(i, sweep[i])
  BY DEF Books
<1>2. worker.pc = "fund" /\ worker.pc \in Handling
  BY DEF Fund, Handling
<1>3. worker.id \in Ids /\ sweep[worker.id].status \notin {"NONE", "CONFIRMED"}
  BY <1>2, InHand
<1>4. CASE Transferred("gas") /\ worker' = [worker EXCEPT !.pc = "funded"] /\ UNCHANGED <<sweep, fuel>>
  BY <1>2, <1>4, BooksAnswered DEF Fund
<1>5. CASE SFault /\ NextRow /\ MaySend("gas") /\ UNCHANGED sweep
  BY <1>1, <1>2, <1>3, <1>5, RowsStay, FaultType, BooksAttempt DEF Fund
<1>6. CASE SFault /\ NextRow /\ UNCHANGED transfer /\ Block(worker.id, "policy")
  <2>1. "policy" \in Causes
    BY Words
  <2>2. /\ sweep' \in [Ids -> SweepRow] /\ (\A i \in Ids : RowOk(i, sweep'[i])) /\ RowsGo /\ FinalStays
        /\ sweep'[worker.id].status = "BLOCKED"
    BY <1>1, <1>3, <1>6, <2>1, Blocked
  <2> QED
    BY <1>1, <1>2, <1>6, <2>2, FaultType, BooksAttempt DEF Fund, MaySend
<1> QED
  BY <1>4, <1>5, <1>6 DEF Fund, MaySend

LEMMA BooksFunded ==
  ASSUME Books, Funded
  PROVE  Books'
<1>1. SweepAssumption /\ Typed /\ PassOk /\ \A i \in Ids : RowOk(i, sweep[i])
  BY DEF Books
<1>2. worker.pc \in Handling
  BY DEF Funded, Handling
<1>3. PICK s \in Ids, r \in SweepRow :
        s = worker.id /\ r = sweep[s] /\ RowOk(s, r) /\ r.status \notin {"NONE", "CONFIRMED"}
  BY <1>2, InHand
<1>4. PICK att \in Nat : att = worker.att
  BY <1>1 DEF Typed, Pass
<1>5. PICK x : x = [r EXCEPT !.status = "FUNDING_GAS", !.gasTx = att]
  OBVIOUS
<1>6. x \in SweepRow /\ x.purse = r.purse /\ x.tx = r.tx /\ x.raw = r.raw /\ x.status = "FUNDING_GAS"
  BY <1>5, Words DEF SweepRow
<1>7. RowOk(s, x)
  BY <1>3, <1>6, PlainRow DEF Moving
<1>8. Set(s, x)
  BY <1>3, <1>4, <1>5 DEF Funded
<1>9. sweep' \in [Ids -> SweepRow] /\ (\A i \in Ids : RowOk(i, sweep'[i])) /\ RowsGo /\ FinalStays
  BY <1>1, <1>3, <1>6, <1>7, <1>8, RowSet
<1> QED
  BY <1>1, <1>9, FaultType, BooksNextRow DEF Funded

LEMMA BooksMark ==
  ASSUME Books, Mark
  PROVE  Books'
<1>1. SweepAssumption /\ Typed /\ PassOk /\ \A i \in Ids : RowOk(i, sweep[i])
  BY DEF Books
<1>2. worker.pc \in Handling
  BY DEF Mark, Handling
<1>3. PICK s \in Ids, r \in SweepRow :
        s = worker.id /\ r = sweep[s] /\ RowOk(s, r) /\ r.status \notin {"NONE", "CONFIRMED"}
  BY <1>2, InHand
<1>4. PICK raw \in 1 .. Limit(s) : raw = worker.row.raw
  BY <1>2, <1>3, InHand
<1>5. PICK att \in Nat : att = r.attempts + 1 /\ att # 0
  BY DEF SweepRow
<1>6. PICK x : x = [r EXCEPT !.status = "BROADCASTING", !.attempts = att]
  OBVIOUS
<1>7. x \in SweepRow /\ x.purse = r.purse /\ x.tx = r.tx /\ x.raw = r.raw /\ x.status = "BROADCASTING"
  BY <1>6, Words DEF SweepRow
<1>8. RowOk(s, x)
  BY <1>3, <1>7, PlainRow DEF Moving
<1>9. Set(s, x)
  BY <1>3, <1>5, <1>6 DEF Mark
<1>10. /\ sweep' \in [Ids -> SweepRow] /\ (\A i \in Ids : RowOk(i, sweep'[i])) /\ RowsGo /\ FinalStays
       /\ sweep'[s].status # "CONFIRMED"
  BY <1>1, <1>3, <1>7, <1>8, <1>9, RowSet
<1>11. worker' = [worker EXCEPT !.pc = "send", !.att = att, !.value = raw]
  BY <1>3, <1>4, <1>5 DEF Mark
<1>12. worker \in Pass /\ raw \in Nat \ {0} /\ Limit(s) \in Nat
  <2>1. Limit(s) \in Nat
    BY <1>1, LimitType
  <2> QED
    BY <1>1, <2>1 DEF Typed
<1>v. PICK value \in Nat \ {0} : value = raw /\ value <= Limit(s)
  BY <1>12
<1>13. /\ worker' \in Pass /\ worker'.pc = "send" /\ worker'.group = worker.group
       /\ worker'.todo = worker.todo /\ worker'.id = worker.id /\ worker'.row = worker.row
       /\ worker'.att = att /\ worker'.value = value
  <2>1. worker' = [worker EXCEPT !.pc = "send", !.att = att, !.value = value]
    BY <1>11, <1>v
  <2>2. worker \in Pass /\ value \in Int
    BY <1>12
  <2> QED
    BY <2>1, <2>2 DEF Pass, Handling
<1>14. Typed' /\ Grown
  BY <1>1, <1>10, <1>13, FaultType, TypedStep, GrownStill DEF Mark
<1>15. "send" \in Handling \ {"confirm", "gas"}
  BY DEF Handling
<1> QED
  BY <1>2, <1>3, <1>4, <1>5, <1>10, <1>v, <1>13, <1>14, <1>15, BooksGoesOn DEF Mark

LEMMA BooksLess ==
  ASSUME Books, LessThanAsked
  PROVE  Books'
<1>1. SweepAssumption /\ Typed /\ PassOk /\ \A i \in Ids : RowOk(i, sweep[i])
  BY DEF Books
<1>2. worker.pc \in Handling /\ worker.pc = "send"
  BY DEF LessThanAsked, Handling
<1>3. PICK s \in Ids, r \in SweepRow :
        s = worker.id /\ r = sweep[s] /\ RowOk(s, r) /\ r.status \notin {"NONE", "CONFIRMED"}
  BY <1>2, InHand
<1>4. PICK w \in Purses : w = worker.row.purse
  BY <1>2, InHand
<1>5. PICK f : f = family[w]
  OBVIOUS
<1>6. PICK room \in Int : room = Room(f, w)
  <2>1. wallet[w].tok \in Nat
    BY MissingType
  <2> QED
    BY <2>1 DEF Room
<1>7. Limit(s) \in Nat /\ worker \in Pass /\ worker.att # 0 /\ worker.value \in Nat /\ worker.value <= Limit(s)
  BY <1>1, <1>2, <1>3, LimitType DEF PassOk, Typed
<1>8. CASE room <= 0
  <2>1. Block(s, "empty") /\ NextRow /\ "empty" \in Causes
    BY <1>3, <1>4, <1>5, <1>6, <1>8, Words DEF LessThanAsked
  <2>2. sweep' \in [Ids -> SweepRow] /\ (\A i \in Ids : RowOk(i, sweep'[i])) /\ RowsGo /\ FinalStays
    BY <1>1, <1>3, <2>1, Blocked
  <2> QED
    BY <1>1, <2>1, <2>2, FaultType, BooksNextRow DEF LessThanAsked
<1>9. CASE ~(room <= 0)
  <2>1. room < worker.value /\ worker' = [worker EXCEPT !.value = room]
        /\ Set(s, [r EXCEPT !.raw = IF f = "erc20" THEN room ELSE r.raw])
    BY <1>3, <1>4, <1>5, <1>6, <1>9 DEF LessThanAsked
  <2>2. room \in 1 .. Limit(s) /\ room \in Nat \ {0} /\ room <= Limit(s)
    BY <1>7, <1>9, <2>1
  <2>3. PICK raw \in Nat : raw = (IF f = "erc20" THEN room ELSE r.raw) /\ raw \in {room, r.raw}
    BY <2>2 DEF SweepRow
  <2>4. PICK x : x = [r EXCEPT !.raw = raw]
    OBVIOUS
  <2>5. x \in SweepRow /\ x.purse = r.purse /\ x.tx = r.tx /\ x.raw = raw /\ x.status = r.status
    BY <2>4 DEF SweepRow
  <2>6. RowOk(s, x)
    BY <1>3, <2>2, <2>3, <2>5, PlainRow
  <2>7. Set(s, x)
    BY <2>1, <2>3, <2>4
  <2>8. /\ sweep' \in [Ids -> SweepRow] /\ (\A i \in Ids : RowOk(i, sweep'[i])) /\ RowsGo /\ FinalStays
        /\ sweep'[s].status # "CONFIRMED"
    BY <1>1, <1>3, <2>5, <2>6, <2>7, RowSet
  <2>9. /\ worker' \in Pass /\ worker'.pc = "send" /\ worker'.group = worker.group
        /\ worker'.todo = worker.todo /\ worker'.id = worker.id /\ worker'.row = worker.row
        /\ worker'.att = worker.att /\ worker'.value = room
    BY <1>2, <1>7, <2>1 DEF Pass
  <2>10. Typed' /\ Grown
    BY <1>1, <2>8, <2>9, FaultType, TypedStep, GrownStill DEF LessThanAsked
  <2>11. "send" \in Handling \ {"confirm", "gas"} /\ worker.row.raw \in 1 .. Limit(s)
    BY <1>2, <1>3, InHand DEF Handling
  <2> QED
    BY <1>2, <1>3, <1>7, <2>2, <2>8, <2>9, <2>10, <2>11, BooksGoesOn DEF LessThanAsked
<1> QED
  BY <1>8, <1>9

LEMMA BooksSend ==
  ASSUME Books, Send
  PROVE  Books'
<1>1. SweepAssumption /\ Typed /\ \A i \in Ids : RowOk(i, sweep[i])
  BY DEF Books
<1>2. worker.pc = "send" /\ worker.pc \in Handling
  BY DEF Send, Handling
<1>3. PICK s \in Ids, r \in SweepRow :
        s = worker.id /\ r = sweep[s] /\ RowOk(s, r) /\ r.status \notin {"NONE", "CONFIRMED"}
  BY <1>2, InHand
<1>4. \/ Transferred("sweep") /\ worker' = [worker EXCEPT !.pc = "sent"] /\ UNCHANGED <<sweep, fuel>>
      \/ /\ SFault /\ NextRow /\ MaySend("sweep")
         /\ \/ Set(s, [r EXCEPT !.status = "PENDING", !.why = "send"])
            \/ UNCHANGED sweep
            \/ \E why \in {"ambiguous", "policy"} : Block(s, why)
  <2> DEFINE f == family[worker.row.purse]
             evm == f \in {"erc20", "native"}
             Errs == CASE f = "tron" -> Set(s, [r EXCEPT !.status = "PENDING", !.why = "send"])
                       [] f = "sol"  -> UNCHANGED sweep
                       [] OTHER      -> Block(s, "ambiguous")
  <2>1. Errs => \/ Set(s, [r EXCEPT !.status = "PENDING", !.why = "send"])
                \/ UNCHANGED sweep
                \/ \E why \in {"ambiguous", "policy"} : Block(s, why)
    <3>1. CASE f = "tron"
      BY <3>1
    <3>2. CASE f = "sol"
      BY <3>2
    <3>3. CASE f # "tron" /\ f # "sol"
      BY <3>3
    <3> QED
      BY <3>1, <3>2, <3>3
  <2>2. \/ Transferred("sweep") /\ worker' = [worker EXCEPT !.pc = "sent"] /\ UNCHANGED <<sweep, fuel>>
        \/ Transferred("sweep") /\ Errs /\ SFault /\ NextRow
        \/ UNCHANGED transfer /\ (Errs \/ (evm /\ Block(s, "policy"))) /\ SFault /\ NextRow
    BY <1>3 DEF Send
  <2> HIDE DEF Errs, evm
  <2> QED
    BY <2>1, <2>2 DEF MaySend
<1>5. CASE Transferred("sweep") /\ worker' = [worker EXCEPT !.pc = "sent"] /\ UNCHANGED <<sweep, fuel>>
  BY <1>2, <1>5, BooksAnswered DEF Send
<1>6. CASE SFault /\ NextRow /\ MaySend("sweep") /\ Set(s, [r EXCEPT !.status = "PENDING", !.why = "send"])
  <2>1. PICK x : x = [r EXCEPT !.status = "PENDING", !.why = "send"]
    OBVIOUS
  <2>2. x \in SweepRow /\ x.purse = r.purse /\ x.tx = r.tx /\ x.raw = r.raw /\ x.status = "PENDING"
    BY <2>1, Words DEF SweepRow
  <2>3. RowOk(s, x)
    BY <1>3, <2>2, PlainRow DEF Moving
  <2>4. Set(s, x)
    BY <1>6, <2>1
  <2>5. /\ sweep' \in [Ids -> SweepRow] /\ (\A i \in Ids : RowOk(i, sweep'[i])) /\ RowsGo /\ FinalStays
        /\ sweep'[s].status \notin {"NONE", "CONFIRMED"}
    BY <1>1, <1>3, <2>2, <2>3, <2>4, RowSet
  <2> QED
    BY <1>1, <1>2, <1>3, <1>6, <2>5, FaultType, BooksAttempt DEF Send
<1>7. CASE SFault /\ NextRow /\ MaySend("sweep") /\ UNCHANGED sweep
  BY <1>1, <1>2, <1>3, <1>7, RowsStay, FaultType, BooksAttempt DEF Send
<1>8. CASE SFault /\ NextRow /\ MaySend("sweep") /\ \E why \in {"ambiguous", "policy"} : Block(s, why)
  <2>1. PICK why \in Causes : Block(s, why)
    BY <1>8, Words
  <2>2. /\ sweep' \in [Ids -> SweepRow] /\ (\A i \in Ids : RowOk(i, sweep'[i])) /\ RowsGo /\ FinalStays
        /\ sweep'[s].status = "BLOCKED"
    BY <1>1, <1>3, <2>1, Blocked
  <2> QED
    BY <1>1, <1>2, <1>3, <1>8, <2>2, FaultType, BooksAttempt DEF Send
<1> QED
  BY <1>4, <1>5, <1>6, <1>7, <1>8

LEMMA BooksSent ==
  ASSUME Books, Sent
  PROVE  Books'
<1>1. SweepAssumption /\ Typed /\ PassOk /\ \A i \in Ids : RowOk(i, sweep[i])
  BY DEF Books
<1>2. worker.pc \in Handling /\ worker.pc = "sent"
  BY DEF Sent, Handling
<1>3. PICK s \in Ids, r \in SweepRow :
        s = worker.id /\ r = sweep[s] /\ RowOk(s, r) /\ r.status \notin {"NONE", "CONFIRMED"}
  BY <1>2, InHand
<1>4. PICK att \in Nat \ {0} : att = worker.att /\ <<"sweep", s, att>> \in DOMAIN transfer
  BY <1>1, <1>2, <1>3 DEF PassOk, Typed, Pass
<1>5. PICK known \in BOOLEAN : Set(s, [r EXCEPT !.status = "BROADCASTED", !.tx = att, !.req = known])
  BY <1>3, <1>4 DEF Sent
<1>6. PICK x : x = [r EXCEPT !.status = "BROADCASTED", !.tx = att, !.req = known]
  OBVIOUS
<1>7. x \in SweepRow /\ x.purse = r.purse /\ x.tx = att /\ x.raw = r.raw /\ x.status = "BROADCASTED"
  BY <1>6, Words DEF SweepRow
<1>8. RowOk(s, x)
  BY <1>3, <1>4, <1>7 DEF RowOk
<1>9. Set(s, x)
  BY <1>5, <1>6
<1>10. sweep' \in [Ids -> SweepRow] /\ (\A i \in Ids : RowOk(i, sweep'[i])) /\ RowsGo /\ FinalStays
  BY <1>1, <1>3, <1>4, <1>7, <1>8, <1>9, RowSet
<1> QED
  BY <1>1, <1>10, FaultType, BooksNextRow DEF Sent

LEMMA BooksDies ==
  ASSUME Books, Dies
  PROVE  Books'
<1>1. SweepAssumption /\ Typed /\ HookOk /\ \A i \in Ids : RowOk(i, sweep[i])
  BY DEF Books
<1>2. sweep' \in [Ids -> SweepRow] /\ (\A i \in Ids : RowOk(i, sweep'[i])) /\ RowsGo /\ FinalStays /\ Grown
  BY <1>1, RowsStay, GrownStill DEF Dies
<1>3. worker' = Resting /\ worker' \in Pass
  BY <1>1, ConstantTypes DEF Dies
<1>4. Typed'
  BY <1>1, <1>2, <1>3, FaultType, TypedStep DEF Dies
<1>5. PassOk'
  BY <1>3 DEF PassOk, Resting, Handling
<1>6. HookOk'
  BY <1>1, <1>2, HookStays DEF Dies, Grown
<1> QED
  BY <1>1, <1>2, <1>4, <1>5, <1>6, BooksStep

-----------------------------------------------------------------------------
(* The webhook *)

LEMMA BooksReads ==
  ASSUME Books, NEW t \in DOMAIN transfer, HookReads(t)
  PROVE  Books'
<1>1. SweepAssumption /\ Typed /\ PassOk /\ HookOk /\ \A i \in Ids : RowOk(i, sweep[i])
  BY DEF Books
<1>2. PICK kind \in {"gas", "sweep"}, s \in Ids, att \in Nat \ {0} : t = <<kind, s, att>>
  BY <1>1 DEF Typed
<1>3. PICK r \in SweepRow : r = sweep[s] /\ RowOk(s, r)
  BY <1>1 DEF Typed
<1>4. PICK event \in {"accepted", "broadcasted", "failed"} :
        hook' = [pc |-> "write", id |-> s, kind |-> kind, att |-> att, event |-> event, row |-> r]
  BY <1>2, <1>3 DEF HookReads
<1>5. hook' \in Call
  BY <1>4 DEF Call, SweepRow
<1>6. sweep' \in [Ids -> SweepRow] /\ (\A i \in Ids : RowOk(i, sweep'[i])) /\ RowsGo /\ FinalStays /\ Grown
  BY <1>1, RowsStay, GrownStill DEF HookReads
<1>7. Typed'
  BY <1>1, <1>5, FaultType DEF HookReads, Typed, Ids
<1>8. PassOk'
  <2>1. worker.pc \in Handling => sweep'[worker.id].status # "CONFIRMED"
    BY InHand DEF HookReads
  <2> QED
    BY <1>1, <1>6, <2>1, PassStays DEF HookReads
<1>9. HookOk'
  <2>1. r.status # "NONE"
    BY <1>2, <1>3 DEF RowOk
  <2>2. sweep' = sweep /\ transfer' = transfer /\ (s \in Ids)'
    BY DEF HookReads, Ids
  <2> QED
    BY <1>2, <1>3, <1>4, <2>1, <2>2 DEF HookOk, RowOk
<1> QED
  BY <1>1, <1>6, <1>7, <1>8, <1>9, BooksStep

LEMMA BooksWrites ==
  ASSUME Books, HookWrites
  PROVE  Books'
<1>1. SweepAssumption /\ Typed /\ PassOk /\ HookOk /\ \A i \in Ids : RowOk(i, sweep[i])
  BY DEF Books
<1>2. PICK s \in Ids, h \in Call : h = hook /\ s = hook.id
  BY <1>1 DEF HookWrites, HookOk, Typed
<1>q. PICK q \in SweepRow : q = h.row
  BY DEF Call
<1>3. PICK r \in SweepRow : r = sweep[s] /\ RowOk(s, r)
  BY <1>1 DEF Typed
<1>4. /\ q.status # "NONE" /\ r.status # "NONE" /\ h.att \in Nat \ {0} /\ <<h.kind, s, h.att>> \in DOMAIN transfer
      /\ q.tx # 0 => <<"sweep", s, q.tx>> \in DOMAIN transfer
      /\ q.status = "BROADCASTED" => q.tx # 0 /\ r.tx # 0
      /\ q.status = "CONFIRMED" => r.status = "CONFIRMED"
  BY <1>1, <1>2, <1>3, <1>q DEF HookWrites, HookOk, Call
<1>5. PICK status \in Statuses :
        /\ status = CASE h.event = "failed" -> "BLOCKED"
                      [] h.kind = "sweep" /\ h.event = "broadcasted" -> "BROADCASTED"
                      [] OTHER -> q.status
        /\ status \in {"BLOCKED", "BROADCASTED", q.status}
        /\ status = "BROADCASTED" => (h.kind = "sweep" /\ h.event = "broadcasted") \/ status = q.status
  <2>1. CASE h.event = "failed"
    BY <2>1, Words
  <2>2. CASE h.event # "failed" /\ h.kind = "sweep" /\ h.event = "broadcasted"
    BY <2>2, Words
  <2>3. CASE h.event # "failed" /\ ~(h.kind = "sweep" /\ h.event = "broadcasted")
    BY <2>3 DEF SweepRow
  <2> QED
    BY <2>1, <2>2, <2>3
<1>6. PICK why \in Causes : why = IF h.event = "failed" THEN "event" ELSE q.why
  BY Words DEF SweepRow
<1>7. PICK tx \in Nat : tx = IF h.kind = "gas" THEN r.tx ELSE IF h.event = "broadcasted" THEN h.att ELSE q.tx
  BY <1>4 DEF SweepRow
<1>8. PICK gasTx \in Nat :
        gasTx = IF h.kind = "sweep" THEN r.gasTx ELSE IF h.event = "broadcasted" THEN h.att ELSE q.gasTx
  BY <1>4 DEF SweepRow
<1>9. PICK req \in BOOLEAN : req = (r.req \/ h.kind = "sweep")
  BY Zenon
<1>10. PICK x : x = [r EXCEPT !.status = status, !.why = why, !.req = req, !.tx = tx, !.gasTx = gasTx]
  OBVIOUS
<1>11. Set(s, x)
  BY <1>2, <1>3, <1>q, <1>5, <1>6, <1>7, <1>8, <1>9, <1>10 DEF HookWrites
<1>12. x \in SweepRow /\ x.purse = r.purse /\ x.tx = tx /\ x.raw = r.raw /\ x.status = status
  BY <1>10 DEF SweepRow
<1>13. RowOk(s, x)
  <2>1. h.kind # "gas" => h.kind = "sweep"
    BY DEF Call
  <2>2. x.tx # 0 => <<"sweep", s, x.tx>> \in DOMAIN transfer
    BY <1>3, <1>4, <1>7, <1>12, <2>1 DEF RowOk
  <2>3. x.status = "BROADCASTED" => x.tx # 0
    BY <1>4, <1>5, <1>7, <1>12
  <2> QED
    BY <1>3, <1>4, <1>5, <1>12, <2>2, <2>3 DEF RowOk
<1>14. /\ sweep' \in [Ids -> SweepRow] /\ (\A i \in Ids : RowOk(i, sweep'[i])) /\ RowsGo
       /\ sweep'[s] = x /\ \A i \in Ids \ {s} : sweep'[i] = sweep[i]
  <2>1. x.status # "NONE" /\ (x.status = "CONFIRMED" => r.status = "CONFIRMED")
    BY <1>4, <1>5, <1>12
  <2>2. /\ sweep' \in [Ids -> SweepRow] /\ (\A i \in Ids : RowOk(i, sweep'[i])) /\ RowsGo
        /\ sweep'[s] = x
    BY <1>1, <1>3, <1>11, <1>12, <1>13, <2>1, RowSet
  <2> QED
    BY <1>1, <1>11, <2>2 DEF Set, Typed
<1>15. Grown
  BY GrownStill DEF HookWrites
<1>16. putBack' \subseteq Ids
  <2>1. putBack' \in {putBack, putBack \cup {s}}
    BY <1>2 DEF HookWrites
  <2> QED
    BY <1>1, <2>1 DEF Typed
<1>17. Typed'
  <2>1. hook' \in Call
    BY <1>1, ConstantTypes DEF HookWrites
  <2> QED
    BY <1>1, <1>14, <1>16, <2>1 DEF HookWrites, Typed, Ids
<1>18. PassOk'
  <2>1. worker.pc \in Handling => sweep'[worker.id].status # "CONFIRMED"
    BY <1>3, <1>4, <1>5, <1>12, <1>14, InHand
  <2> QED
    BY <1>1, <1>14, <1>15, <2>1, PassStays DEF HookWrites
<1>19. HookOk'
  BY DEF HookWrites, HookOk, NoHook
<1> QED
  BY <1>1, <1>14, <1>15, <1>17, <1>18, <1>19, BooksStep

-----------------------------------------------------------------------------
(* The books are in order *)

LEMMA BooksInit ==
  ASSUME SweepAssumption, SInit
  PROVE  Books
<1>1. /\ NoRow \in SweepRow /\ Resting \in Pass /\ NoHook \in Call /\ MaxFaults \in Nat
      /\ Ids \subseteq Nat \ {0} /\ 0 \notin Ids
  BY ConstantTypes, IdsType
<1>2. credit \in [Credits -> [purse : Purses, credited : BOOLEAN, sweep : Ids \cup {0}]]
  <2>1. ASSUME NEW d \in Credits
        PROVE  credit[d] \in [purse : Purses, credited : BOOLEAN, sweep : Ids \cup {0}]
    BY DEF SInit
  <2>2. credit = [d \in Credits |-> credit[d]]
    BY DEF SInit
  <2> QED
    BY <2>1, <2>2
<1>3. DOMAIN transfer = {}
  BY DEF SInit
<1>4. wallet \in [Purses -> [tok : Nat, gas : Nat]]
  BY DEF SInit
<1>5. Typed
  <2>1. IsFiniteSet(DOMAIN transfer)
    BY <1>3, FS_EmptySet
  <2> QED
    BY <1>1, <1>2, <1>3, <1>4, <2>1 DEF Typed, SInit
<1>6. ASSUME NEW i \in Ids
      PROVE  RowOk(i, sweep[i])
  <2>1. sweep[i] = NoRow /\ NoRow.status = "NONE" /\ NoRow.tx = 0
    BY DEF SInit, NoRow
  <2>2. InSweep(i) = {}
    <3>1. \A d \in Credits : credit[d].sweep = 0
      BY DEF SInit
    <3> QED
      BY <1>1, <3>1 DEF InSweep
  <2> QED
    BY <1>3, <2>1, <2>2 DEF RowOk
<1>7. PassOk
  BY DEF SInit, PassOk, Resting, Handling
<1>8. HookOk
  BY DEF SInit, HookOk, NoHook
<1> QED
  BY <1>5, <1>6, <1>7, <1>8 DEF Books

LEMMA BooksNext ==
  ASSUME Books, [SNext]_svars
  PROVE  Books'
<1>1. ASSUME NEW d \in Credits, Arrive(d)
      PROVE  Books'
  BY <1>1, BooksArrive
<1>2. ASSUME NEW t \in DOMAIN transfer, Mine(t) \/ HookReads(t)
      PROVE  Books'
  BY <1>2, BooksMine, BooksReads
<1>3. ASSUME NEW s \in Ids, RecoverBlocked(s)
      PROVE  Books'
  BY <1>3, BooksRecover
<1>4. CASE PassStep
  BY <1>4, BooksBegins, BooksCreates, BooksLists, BooksTake, BooksConfirm, BooksAsk, BooksCheckGas,
     BooksFund, BooksFunded, BooksMark, BooksLess, BooksSend, BooksSent DEF PassStep
<1>5. CASE HookWrites \/ Dies
  BY <1>5, BooksWrites, BooksDies
<1>6. CASE UNCHANGED svars
  <2>1. UNCHANGED <<credit, family, sweep, wallet, transfer, worker, hook, putBack, fuel>>
    BY <1>6 DEF svars
  <2>2. SweepAssumption /\ Typed /\ PassOk /\ HookOk /\ \A i \in Ids : RowOk(i, sweep[i])
    BY DEF Books
  <2>3. (\A i \in Ids : RowOk(i, sweep'[i])) /\ RowsGo /\ FinalStays /\ Grown
    BY <2>1, <2>2, RowsStay, GrownStill
  <2>4. PassOk'
    <3>1. worker.pc \in Handling => sweep'[worker.id].status # "CONFIRMED"
      BY <2>1, InHand
    <3> QED
      BY <2>1, <2>2, <2>3, <3>1, PassStays
  <2>5. HookOk'
    BY <2>1, <2>2, <2>3, HookStays DEF Grown
  <2>6. Typed'
    BY <2>1, <2>2 DEF Typed, Ids
  <2> QED
    BY <2>2, <2>3, <2>4, <2>5, <2>6, BooksStep
<1> QED
  BY <1>1, <1>2, <1>3, <1>4, <1>5, <1>6 DEF SNext

LEMMA BooksAlways == SweepAssumption /\ SSpec => []Books
<1>1. SweepAssumption /\ SInit => Books
  BY BooksInit
<1>2. Books /\ [SNext]_svars => Books'
  BY BooksNext
<1> QED
  BY <1>1, <1>2, PTL DEF SSpec

-----------------------------------------------------------------------------
(* One transfer: what a step does to what is told *)

\* The wallet of a sweep is that of its deposits.
LEMMA PurseStays ==
  ASSUME Books, Books', credit' = credit, NEW s \in Ids, sweep[s].status # "NONE"
  PROVE  sweep'[s].status # "NONE" /\ sweep'[s].purse = sweep[s].purse
<1>1. InSweep(s)' = InSweep(s)
  BY DEF InSweep
<1>2. RowOk(s, sweep[s])
  BY DEF Books
<1>3. (\A i \in Ids : RowOk(i, sweep[i]))' /\ Ids' = Ids
  BY DEF Books, Ids
<1>4. RowOk(s, sweep[s])'
  BY <1>3
<1>5. PICK d \in InSweep(s) : credit[d].purse = sweep[s].purse
  BY <1>2 DEF RowOk
<1>6. sweep'[s].status # "NONE"
  BY <1>1, <1>4, <1>5 DEF RowOk
<1> QED
  BY <1>1, <1>4, <1>5, <1>6 DEF RowOk

LEMMA OnceStep ==
  ASSUME OneInv, Books', credit' = credit, family' = family, putBack \subseteq putBack', NEW s \in Ids,
         Sends("sweep", s)' = Sends("sweep", s),
         Told(s) /\ FamilyOf(s) # "tron" /\ s \notin putBack' => Told(s)'
  PROVE  OnceOk(s)'
<1>1. Books /\ OnceOk(s) /\ RowOk(s, sweep[s])
  BY DEF OneInv, Books
<1>2. CASE sweep[s].status = "NONE"
  <2>1. Sends("sweep", s) = {}
    BY <1>1, <1>2 DEF RowOk, Sends
  <2> QED
    BY <2>1 DEF OnceOk, Unsent
<1>3. CASE sweep[s].status # "NONE"
  <2>1. FamilyOf(s)' = FamilyOf(s)
    BY <1>1, <1>3, PurseStays DEF FamilyOf
  <2> QED
    BY <1>1, <2>1 DEF OnceOk, Unsent
<1> QED
  BY <1>2, <1>3

\* The transfers are the same, but for their states and for top-ups.
LEMMA OneStep ==
  ASSUME OneInv, Books', credit' = credit, family' = family, putBack \subseteq putBack',
         {t \in DOMAIN transfer' : t[1] = "sweep"} = {t \in DOMAIN transfer : t[1] = "sweep"},
         \A s \in Ids : Told(s) /\ FamilyOf(s) # "tron" /\ s \notin putBack' => Told(s)',
         MarkedOk'
  PROVE  OneInv'
<1>1. ASSUME NEW s \in Ids
      PROVE  OnceOk(s)'
  <2>1. Sends("sweep", s)' = Sends("sweep", s)
    BY DEF Sends
  <2> QED
    BY <2>1, OnceStep
<1>2. (\A s \in Ids : OnceOk(s))'
  BY <1>1 DEF Ids
<1> QED
  BY <1>2 DEF OneInv

LEMMA SetRow ==
  ASSUME Books, NEW s \in Ids, NEW x, Set(s, x)
  PROVE  sweep'[s] = x /\ \A i \in Ids \ {s} : sweep'[i] = sweep[i]
BY DEF Books, Typed, Set

\* A pass whose sweep is not told of can do what it likes with it.
LEMMA NotTold ==
  ASSUME Books, worker.pc \in {"gas", "fund", "funded", "mark", "send"},
         \A i \in Ids \ {worker.id} : sweep'[i] = sweep[i],
         worker'.todo = worker.todo, worker'.id \in {0, worker.id}
  PROVE  \A s \in Ids : Told(s) => Told(s)'
<1>1. 0 \notin Ids
  BY IdsType DEF Books
<1> QED
  BY <1>1 DEF Told

LEMMA StillTold ==
  ASSUME Books, NextRow, worker.id \in Ids,
         \A i \in Ids \ {worker.id} : sweep'[i] = sweep[i],
         sweep'[worker.id].status \in Said \cup {sweep[worker.id].status}
  PROVE  (\A s \in Ids : Told(s) => Told(s)') /\ MarkedOk'
<1>1. 0 \notin Ids
  BY IdsType DEF Books
<1>2. worker'.todo = worker.todo /\ worker'.id = 0 /\ worker'.pc = "rows"
  BY DEF NextRow, Resting
<1> QED
  BY <1>1, <1>2 DEF Told, MarkedOk

\* Steps that leave the pass and the rows alone.
LEMMA OneElse ==
  ASSUME OneInv, Books', credit' = credit, family' = family, putBack' = putBack, sweep' = sweep,
         DOMAIN transfer' = DOMAIN transfer, worker' = worker \/ worker' = Resting
  PROVE  OneInv'
<1>1. CASE worker' = worker
  <2>1. \A s \in Ids : Told(s) => Told(s)'
    BY <1>1 DEF Told
  <2>2. MarkedOk'
    BY <1>1 DEF MarkedOk, OneInv
  <2> QED
    BY <2>1, <2>2, OneStep
<1>2. CASE worker' = Resting
  <2>1. 0 \notin Ids
    BY IdsType DEF OneInv, Books
  <2>2. \A s \in Ids : Told(s) => Told(s)'
    BY <1>2, <2>1 DEF Told, Resting
  <2>3. MarkedOk'
    BY <1>2 DEF MarkedOk, Resting
  <2> QED
    BY <2>2, <2>3, OneStep
<1> QED
  BY <1>1, <1>2


-----------------------------------------------------------------------------
(* One transfer: the steps *)

LEMMA OneArriveMine ==
  ASSUME OneInv, Books', \/ \E d \in Credits : Arrive(d)
                         \/ \E t \in DOMAIN transfer : Mine(t) \/ HookReads(t)
                         \/ Dies
  PROVE  OneInv'
<1>1. ASSUME NEW d \in Credits, Arrive(d)
      PROVE  OneInv'
  <2>1. credit' = [credit EXCEPT ![d].credited = TRUE]
    BY <1>1 DEF Arrive
  <2>2. ASSUME NEW s \in Ids
        PROVE  OnceOk(s)'
    <3>1. RowOk(s, sweep[s]) /\ (\A c \in Credits : credit'[c].purse = credit[c].purse) /\ OnceOk(s)
      BY <2>1 DEF OneInv, Books, Typed
    <3>2. UNCHANGED <<family, sweep, transfer, worker, putBack>>
      BY <1>1 DEF Arrive
    <3> QED
      BY <3>1, <3>2 DEF OnceOk, Unsent, Sends, Told, FamilyOf
  <2>3. (\A s \in Ids : OnceOk(s))'
    BY <2>2 DEF Ids
  <2>4. MarkedOk'
    BY <1>1 DEF Arrive, OneInv, MarkedOk
  <2> QED
    BY <2>3, <2>4 DEF OneInv
<1>2. ASSUME NEW t \in DOMAIN transfer, Mine(t)
      PROVE  OneInv'
  <2>1. DOMAIN transfer' = DOMAIN transfer
    BY <1>2 DEF Mine
  <2> QED
    BY <1>2, <2>1, OneElse DEF Mine
<1>3. ASSUME NEW t \in DOMAIN transfer, HookReads(t)
      PROVE  OneInv'
  BY <1>3, OneElse DEF HookReads
<1>4. ASSUME Dies
      PROVE  OneInv'
  BY <1>4, OneElse DEF Dies
<1> QED
  BY <1>1, <1>2, <1>3, <1>4

LEMMA OneRecover ==
  ASSUME OneInv, Books', NEW s \in Ids, RecoverBlocked(s)
  PROVE  OneInv'
<1>1. \A i \in Ids \ {s} : sweep'[i] = sweep[i]
  BY DEF RecoverBlocked
<1>2. putBack' = putBack \cup {s} /\ worker' = worker
  BY DEF RecoverBlocked
<1>3. \A i \in Ids : Told(i) /\ i \notin putBack' => Told(i)'
  BY <1>1, <1>2 DEF Told
<1>4. MarkedOk'
  <2>1. worker.pc = "send" => worker.id \in Ids
    BY InHand DEF OneInv, Handling
  <2> QED
    BY <1>1, <1>2, <2>1 DEF MarkedOk, OneInv
<1> QED
  BY <1>2, <1>3, <1>4, OneStep DEF RecoverBlocked

LEMMA OneBegins ==
  ASSUME OneInv, Books', PassBegins
  PROVE  OneInv'
<1>1. 0 \notin Ids
  BY IdsType DEF OneInv, Books
<1>2. worker'.pc = "create" /\ worker'.todo = {} /\ worker'.id = 0
  BY DEF PassBegins, Resting
<1>3. putBack' = putBack \cup Requeued /\ \A i \in Ids \ Requeued : sweep'[i] = sweep[i]
  BY DEF PassBegins
<1>4. \A i \in Ids : Told(i) /\ i \notin putBack' => Told(i)'
  BY <1>1, <1>2, <1>3 DEF Told
<1>5. MarkedOk'
  BY <1>2 DEF MarkedOk
<1> QED
  BY <1>3, <1>4, <1>5, OneStep DEF PassBegins

\* A sweep that is made has sent nothing.
LEMMA OneCreates ==
  ASSUME OneInv, Books', PassCreates
  PROVE  OneInv'
<1>1. worker.pc = "create" /\ worker \in Pass
  BY DEF PassCreates, OneInv, Books, Typed
<1>2. worker'.pc # "send" /\ worker'.todo = worker.todo /\ worker'.id = worker.id
  BY <1>1 DEF PassCreates, Pass
<1>3. MarkedOk'
  BY <1>2 DEF MarkedOk
<1>4. UNCHANGED <<family, transfer, putBack>>
  BY DEF PassCreates
<1>5. ASSUME NEW i \in Ids
      PROVE  sweep[i].status = "NONE" \/ sweep'[i] = sweep[i]
  <2>1. CASE worker.group = {}
    BY <2>1 DEF PassCreates
  <2>2. CASE worker.group # {}
    <3>1. PICK s : s = Min({j \in Ids : sweep[j].status = "NONE"})
      OBVIOUS
    <3>2. sweep[s].status = "NONE"
      <4>1. PICK d \in worker.group : TRUE
        BY <2>2
      <4>2. d \in Credits /\ credit[d].sweep = 0 /\ SweepAssumption /\ Typed /\ \A j \in Ids : RowOk(j, sweep[j])
        BY <1>1, <4>1 DEF OneInv, Books, PassOk, Pass
      <4>3. Min({j \in Ids : sweep[j].status = "NONE"}) \in {j \in Ids : sweep[j].status = "NONE"}
        BY <4>2, FreeId
      <4> QED
        BY <3>1, <4>3
    <3>3. PICK x : sweep' = [sweep EXCEPT ![s] = x]
      BY <2>2, <3>1 DEF PassCreates
    <3> QED
      BY <3>2, <3>3
  <2> QED
    BY <2>1, <2>2
<1>6. ASSUME NEW i \in Ids
      PROVE  OnceOk(i)'
  <2>1. OnceOk(i) /\ RowOk(i, sweep[i])
    BY DEF OneInv, Books
  <2>2. CASE sweep[i].status = "NONE"
    <3>1. Sends("sweep", i) = {}
      BY <2>1, <2>2 DEF RowOk, Sends
    <3> QED
      BY <1>4, <3>1 DEF OnceOk, Unsent, Sends
  <2>3. CASE sweep'[i] = sweep[i]
    <3>1. worker'.id = i => worker.id = i /\ worker'.pc \in {"create", "list"}
      BY <1>1, <1>2 DEF PassCreates, Pass
    <3>2. ~Told(i) \/ Told(i)'
      <4>1. worker.id # i
        BY <1>1, IdsType DEF OneInv, Books, PassOk, Handling
      <4> QED
        BY <1>2, <2>3, <4>1 DEF Told
    <3> QED
      BY <1>4, <2>1, <2>3, <3>2 DEF OnceOk, Unsent, Sends, FamilyOf
  <2> QED
    BY <1>5, <2>2, <2>3
<1>7. (\A i \in Ids : OnceOk(i))'
  BY <1>6 DEF Ids
<1> QED
  BY <1>3, <1>7 DEF OneInv

\* What is told is listed.
LEMMA OneLists ==
  ASSUME OneInv, Books', PassLists
  PROVE  OneInv'
<1>1. worker \in Pass /\ worker.id = 0 /\ 0 \notin Ids
  BY IdsType DEF PassLists, OneInv, Books, Typed, PassOk, Handling
<1>2. PICK T : /\ T = {<<s, sweep[s]>> : s \in {i \in Ids : /\ sweep[i].status \in Moving \cup {"BROADCASTED"}
                                                          /\ sweep[i].attempts < MaxAttempts}}
               /\ worker' = [worker EXCEPT !.pc = "rows", !.todo = T]
  BY DEF PassLists
<1>3. worker'.pc = "rows" /\ worker'.todo = T /\ worker'.id = 0
  BY <1>1, <1>2 DEF Pass
<1>4. ASSUME NEW s \in Ids, Told(s)
      PROVE  Told(s)'
  <2>1. sweep'[s] = sweep[s] \/ sweep'[s].status = "BLOCKED"
    <3>1. PICK r \in SweepRow : r = sweep[s]
      BY DEF OneInv, Books, Typed
    <3> QED
      BY <3>1 DEF PassLists, SweepRow
  <2>2. sweep'[s].status \in Said
    BY <1>4, <2>1 DEF Told, Said
  <2>3. \A x \in T : x[1] = s => x[2].status \in {"BROADCASTING", "BROADCASTED"}
    BY <1>2, <1>4 DEF Told, Said, Moving
  <2> QED
    BY <1>1, <1>3, <2>2, <2>3 DEF Told
<1>5. MarkedOk'
  BY <1>3 DEF MarkedOk
<1> QED
  BY <1>4, <1>5, OneStep DEF PassLists

\* A row that is told of is only looked after.
LEMMA OneTakes ==
  ASSUME OneInv, Books', TakeRow
  PROVE  OneInv'
<1>1. /\ 0 \notin Ids /\ worker.todo \in SUBSET (Ids \X SweepRow) /\ worker.id = 0
      /\ \A y \in worker.todo : Listed(y[1], y[2])
      /\ \A y, z \in worker.todo : y[1] = z[1] => y = z
  BY IdsType DEF TakeRow, OneInv, Books, Typed, Pass, PassOk, Handling
<1>2. CASE worker.todo = {}
  BY <1>2, OneElse DEF TakeRow
<1>3. CASE worker.todo # {}
  <2> DEFINE x == CHOOSE y \in worker.todo : \A z \in worker.todo : y[1] <= z[1]
             rest == worker.todo \ {x}
  <2>1. x \in worker.todo
    BY <1>3, NextToDo DEF OneInv
  <2>2. \/ /\ worker' = [Resting EXCEPT !.pc = Stage(family[x[2].purse], x[2].status), !.todo = rest,
                                        !.id = x[1], !.row = x[2]]
           /\ UNCHANGED <<sweep, fuel>>
        \/ /\ SFault /\ worker' = [Resting EXCEPT !.pc = "rows", !.todo = rest]
           /\ \E why \in Refusals : Block(x[1], why)
    BY <1>3 DEF TakeRow
  <2> HIDE DEF x
  <2>3. PICK s \in Ids, r \in SweepRow : s = x[1] /\ r = x[2] /\ x = <<s, r>>
    BY <1>1, <2>1
  <2>4. Listed(s, r) /\ \A y \in rest : y \in worker.todo /\ y[1] # s
    BY <1>1, <2>1, <2>3
  <2>5. PICK pc \in {"confirm", "provider", "mark", "gas"} : pc = Stage(family[r.purse], r.status)
    BY StageTo
  <2> HIDE DEF rest
  <2>6. CASE /\ worker' = [Resting EXCEPT !.pc = Stage(family[x[2].purse], x[2].status), !.todo = rest,
                                          !.id = x[1], !.row = x[2]]
             /\ UNCHANGED <<sweep, fuel>>
    <3>1. worker' = [Resting EXCEPT !.pc = pc, !.todo = rest, !.id = s, !.row = r]
      BY <2>3, <2>5, <2>6
    <3>2. worker'.pc = pc /\ worker'.todo = rest /\ worker'.id = s /\ worker'.row = r
      BY <3>1 DEF Resting
    <3>3. ASSUME NEW i \in Ids, Told(i), FamilyOf(i) # "tron"
          PROVE  Told(i)'
      <4>1. CASE i = s
        <5>1. r.status \in {"BROADCASTING", "BROADCASTED"} /\ family[r.purse] # "tron"
          BY <2>1, <2>3, <2>4, <3>3, <4>1 DEF Told, Listed, FamilyOf
        <5>2. pc \in {"confirm", "provider"}
          BY <2>5, <5>1, StageTo
        <5> QED
          BY <2>4, <2>6, <3>2, <3>3, <4>1, <5>2 DEF Told
      <4>2. CASE i # s
        BY <2>4, <2>6, <3>2, <3>3, <4>2 DEF Told
      <4> QED
        BY <4>1, <4>2
    <3>4. MarkedOk'
      BY <3>2 DEF MarkedOk
    <3> QED
      BY <3>3, <3>4, OneStep DEF TakeRow
  <2>7. CASE /\ SFault /\ worker' = [Resting EXCEPT !.pc = "rows", !.todo = rest]
             /\ \E why \in Refusals : Block(x[1], why)
    <3>1. worker'.pc = "rows" /\ worker'.todo = rest /\ worker'.id = 0
      BY <2>7 DEF Resting
    <3>2. PICK why : Block(s, why)
      BY <2>3, <2>7
    <3>3. PICK b : b.status = "BLOCKED" /\ Set(s, b)
      <4>1. sweep[s] \in SweepRow
        BY DEF OneInv, Books, Typed
      <4> QED
        BY <3>2, <4>1 DEF Block, SweepRow
    <3>4. sweep'[s] = b /\ \A i \in Ids \ {s} : sweep'[i] = sweep[i]
      BY <3>3, SetRow DEF OneInv
    <3>5. ASSUME NEW i \in Ids, Told(i)
          PROVE  Told(i)'
      BY <1>1, <2>4, <3>1, <3>3, <3>4, <3>5 DEF Told, Said
    <3>6. MarkedOk'
      BY <3>1 DEF MarkedOk
    <3> QED
      BY <3>5, <3>6, OneStep DEF TakeRow
  <2> QED
    BY <2>2, <2>6, <2>7
<1> QED
  BY <1>2, <1>3


\* The other rows stay when a pass works on its own.
LEMMA RowInHand ==
  ASSUME Books, Confirm \/ AskProvider \/ CheckGas \/ Fund \/ Funded \/ Mark \/ LessThanAsked \/ Send \/ Sent
  PROVE  worker.id \in Ids /\ worker.pc \in Handling /\ \A i \in Ids \ {worker.id} : sweep'[i] = sweep[i]
<1>1. worker.pc \in Handling
  BY DEF Confirm, AskProvider, CheckGas, Fund, Funded, Mark, LessThanAsked, Send, Sent, Handling
<1>2. worker.id \in Ids
  BY <1>1, InHand
<1>3. (\E x : Set(worker.id, x)) \/ UNCHANGED sweep
  <2>1. CASE Confirm
    BY <2>1 DEF Confirm, Block
  <2>2. CASE AskProvider
    BY <2>2 DEF AskProvider, Block
  <2>3. CASE CheckGas
    BY <2>3 DEF CheckGas, Block
  <2>4. CASE Fund
    BY <2>4 DEF Fund, Block
  <2>5. CASE Funded \/ Mark \/ Sent
    BY <2>5 DEF Funded, Mark, Sent
  <2>6. CASE LessThanAsked
    BY <2>6 DEF LessThanAsked, Block
  <2>7. CASE Send
    <3> DEFINE f == family[worker.row.purse]
               Errs == CASE f = "tron" -> Set(worker.id, [sweep[worker.id] EXCEPT !.status = "PENDING", !.why = "send"])
                         [] f = "sol"  -> UNCHANGED sweep
                         [] OTHER      -> Block(worker.id, "ambiguous")
    <3>1. Errs => (\E x : Set(worker.id, x)) \/ UNCHANGED sweep
      <4>1. CASE f = "tron"
        BY <4>1
      <4>2. CASE f = "sol"
        BY <4>2
      <4>3. CASE f # "tron" /\ f # "sol"
        BY <4>3 DEF Block
      <4> QED
        BY <4>1, <4>2, <4>3
    <3>2. UNCHANGED sweep \/ Errs \/ Block(worker.id, "policy")
      BY <2>7 DEF Send
    <3> HIDE DEF Errs
    <3> QED
      BY <3>1, <3>2 DEF Block
  <2> QED
    BY <2>1, <2>2, <2>3, <2>4, <2>5, <2>6, <2>7
<1>4. CASE UNCHANGED sweep
  BY <1>1, <1>2, <1>4
<1>5. ASSUME NEW x, Set(worker.id, x)
      PROVE  \A i \in Ids \ {worker.id} : sweep'[i] = sweep[i]
  BY <1>2, <1>5, SetRow
<1> QED
  BY <1>1, <1>2, <1>3, <1>4, <1>5

LEMMA OneSettles ==
  ASSUME OneInv, Books', Confirm \/ AskProvider \/ Sent
  PROVE  OneInv'
<1>1. Books /\ worker.id \in Ids /\ NextRow /\ \A i \in Ids \ {worker.id} : sweep'[i] = sweep[i]
  BY RowInHand DEF OneInv, Confirm, AskProvider, Sent
<1>2. PICK r \in SweepRow : r = sweep[worker.id]
  BY <1>1 DEF Books, Typed
<1>3. sweep'[worker.id].status \in Said \cup {sweep[worker.id].status}
  <2>1. \/ UNCHANGED sweep
        \/ \E x : x.status \in Said /\ Set(worker.id, x)
    <3>1. ASSUME NEW why, Block(worker.id, why)
          PROVE  \E x : x.status \in Said /\ Set(worker.id, x)
      <4>1. PICK x : x = [r EXCEPT !.status = "BLOCKED", !.why = why]
        OBVIOUS
      <4>2. x.status \in Said /\ Set(worker.id, x)
        BY <1>2, <3>1, <4>1 DEF Block, SweepRow, Said
      <4> QED
        BY <4>2
    <3>2. CASE Confirm
      <4>1. PICK x : x = [r EXCEPT !.status = "CONFIRMED", !.why = "NONE"]
        OBVIOUS
      <4>2. UNCHANGED sweep \/ Set(worker.id, x) \/ Block(worker.id, "mismatch")
        BY <1>2, <3>2, <4>1 DEF Confirm
      <4>3. x.status \in Said
        BY <4>1 DEF SweepRow, Said
      <4> QED
        BY <3>1, <4>2, <4>3
    <3>3. CASE AskProvider
      <4>1. PICK tx : tx = Max({t[3] : t \in {u \in DOMAIN transfer : u[1] = "sweep" /\ u[2] = worker.id}})
        OBVIOUS
      <4>2. PICK x : x = [r EXCEPT !.status = "BROADCASTED", !.tx = tx]
        OBVIOUS
      <4>3. \/ UNCHANGED sweep \/ Set(worker.id, x)
            \/ Block(worker.id, "ambiguous") \/ Block(worker.id, "provider")
        BY <1>2, <3>3, <4>1, <4>2 DEF AskProvider
      <4>4. x.status \in Said
        BY <4>2 DEF SweepRow, Said
      <4> QED
        BY <3>1, <4>3, <4>4
    <3>4. CASE Sent
      <4>1. PICK req \in BOOLEAN :
              Set(worker.id, [r EXCEPT !.status = "BROADCASTED", !.tx = worker.att, !.req = req])
        BY <1>2, <3>4 DEF Sent
      <4>2. PICK x : x = [r EXCEPT !.status = "BROADCASTED", !.tx = worker.att, !.req = req]
        OBVIOUS
      <4>3. x.status \in Said
        BY <4>2 DEF SweepRow, Said
      <4> QED
        BY <4>1, <4>2, <4>3
    <3> QED
      BY <3>2, <3>3, <3>4
  <2>2. ASSUME NEW x, x.status \in Said, Set(worker.id, x)
        PROVE  sweep'[worker.id].status \in Said
    BY <1>1, <2>2, SetRow
  <2> QED
    BY <2>1, <2>2
<1>4. (\A s \in Ids : Told(s) => Told(s)') /\ MarkedOk'
  BY <1>1, <1>3, StillTold
<1>5. UNCHANGED <<credit, family, putBack, transfer>>
  BY DEF Confirm, AskProvider, Sent
<1> QED
  BY <1>4, <1>5, OneStep

\* The steps before the transfer.
LEMMA OneGas ==
  ASSUME OneInv, Books', CheckGas \/ Fund \/ Funded
  PROVE  OneInv'
<1>1. Books /\ worker.id \in Ids /\ \A i \in Ids \ {worker.id} : sweep'[i] = sweep[i]
  BY RowInHand DEF OneInv
<1>2. worker \in Pass /\ worker.pc \in {"gas", "fund", "funded"}
  BY <1>1 DEF Books, Typed, CheckGas, Fund, Funded
<1>3. worker'.todo = worker.todo /\ worker'.id \in {0, worker.id} /\ worker'.pc # "send"
  <2>1. CASE NextRow
    BY <2>1 DEF NextRow, Resting
  <2>2. CASE CheckGas /\ ~NextRow
    <3>1. \/ \E raw : worker' = [worker EXCEPT !.pc = "mark", !.row.raw = raw]
          \/ \E att, value : worker' = [worker EXCEPT !.pc = "fund", !.att = att, !.value = value]
      BY <2>2 DEF CheckGas
    <3> QED
      BY <1>2, <3>1 DEF Pass
  <2>3. CASE Fund /\ ~NextRow
    <3>1. worker' = [worker EXCEPT !.pc = "funded"]
      BY <2>3 DEF Fund
    <3> QED
      BY <1>2, <3>1 DEF Pass
  <2>4. CASE Funded
    BY <2>1, <2>4 DEF Funded
  <2> QED
    BY <2>1, <2>2, <2>3, <2>4
<1>4. \A s \in Ids : Told(s) => Told(s)'
  BY <1>1, <1>2, <1>3, NotTold
<1>5. MarkedOk'
  BY <1>3 DEF MarkedOk
<1>6. {t \in DOMAIN transfer' : t[1] = "sweep"} = {t \in DOMAIN transfer : t[1] = "sweep"}
  <2>1. CASE transfer' = transfer
    BY <2>1
  <2>2. CASE Transferred("gas")
    BY <2>2 DEF Transferred
  <2> QED
    BY <2>1, <2>2 DEF CheckGas, Fund, Funded
<1>7. UNCHANGED <<credit, family, putBack>>
  BY DEF CheckGas, Fund, Funded
<1> QED
  BY <1>4, <1>5, <1>6, <1>7, OneStep

LEMMA OneMarks ==
  ASSUME OneInv, Books', Mark \/ LessThanAsked
  PROVE  OneInv'
<1>1. Books /\ worker.id \in Ids /\ \A i \in Ids \ {worker.id} : sweep'[i] = sweep[i]
  BY RowInHand DEF OneInv
<1>2. worker \in Pass /\ worker.pc \in {"mark", "send"}
  BY <1>1 DEF Books, Typed, Mark, LessThanAsked
<1>3. PICK r \in SweepRow : r = sweep[worker.id]
  BY <1>1 DEF Books, Typed
<1>4. \/ NextRow
      \/ /\ worker'.todo = worker.todo /\ worker'.id = worker.id /\ worker'.pc = "send"
         /\ \/ sweep'[worker.id].status = "BROADCASTING"
            \/ worker.pc = "send" /\ sweep'[worker.id].status = r.status
  <2>1. CASE Mark
    <3>1. PICK att, value : worker' = [worker EXCEPT !.pc = "send", !.att = att, !.value = value]
      BY <2>1 DEF Mark
    <3>2. PICK x : x = [r EXCEPT !.status = "BROADCASTING", !.attempts = r.attempts + 1]
      OBVIOUS
    <3>3. Set(worker.id, x)
      BY <1>3, <2>1, <3>2 DEF Mark
    <3>4. sweep'[worker.id] = x
      BY <1>1, <3>3, SetRow
    <3> QED
      BY <1>2, <3>1, <3>2, <3>4 DEF Pass, SweepRow
  <2>2. CASE LessThanAsked /\ ~NextRow
    <3>1. PICK value, raw : worker' = [worker EXCEPT !.value = value] /\ Set(worker.id, [r EXCEPT !.raw = raw])
      BY <1>3, <2>2 DEF LessThanAsked
    <3>2. PICK x : x = [r EXCEPT !.raw = raw]
      OBVIOUS
    <3>3. sweep'[worker.id] = x
      BY <1>1, <3>1, <3>2, SetRow
    <3> QED
      BY <1>2, <2>2, <3>1, <3>2, <3>3 DEF Pass, SweepRow, LessThanAsked
  <2> QED
    BY <2>1, <2>2
<1>5. worker'.todo = worker.todo /\ worker'.id \in {0, worker.id}
  BY <1>4 DEF NextRow, Resting
<1>6. \A s \in Ids : Told(s) => Told(s)'
  BY <1>1, <1>2, <1>5, NotTold
<1>7. MarkedOk'
  <2>1. CASE NextRow
    BY <2>1 DEF NextRow, Resting, MarkedOk
  <2>2. CASE ~NextRow
    <3>1. putBack' = putBack
      BY DEF Mark, LessThanAsked
    <3> QED
      BY <1>3, <1>4, <2>2, <3>1 DEF MarkedOk, OneInv
  <2> QED
    BY <2>1, <2>2
<1>8. UNCHANGED <<credit, family, putBack, transfer>>
  BY DEF Mark, LessThanAsked
<1> QED
  BY <1>6, <1>7, <1>8, OneStep

\* The transfer.
LEMMA OneSends ==
  ASSUME OneInv, Books', Send
  PROVE  OneInv'
<1>1. Books /\ worker.id \in Ids /\ \A i \in Ids \ {worker.id} : sweep'[i] = sweep[i]
  BY RowInHand DEF OneInv
<1>2. PICK s : s = worker.id
  OBVIOUS
<1>3. worker \in Pass /\ worker.pc = "send" /\ s \in Ids /\ 0 \notin Ids /\ UNCHANGED <<credit, family, putBack>>
  BY <1>1, <1>2, IdsType DEF Books, Typed, Send
<1>4. PICK r \in SweepRow : r = sweep[s]
  BY <1>1, <1>2 DEF Books, Typed
<1>5. FamilyOf(s) = family[worker.row.purse] /\ sweep[s].status # "NONE"
  <2>1. worker.row.purse = sweep[worker.id].purse /\ sweep[worker.id].status # "NONE"
    BY <1>1, <1>3, InHand DEF Handling
  <2> QED
    BY <1>2, <2>1 DEF FamilyOf
<1>6. worker'.todo = worker.todo /\ worker'.id \in {0, s} /\ worker'.pc \in {"rows", "sent"}
      /\ (worker'.id = s => worker'.pc = "sent")
  <2>1. NextRow \/ worker' = [worker EXCEPT !.pc = "sent"]
    BY DEF Send
  <2>2. CASE NextRow
    BY <1>2, <1>3, <2>2 DEF NextRow, Resting
  <2>3. CASE worker' = [worker EXCEPT !.pc = "sent"]
    BY <1>2, <1>3, <2>3 DEF Pass
  <2> QED
    BY <2>1, <2>2, <2>3
<1>7. MarkedOk'
  BY <1>6 DEF MarkedOk
<1>8. \A i \in Ids : Told(i) => Told(i)'
  BY <1>1, <1>2, <1>3, <1>6, NotTold
<1>9. CASE transfer' = transfer
  BY <1>3, <1>7, <1>8, <1>9, OneStep
<1>10. CASE Transferred("sweep")
  <2>1. PICK n : n = <<"sweep", s, worker.att>> /\ DOMAIN transfer' = DOMAIN transfer \cup {n}
    BY <1>2, <1>10 DEF Transferred
  <2>2. ASSUME NEW i \in Ids
        PROVE  OnceOk(i)'
    <3>1. CASE i # s
      <4>1. Sends("sweep", i)' = Sends("sweep", i)
        BY <2>1, <3>1 DEF Sends
      <4> QED
        BY <1>3, <1>8, <4>1, OnceStep
    <3>2. CASE i = s
      <4> SUFFICES ASSUME FamilyOf(s)' # "tron", s \notin putBack
                   PROVE  OnceOk(s)'
        BY <1>3, <3>2 DEF OnceOk
      <4>1. FamilyOf(s) # "tron"
        <5>1. sweep'[s].purse = sweep[s].purse
          BY <1>1, <1>3, <1>5, PurseStays
        <5> QED
          BY <1>3, <5>1 DEF FamilyOf
      <4>2. Sends("sweep", s) = {}
        BY <1>2, <1>3, <4>1 DEF OneInv, OnceOk, Unsent, Told
      <4>3. Sends("sweep", s)' = {n}
        BY <2>1, <4>2 DEF Sends
      <4>4. Cardinality(Sends("sweep", s))' = 1
        BY <4>3, FS_Singleton
      <4>5. sweep[s].status \in {"BROADCASTING", "BROADCASTED", "BLOCKED"}
        BY <1>2, <1>3 DEF OneInv, MarkedOk
      <4>6. sweep'[s].status \in Said
        <5> DEFINE f == family[worker.row.purse]
                   Errs == CASE f = "tron" -> Set(s, [r EXCEPT !.status = "PENDING", !.why = "send"])
                             [] f = "sol"  -> UNCHANGED sweep
                             [] OTHER      -> Block(s, "ambiguous")
        <5>1. UNCHANGED sweep \/ Errs \/ Block(s, "policy")
          BY <1>2, <1>4 DEF Send
        <5>2. f # "tron"
          BY <1>5, <4>1
        <5>3. Errs => UNCHANGED sweep \/ Block(s, "ambiguous")
          <6>1. CASE f = "sol"
            BY <6>1
          <6>2. CASE f # "sol"
            BY <5>2, <6>2
          <6> QED
            BY <6>1, <6>2
        <5>4. ASSUME NEW why, Block(s, why)
              PROVE  sweep'[s].status = "BLOCKED"
          <6>1. PICK x : x = [r EXCEPT !.status = "BLOCKED", !.why = why]
            OBVIOUS
          <6>2. Set(s, x)
            BY <1>4, <5>4, <6>1 DEF Block
          <6>3. sweep'[s] = x
            BY <1>1, <1>3, <6>2, SetRow
          <6> QED
            BY <6>1, <6>3 DEF SweepRow
        <5> HIDE DEF Errs
        <5> QED
          BY <4>5, <5>1, <5>3, <5>4 DEF Said
      <4>7. \A x \in worker.todo : x[1] # s
        BY <1>1, <1>2 DEF Books, PassOk
      <4>8. Told(s)'
        BY <1>6, <4>6, <4>7 DEF Told
      <4> QED
        BY <4>4, <4>8 DEF OnceOk
    <3> QED
      BY <3>1, <3>2
  <2>3. (\A i \in Ids : OnceOk(i))'
    BY <2>2 DEF Ids
  <2> QED
    BY <1>7, <2>3 DEF OneInv
<1> QED
  BY <1>9, <1>10 DEF Send

\* An event that changes the status of a sweep puts it back, but for a failure.
LEMMA OneWrites ==
  ASSUME OneInv, Books', HookWrites
  PROVE  OneInv'
<1>1. PICK s \in Ids : s = hook.id
  BY DEF OneInv, Books, HookOk, HookWrites
<1>2. PICK r \in SweepRow : r = sweep[s]
  BY DEF OneInv, Books, Typed
<1>3. PICK status, why, req, tx, gasTx :
        /\ Set(s, [r EXCEPT !.status = status, !.why = why, !.req = req, !.tx = tx, !.gasTx = gasTx])
        /\ status # r.status => status = "BLOCKED" \/ s \in putBack'
  <2>1. PICK status : status = CASE hook.event = "failed" -> "BLOCKED"
                  [] hook.kind = "sweep" /\ hook.event = "broadcasted" -> "BROADCASTED"
                  [] OTHER -> hook.row.status
    OBVIOUS
  <2>2. hook.event = "failed" => status = "BLOCKED"
    BY <2>1
  <2>3. putBack' = IF status # r.status /\ hook.event # "failed" THEN putBack \cup {s} ELSE putBack
    BY <1>1, <1>2, <2>1 DEF HookWrites
  <2>4. PICK why : why = IF hook.event = "failed" THEN "event" ELSE hook.row.why
    OBVIOUS
  <2>5. PICK req : req = (r.req \/ hook.kind = "sweep")
    OBVIOUS
  <2>6. PICK tx : tx = IF hook.kind = "gas" THEN r.tx ELSE IF hook.event = "broadcasted" THEN hook.att ELSE hook.row.tx
    OBVIOUS
  <2>7. PICK gasTx : gasTx = IF hook.kind = "sweep" THEN r.gasTx ELSE IF hook.event = "broadcasted" THEN hook.att ELSE hook.row.gasTx
    OBVIOUS
  <2>8. Set(s, [r EXCEPT !.status = status, !.why = why, !.req = req, !.tx = tx, !.gasTx = gasTx])
    BY <1>1, <1>2, <2>1, <2>4, <2>5, <2>6, <2>7 DEF HookWrites
  <2> QED
    BY <2>2, <2>3, <2>8
<1>4. PICK x : x = [r EXCEPT !.status = status, !.why = why, !.req = req, !.tx = tx, !.gasTx = gasTx]
  OBVIOUS
<1>5. x.status = status /\ Set(s, x)
  BY <1>3, <1>4 DEF SweepRow
<1>6. sweep'[s] = x /\ \A i \in Ids \ {s} : sweep'[i] = sweep[i]
  BY <1>5, SetRow DEF OneInv
<1>7. worker' = worker /\ putBack \subseteq putBack' /\ UNCHANGED <<credit, family, transfer>>
  BY DEF HookWrites
<1>8. ASSUME NEW i \in Ids, Told(i), i \notin putBack'
      PROVE  Told(i)'
  <2>1. sweep'[i].status = sweep[i].status \/ sweep'[i].status = "BLOCKED"
    BY <1>2, <1>3, <1>5, <1>6, <1>8
  <2> QED
    BY <1>7, <1>8, <2>1 DEF Told, Said
<1>9. MarkedOk'
  <2>1. CASE worker.pc = "send" /\ worker.id \notin putBack'
    <3>1. worker.id \in Ids
      BY <2>1, InHand DEF OneInv, Handling
    <3>2. sweep'[worker.id].status = sweep[worker.id].status \/ sweep'[worker.id].status = "BLOCKED"
      BY <1>2, <1>3, <1>5, <1>6, <2>1, <3>1
    <3> QED
      BY <1>7, <2>1, <3>2 DEF MarkedOk, OneInv
  <2>2. CASE ~(worker.pc = "send" /\ worker.id \notin putBack')
    BY <1>7, <2>2 DEF MarkedOk
  <2> QED
    BY <2>1, <2>2
<1> QED
  BY <1>7, <1>8, <1>9, OneStep


LEMMA OneInit ==
  ASSUME SweepAssumption, SInit
  PROVE  OneInv
<1>1. ASSUME NEW s \in Ids
      PROVE  OnceOk(s)
  <2>1. DOMAIN transfer = {}
    BY DEF SInit
  <2> QED
    BY <2>1 DEF OnceOk, Unsent, Sends
<1>2. MarkedOk
  BY DEF SInit, Resting, MarkedOk
<1> QED
  BY <1>1, <1>2, BooksInit DEF OneInv

LEMMA OneNext ==
  ASSUME OneInv, [SNext]_svars
  PROVE  OneInv'
<1>1. Books'
  BY BooksNext DEF OneInv
<1>2. ASSUME NEW s \in Ids, RecoverBlocked(s)
      PROVE  OneInv'
  BY <1>1, <1>2, OneRecover
<1>3. CASE PassStep
  BY <1>1, <1>3, OneBegins, OneCreates, OneLists, OneTakes, OneSettles, OneGas, OneMarks, OneSends
  DEF PassStep
<1>4. CASE HookWrites
  BY <1>1, <1>4, OneWrites
<1>5. CASE UNCHANGED svars
  BY <1>1, <1>5, OneElse DEF svars
<1> QED
  BY <1>1, <1>2, <1>3, <1>4, <1>5, OneArriveMine DEF SNext

LEMMA OneAlways == SweepAssumption /\ SSpec => []OneInv
<1>1. SweepAssumption /\ SInit => OneInv
  BY OneInit
<1>2. OneInv /\ [SNext]_svars => OneInv'
  BY OneNext
<1> QED
  BY <1>1, <1>2, PTL DEF SSpec

LEMMA SendsOnce ==
  ASSUME OneInv
  PROVE  TransferOnce
<1> SUFFICES ASSUME NEW s \in Ids \ putBack, FamilyOf(s) # "tron"
             PROVE  Cardinality(Sends("sweep", s)) <= 1
  BY DEF TransferOnce
<1>1. OnceOk(s)
  BY DEF OneInv
<1>2. Cardinality({}) = 0
  BY FS_EmptySet
<1> QED
  BY <1>1, <1>2 DEF OnceOk, Unsent

-----------------------------------------------------------------------------
(* One top-up: what a step does to the claims *)

LEMMA FullType ==
  ASSUME Books, NEW s
  PROVE  /\ IsFiniteSet(Full(s)) /\ Cardinality(Full(s)) \in Nat
         /\ Used \in Nat /\ Excuses(s) \in Int
<1>1. IsFiniteSet(DOMAIN transfer) /\ Full(s) \in SUBSET DOMAIN transfer
  BY DEF Books, Typed, Full, Sends
<1>2. IsFiniteSet(Full(s))
  BY <1>1, FS_Subset
<1>3. Used \in Nat
  BY FaultType, ConstantTypes DEF Books, Used
<1> QED
  BY <1>2, <1>3, FS_CardinalityType DEF Excuses

FullTyped ==
  \A s \in Ids : IsFiniteSet(Full(s)) /\ Cardinality(Full(s)) \in Nat /\ Excuses(s) \in Int

LEMMA FullTypeNext == Books' => FullTyped'
<1>1. Books => FullTyped
  BY FullType DEF FullTyped
<1> QED
  BY <1>1, PTL

\* A sweep that is not made yet.
LEMMA NoneFull ==
  ASSUME Books, NEW s \in Ids, sweep[s].status = "NONE"
  PROVE  Full(s) = {} /\ Excuses(s) >= 0
<1>1. RowOk(s, sweep[s]) /\ HookOk
  BY DEF Books
<1>2. Full(s) = {}
  BY <1>1 DEF RowOk, Full, Sends
<1>3. ~(hook.pc = "write" /\ hook.id = s)
  BY <1>1 DEF HookOk
<1> QED
  BY <1>2, <1>3, FullType DEF Excuses

LEMMA TopStep ==
  ASSUME TopInv, Books', NEW s \in Ids, family' = family,
         sweep[s].status # "NONE" => sweep'[s].purse = sweep[s].purse,
         Full(s)' \subseteq Full(s), Excuses(s)' >= Excuses(s),
         sweep[s].status # "NONE" /\ FamilyOf(s) # "sol" /\ Full(s)' = Full(s)
           /\ Excuses(s)' = Excuses(s) /\ Claim(s)' => Claim(s)
  PROVE  TopUpOk(s)'
<1>1. Books /\ TopUpOk(s)
  BY DEF TopInv
<1>2. PICK F : F = Full(s)
  OBVIOUS
<1>3. PICK G : G = Full(s)'
  OBVIOUS
<1>4. IsFiniteSet(F) /\ Cardinality(F) \in Nat /\ Excuses(s) \in Int
  BY <1>1, <1>2, FullType
<1>5. FullTyped'
  BY FullTypeNext
<1>6. G \subseteq F /\ Cardinality(G) \in Nat /\ Cardinality(G) <= Cardinality(F)
      /\ (Cardinality(G) = Cardinality(F) => G = F)
  BY <1>2, <1>3, <1>4, FS_Subset, FS_CardinalityType
<1>7. PICK e \in Int : e = Excuses(s)
  BY <1>4
<1>8. Excuses(s)' \in Int
  <2>1. Ids' = Ids
    BY DEF Ids
  <2> QED
    BY <1>5, <2>1 DEF FullTyped
<1>9. PICK g \in Int : g = Excuses(s)'
  BY <1>8
<1>10. CASE sweep[s].status = "NONE"
  <2>1. F = {} /\ e >= 0
    BY <1>1, <1>2, <1>7, <1>10, NoneFull
  <2>2. Cardinality(G) = 0
    BY <1>6, <2>1, FS_EmptySet
  <2>3. Cardinality(Full(s))' = 0
    BY <1>3, <2>2
  <2> QED
    BY <1>7, <1>9, <2>1, <2>3 DEF TopUpOk
<1>11. CASE sweep[s].status # "NONE"
  <2>1. FamilyOf(s)' = FamilyOf(s)
    BY <1>11 DEF FamilyOf
  <2> SUFFICES ASSUME FamilyOf(s) # "sol"
               PROVE  Cardinality(G) <= 1 + g /\ (Claim(s)' => Cardinality(G) <= g)
    BY <1>3, <1>9, <2>1 DEF TopUpOk
  <2>2. Cardinality(F) <= 1 + e /\ (Claim(s) => Cardinality(F) <= e)
    BY <1>1, <1>2, <1>7 DEF TopUpOk
  <2>3. g >= e
    BY <1>7, <1>9
  <2>4. Claim(s)' /\ G = F /\ g = e => Claim(s)
    BY <1>2, <1>3, <1>7, <1>9, <1>11
  <2>5. Cardinality(F) \in Nat
    BY <1>4
  <2>6. PICK m \in Nat, n \in Nat : m = Cardinality(F) /\ n = Cardinality(G) /\ n <= m /\ (n = m => G = F)
    BY <1>6, <2>5
  <2>7. ASSUME Claim(s)'
        PROVE  n <= g
    <3>1. CASE n = m /\ g = e
      BY <2>2, <2>4, <2>6, <2>7, <3>1
    <3>2. CASE n # m
      BY <2>2, <2>3, <2>6, <3>2
    <3>3. CASE g # e
      BY <2>2, <2>3, <2>6, <3>3
    <3> QED
      BY <3>1, <3>2, <3>3
  <2> QED
    BY <2>2, <2>3, <2>6, <2>7
<1> QED
  BY <1>10, <1>11

LEMMA TopAll ==
  ASSUME Books', \A s \in Ids : TopUpOk(s)'
  PROVE  TopInv'
BY DEF TopInv, Ids

LEMMA Excused ==
  ASSUME Books, Books', hook' = hook, NEW s
  PROVE  /\ fuel' = fuel => Excuses(s)' = Excuses(s)
         /\ SFault => Excuses(s)' = Excuses(s) + 1
<1>1. fuel \in 0 .. MaxFaults /\ MaxFaults \in Nat
  BY FaultType, ConstantTypes DEF Books
<1>2. PICK n \in {0, 1} : n = IF hook.pc = "write" /\ hook.id = s THEN 1 ELSE 0
  OBVIOUS
<1>3. Excuses(s) = (MaxFaults - fuel) - n /\ Excuses(s)' = (MaxFaults - fuel') - n
  BY <1>2 DEF Excuses, Used
<1> QED
  BY <1>1, <1>3 DEF SFault

\* A fault excuses whatever is topped up next.
LEMMA TopFault ==
  ASSUME TopInv, Books', UNCHANGED <<credit, family, hook>>, SFault,
         \A s \in Ids : Full(s)' \subseteq Full(s)
  PROVE  TopInv'
<1>1. ASSUME NEW s \in Ids
      PROVE  TopUpOk(s)'
  <2>1. Books
    BY DEF TopInv
  <2>2. Excuses(s)' = Excuses(s) + 1 /\ Excuses(s) \in Int
    BY <2>1, Excused, FullType
  <2>3. sweep[s].status # "NONE" => sweep'[s].purse = sweep[s].purse
    BY <2>1, PurseStays
  <2>4. Excuses(s)' >= Excuses(s) /\ Excuses(s)' # Excuses(s)
    BY <2>2
  <2> QED
    BY <2>3, <2>4, TopStep
<1> QED
  BY <1>1, TopAll

\* A step without one, that makes no claims.
LEMMA TopCalm ==
  ASSUME TopInv, Books', UNCHANGED <<credit, family, hook, fuel>>,
         \A s \in Ids : Full(s)' = Full(s),
         \A s \in Ids : sweep[s].status # "NONE" /\ FamilyOf(s) # "sol" /\ Claim(s)' => Claim(s)
  PROVE  TopInv'
<1>1. ASSUME NEW s \in Ids
      PROVE  TopUpOk(s)'
  <2>1. Books
    BY DEF TopInv
  <2>2. Excuses(s)' = Excuses(s) /\ Excuses(s) \in Int
    BY <2>1, Excused, FullType
  <2>3. sweep[s].status # "NONE" => sweep'[s].purse = sweep[s].purse
    BY <2>1, PurseStays
  <2>4. Excuses(s)' >= Excuses(s) /\ Full(s)' \subseteq Full(s)
    BY <2>2
  <2> QED
    BY <2>3, <2>4, TopStep
<1> QED
  BY <1>1, TopAll


LEMMA SameFunding ==
  ASSUME NEW s, NEW x, FamilyOf(s)' = FamilyOf(s), Full(s)' = Full(s)
  PROVE  MayFund(s, x)' <=> MayFund(s, x)
BY DEF MayFund

LEMMA SameFamily ==
  ASSUME Books, Books', UNCHANGED <<credit, family>>, NEW s \in Ids, sweep[s].status # "NONE"
  PROVE  FamilyOf(s)' = FamilyOf(s)
BY PurseStays DEF FamilyOf

\* Statuses from which no sweep is topped up.
LEMMA NoFunding ==
  ASSUME NEW s, NEW x, \/ x.status \in {"CONFIRMED", "BROADCASTED", "NONE"}
                       \/ x.status = "BLOCKED" /\ x.why # "ineligible"
  PROVE  ~MayFund(s, x)
BY DEF MayFund

\* A pass that does not read rows anew makes claims for its own sweep only.
LEMMA ClaimStep ==
  ASSUME Books, NEW s \in Ids, FamilyOf(s)' = FamilyOf(s), Full(s)' = Full(s),
         worker'.todo \subseteq worker.todo,
         worker'.id # s \/ worker'.pc \notin {"gas", "fund", "funded"},
         NEW x, x = sweep'[s], MayFund(s, x) /\ ~Busy(s)' => Claim(s),
         Claim(s)'
  PROVE  Claim(s)
<1>2. CASE (\E y \in worker.todo : y[1] = s /\ MayFund(s, y[2]))'
  <2>1. PICK y \in worker'.todo : y[1] = s /\ MayFund(s, y[2])'
    BY <1>2
  <2>2. PICK z : z = y[2]
    OBVIOUS
  <2>3. MayFund(s, z)
    BY <2>1, <2>2, SameFunding DEF MayFund
  <2> QED
    BY <2>1, <2>2, <2>3 DEF Claim
<1>3. CASE MayFund(s, sweep[s])' /\ ~Busy(s)'
  <2>1. MayFund(s, x)'
    BY <1>3 DEF MayFund
  <2>2. MayFund(s, x)
    BY <2>1, SameFunding
  <2> QED
    BY <1>3, <2>2
<1>4. ~(worker.id = s /\ worker.pc \in {"gas", "fund", "funded"})'
  OBVIOUS
<1> QED
  BY <1>2, <1>3, <1>4 DEF Claim

LEMMA TopHand ==
  ASSUME TopInv, Books', worker.id \in Ids, UNCHANGED <<credit, family, hook, fuel>>,
         \A s \in Ids : Full(s)' = Full(s),
         \A i \in Ids \ {worker.id} : sweep'[i] = sweep[i],
         worker'.todo = worker.todo,
         worker'.id = 0 \/ (worker'.id = worker.id /\ worker'.pc \notin {"gas", "fund", "funded"}),
         NEW x, x = sweep'[worker.id],
         FamilyOf(worker.id) # "sol" /\ MayFund(worker.id, x)
           /\ (worker'.id = 0 \/ worker'.pc \notin {"send", "sent"}) => Claim(worker.id)
  PROVE  TopInv'
<1>1. ASSUME NEW s \in Ids, sweep[s].status # "NONE", FamilyOf(s) # "sol", Claim(s)'
      PROVE  Claim(s)
  <2>1. Books /\ FamilyOf(s)' = FamilyOf(s) /\ 0 \notin Ids
    BY <1>1, SameFamily, IdsType DEF TopInv, Books
  <2>2. PICK y : y = sweep'[s]
    OBVIOUS
  <2>3. MayFund(s, y) /\ ~Busy(s)' => Claim(s)
    <3>1. CASE s = worker.id
      <4>1. ~Busy(s)' => worker'.id = 0 \/ worker'.pc \notin {"send", "sent"}
        BY <3>1 DEF Busy
      <4>2. y = x
        BY <2>2, <3>1
      <4>3. FamilyOf(worker.id) # "sol" /\ (MayFund(s, y) => MayFund(worker.id, x)) /\ (Claim(worker.id) => Claim(s))
        BY <1>1, <3>1, <4>2
      <4> QED
        BY <4>1, <4>3
    <3>2. CASE s # worker.id
      <4>1. y = sweep[s] /\ ~Busy(s)
        BY <2>2, <3>2 DEF Busy
      <4> QED
        BY <4>1 DEF Claim
    <3> QED
      BY <3>1, <3>2
  <2> QED
    BY <1>1, <2>1, <2>2, <2>3, ClaimStep
<1> QED
  BY <1>1, TopCalm

LEMMA SameFull ==
  ASSUME NEW s, transfer' = transfer \/ Transferred("sweep")
  PROVE  Full(s)' = Full(s)
<1>1. CASE transfer' = transfer
  BY <1>1 DEF Full, Sends
<1>2. CASE Transferred("sweep")
  <2>1. PICK n : n = <<"sweep", worker.id, worker.att>>
    OBVIOUS
  <2>2. DOMAIN transfer' = DOMAIN transfer \cup {n} /\ \A t \in DOMAIN transfer : t # n => transfer'[t] = transfer[t]
    BY <1>2, <2>1 DEF Transferred
  <2>3. n[1] # "gas"
    BY <2>1
  <2> QED
    BY <2>2, <2>3 DEF Full, Sends
<1> QED
  BY <1>1, <1>2

-----------------------------------------------------------------------------
(* One top-up: the steps *)

LEMMA TopArrive ==
  ASSUME TopInv, Books', NEW d \in Credits, Arrive(d)
  PROVE  TopInv'
<1>1. ASSUME NEW s \in Ids
      PROVE  TopUpOk(s)'
  <2>1. UNCHANGED <<family, sweep, transfer, worker, hook, fuel>> /\ TopUpOk(s)
    BY DEF Arrive, TopInv
  <2> QED
    BY <2>1 DEF TopUpOk, Claim, MayFund, Busy, Full, Sends, FamilyOf, Excuses, Used
<1> QED
  BY <1>1, TopAll

\* A top-up that is mined or reverts is not under way any more.
LEMMA TopMine ==
  ASSUME TopInv, Books', NEW t \in DOMAIN transfer, Mine(t)
  PROVE  TopInv'
<1>1. /\ UNCHANGED <<credit, family, sweep, worker, hook>> /\ (UNCHANGED fuel \/ SFault)
      /\ DOMAIN transfer' = DOMAIN transfer
      /\ \A u \in DOMAIN transfer : u # t => transfer'[u] = transfer[u]
      /\ transfer'[t].state # "sent"
  <2>1. PICK state \in {"mined", "reverted"} : transfer' = [transfer EXCEPT ![t].state = state]
    BY DEF Mine
  <2>2. transfer[t] \in Paid
    BY DEF TopInv, Books, Typed
  <2>3. transfer'[t].state = state
    BY <2>1, <2>2 DEF Paid
  <2> QED
    BY <2>1, <2>3 DEF Mine
<1>2. \A s \in Ids : Full(s)' \subseteq Full(s)
  BY <1>1 DEF Full, Sends
<1>3. CASE SFault
  BY <1>1, <1>2, <1>3, TopFault
<1>4. CASE UNCHANGED fuel
  <2>1. ASSUME NEW s \in Ids
        PROVE  TopUpOk(s)'
    <3>1. Books
      BY DEF TopInv
    <3>2. Excuses(s)' = Excuses(s) /\ Excuses(s) \in Int
      BY <1>1, <1>4, <3>1, Excused, FullType
    <3>3. Full(s)' = Full(s) /\ Claim(s)' => Claim(s)
      BY <1>1 DEF Claim, MayFund, Busy, FamilyOf
    <3>4. Excuses(s)' >= Excuses(s) /\ Full(s)' \subseteq Full(s)
      BY <1>2, <3>2
    <3> QED
      BY <1>1, <3>3, <3>4, TopStep
  <2> QED
    BY <2>1, TopAll
<1> QED
  BY <1>1, <1>3, <1>4

LEMMA TopFaulty ==
  ASSUME TopInv, Books', (\E s \in Ids : RecoverBlocked(s)) \/ Dies
  PROVE  TopInv'
<1>1. UNCHANGED <<credit, family, hook, transfer>> /\ SFault
  BY DEF RecoverBlocked, Dies
<1>2. \A s \in Ids : Full(s)' \subseteq Full(s)
  BY <1>1, SameFull
<1> QED
  BY <1>1, <1>2, TopFault

\* A pass begins with nothing in hand: who was put back could be topped up before.
LEMMA TopBegins ==
  ASSUME TopInv, Books', PassBegins
  PROVE  TopInv'
<1>1. /\ 0 \notin Ids /\ worker.id = 0 /\ worker'.todo = {} /\ worker'.id = 0
      /\ UNCHANGED <<credit, family, hook, fuel, transfer>>
  BY IdsType DEF PassBegins, Resting, TopInv, Books, PassOk, Handling
<1>2. \A s \in Ids : Full(s)' = Full(s)
  BY <1>1, SameFull
<1>3. ASSUME NEW s \in Ids, sweep[s].status # "NONE", Claim(s)'
      PROVE  Claim(s)
  <2>1. Books /\ FamilyOf(s)' = FamilyOf(s)
    BY <1>1, <1>3, SameFamily DEF TopInv
  <2>2. PICK x : x = sweep'[s]
    OBVIOUS
  <2>3. ~Busy(s)
    BY <1>1 DEF Busy
  <2>4. CASE s \in Requeued
    BY <2>3, <2>4 DEF Requeued, MayFund, Claim
  <2>5. CASE s \notin Requeued
    <3>1. x = sweep[s]
      BY <2>2, <2>5 DEF PassBegins
    <3>2. MayFund(s, x) => Claim(s)
      BY <2>3, <3>1 DEF Claim
    <3> QED
      BY <1>1, <1>2, <1>3, <2>1, <2>2, <3>2, ClaimStep
  <2> QED
    BY <2>4, <2>5
<1> QED
  BY <1>1, <1>2, <1>3, TopCalm

LEMMA TopCreates ==
  ASSUME TopInv, Books', PassCreates
  PROVE  TopInv'
<1>1. /\ Books /\ worker \in Pass /\ worker.pc = "create" /\ worker.id = 0 /\ 0 \notin Ids
      /\ UNCHANGED <<family, transfer, hook, fuel>>
  BY IdsType DEF PassCreates, TopInv, Books, Typed, PassOk, Handling
<1>2. worker'.todo = worker.todo /\ worker'.id = 0
  BY <1>1 DEF PassCreates, Pass
<1>3. ASSUME NEW i \in Ids, sweep[i].status # "NONE"
      PROVE  sweep'[i] = sweep[i]
  <2>1. CASE worker.group = {}
    BY <2>1 DEF PassCreates
  <2>2. CASE worker.group # {}
    <3>1. PICK s : s = Min({j \in Ids : sweep[j].status = "NONE"})
      OBVIOUS
    <3>2. sweep[s].status = "NONE"
      <4>1. PICK d \in worker.group : TRUE
        BY <2>2
      <4>2. d \in Credits /\ credit[d].sweep = 0 /\ SweepAssumption /\ Typed /\ \A j \in Ids : RowOk(j, sweep[j])
        BY <1>1, <4>1 DEF Books, PassOk, Pass
      <4>3. Min({j \in Ids : sweep[j].status = "NONE"}) \in {j \in Ids : sweep[j].status = "NONE"}
        BY <4>2, FreeId
      <4> QED
        BY <3>1, <4>3
    <3>3. PICK x : sweep' = [sweep EXCEPT ![s] = x]
      BY <2>2, <3>1 DEF PassCreates
    <3> QED
      BY <1>3, <3>2, <3>3
  <2> QED
    BY <2>1, <2>2
<1>4. ASSUME NEW s \in Ids
      PROVE  TopUpOk(s)'
  <2>1. Full(s)' = Full(s) /\ Excuses(s)' = Excuses(s) /\ Excuses(s) \in Int
    BY <1>1, SameFull, Excused, FullType
  <2>2. sweep[s].status # "NONE" /\ Claim(s)' => Claim(s)
    <3> SUFFICES ASSUME sweep[s].status # "NONE", Claim(s)'
                 PROVE  Claim(s)
      OBVIOUS
    <3>1. FamilyOf(s)' = FamilyOf(s)
      BY <1>1, <1>3 DEF FamilyOf
    <3>2. PICK x : x = sweep'[s] /\ x = sweep[s]
      BY <1>3
    <3>3. MayFund(s, x) => Claim(s)
      BY <1>1, <3>2 DEF Claim, Busy
    <3> QED
      BY <1>1, <1>2, <2>1, <3>1, <3>2, <3>3, ClaimStep
  <2>3. Full(s)' \subseteq Full(s) /\ Excuses(s)' >= Excuses(s)
    BY <2>1
  <2> QED
    BY <1>1, <1>3, <2>2, <2>3, TopStep
<1> QED
  BY <1>4, TopAll

\* The rows that are listed claim what they are.
LEMMA TopLists ==
  ASSUME TopInv, Books', PassLists
  PROVE  TopInv'
<1>1. /\ Books /\ worker \in Pass /\ worker.id = 0 /\ 0 \notin Ids
      /\ UNCHANGED <<credit, family, transfer, hook, fuel>>
  BY IdsType DEF PassLists, TopInv, Books, Typed, PassOk, Handling
<1>2. PICK T : /\ T = {<<s, sweep[s]>> : s \in {i \in Ids : /\ sweep[i].status \in Moving \cup {"BROADCASTED"}
                                                          /\ sweep[i].attempts < MaxAttempts}}
               /\ worker' = [worker EXCEPT !.pc = "rows", !.todo = T]
  BY DEF PassLists
<1>3. worker'.pc = "rows" /\ worker'.todo = T /\ worker'.id = 0
  BY <1>1, <1>2 DEF Pass
<1>4. \A s \in Ids : Full(s)' = Full(s)
  BY <1>1, SameFull
<1>5. ASSUME NEW s \in Ids, sweep[s].status # "NONE", Claim(s)'
      PROVE  Claim(s)
  <2>1. FamilyOf(s)' = FamilyOf(s) /\ ~Busy(s)
    BY <1>1, <1>5, SameFamily DEF Busy
  <2>2. PICK r \in SweepRow : r = sweep[s]
    BY <1>1 DEF Books, Typed
  <2>3. MayFund(s, r) => Claim(s)
    BY <2>1, <2>2 DEF Claim
  <2>4. CASE (\E y \in worker.todo : y[1] = s /\ MayFund(s, y[2]))'
    <3>1. PICK y \in T : y[1] = s /\ MayFund(s, y[2])'
      BY <1>3, <2>4
    <3>2. y[2] = r
      BY <1>2, <2>2, <3>1
    <3>3. MayFund(s, r)'
      BY <3>1, <3>2 DEF MayFund
    <3> QED
      BY <1>4, <2>1, <2>3, <3>3, SameFunding
  <2>5. CASE MayFund(s, sweep[s])'
    <3>1. PICK x : x = sweep'[s]
      OBVIOUS
    <3>2. MayFund(s, x)'
      BY <2>5, <3>1 DEF MayFund
    <3>3. MayFund(s, x)
      BY <1>4, <2>1, <3>2, SameFunding
    <3>4. x = r \/ (x.status = "BLOCKED" /\ x.why = "limit")
      BY <2>2, <3>1 DEF PassLists, SweepRow
    <3> QED
      BY <2>3, <3>3, <3>4, NoFunding
  <2> QED
    BY <1>1, <1>3, <1>5, <2>4, <2>5 DEF Claim
<1> QED
  BY <1>1, <1>4, <1>5, TopCalm

LEMMA TopTakes ==
  ASSUME TopInv, Books', TakeRow
  PROVE  TopInv'
<1>1. /\ Books /\ 0 \notin Ids /\ worker.todo \in SUBSET (Ids \X SweepRow) /\ worker.id = 0
      /\ UNCHANGED <<credit, family, transfer, hook>>
      /\ \A y, z \in worker.todo : y[1] = z[1] => y = z
  BY IdsType DEF TakeRow, TopInv, Books, Typed, Pass, PassOk, Handling
<1>2. \A s \in Ids : Full(s)' = Full(s)
  BY <1>1, SameFull
<1>3. CASE SFault
  BY <1>1, <1>2, <1>3, TopFault
<1>4. CASE ~SFault /\ UNCHANGED <<sweep, fuel>> /\ worker' = Resting
  <2>1. \A s \in Ids : Claim(s)' => Claim(s)
    <3>1. UNCHANGED <<sweep, family, transfer>>
      BY <1>1, <1>4
    <3> QED
      BY <1>1, <1>4, <3>1 DEF Claim, MayFund, Busy, FamilyOf, Full, Sends, Resting
  <2> QED
    BY <1>1, <1>2, <1>4, <2>1, TopCalm
<1>5. CASE ~SFault /\ worker.todo # {}
  <2> DEFINE x == CHOOSE y \in worker.todo : \A z \in worker.todo : y[1] <= z[1]
             rest == worker.todo \ {x}
  <2>1. x \in worker.todo
    BY <1>1, <1>5, NextToDo
  <2>2. /\ worker' = [Resting EXCEPT !.pc = Stage(family[x[2].purse], x[2].status), !.todo = rest,
                                     !.id = x[1], !.row = x[2]]
        /\ UNCHANGED <<sweep, fuel>>
    BY <1>5 DEF TakeRow
  <2> HIDE DEF x
  <2>3. PICK s \in Ids, r \in SweepRow : s = x[1] /\ r = x[2] /\ x = <<s, r>>
    BY <1>1, <2>1
  <2>4. PICK pc \in {"confirm", "provider", "mark", "gas"} : pc = Stage(family[r.purse], r.status)
    BY StageTo
  <2> HIDE DEF rest
  <2>5. worker' = [Resting EXCEPT !.pc = pc, !.todo = rest, !.id = s, !.row = r]
    BY <2>2, <2>3, <2>4
  <2>6. worker'.pc = pc /\ worker'.todo = rest /\ worker'.id = s /\ worker'.row = r
    BY <2>5 DEF Resting
  <2>7. rest \subseteq worker.todo
    BY DEF rest
  <2>8. ASSUME NEW i \in Ids, sweep[i].status # "NONE", Claim(i)'
        PROVE  Claim(i)
    <3>1. FamilyOf(i)' = FamilyOf(i) /\ ~Busy(i)
      BY <1>1, <2>8, SameFamily DEF Busy
    <3>2. CASE (\E y \in worker.todo : y[1] = i /\ MayFund(i, y[2]))'
      <4>1. PICK y \in worker.todo : y[1] = i /\ MayFund(i, y[2])'
        BY <2>6, <2>7, <3>2
      <4>2. PICK z : z = y[2] /\ MayFund(i, z)'
        BY <4>1 DEF MayFund
      <4>3. MayFund(i, z)
        BY <1>2, <3>1, <4>2, SameFunding
      <4> QED
        BY <4>1, <4>2, <4>3 DEF Claim
    <3>3. CASE MayFund(i, sweep[i])'
      <4>1. PICK y : y = sweep[i] /\ MayFund(i, y)'
        BY <2>2, <3>3 DEF MayFund
      <4>2. MayFund(i, y)
        BY <1>2, <3>1, <4>1, SameFunding
      <4> QED
        BY <3>1, <4>1, <4>2 DEF Claim
    <3>4. CASE (worker.id = i /\ worker.pc = "gas" /\ MayFund(i, worker.row))'
      <4>1. i = s /\ MayFund(i, r)'
        BY <2>6, <3>4 DEF MayFund
      <4>2. MayFund(i, r)
        BY <1>2, <3>1, <4>1, SameFunding
      <4> QED
        BY <2>1, <2>3, <4>1, <4>2 DEF Claim
    <3> QED
      BY <2>6, <2>8, <3>2, <3>3, <3>4 DEF Claim
  <2> QED
    BY <1>1, <1>2, <2>2, <2>8, TopCalm
<1> QED
  BY <1>3, <1>4, <1>5 DEF TakeRow


\* A row that cannot be topped up, or one that stays while the pass is not busy with it.
LEMMA TopWritten ==
  ASSUME TopInv, Books', worker.id \in Ids, UNCHANGED <<credit, family, hook, fuel>>, NextRow,
         transfer' = transfer, \A i \in Ids \ {worker.id} : sweep'[i] = sweep[i],
         NEW x, x = sweep'[worker.id],
         \/ x = sweep[worker.id] /\ worker.pc \notin {"funded", "send", "sent"}
         \/ x.status \in {"CONFIRMED", "BROADCASTED"}
         \/ x.status = "BLOCKED" /\ x.why # "ineligible"
         \/ FamilyOf(worker.id) # "sol" /\ MayFund(worker.id, x) => Claim(worker.id)
  PROVE  TopInv'
<1>1. worker'.todo = worker.todo /\ worker'.id = 0
  BY DEF NextRow, Resting
<1>2. \A s \in Ids : Full(s)' = Full(s)
  BY SameFull
<1>3. CASE x = sweep[worker.id] /\ worker.pc \notin {"funded", "send", "sent"}
  <2>1. MayFund(worker.id, x) => Claim(worker.id)
    BY <1>3 DEF Claim, Busy
  <2> QED
    BY <1>1, <1>2, <2>1, TopHand
<1>4. CASE \/ x.status \in {"CONFIRMED", "BROADCASTED"}
           \/ x.status = "BLOCKED" /\ x.why # "ineligible"
  <2>1. ~MayFund(worker.id, x)
    BY <1>4, NoFunding
  <2> QED
    BY <1>1, <1>2, <2>1, TopHand
<1>5. CASE FamilyOf(worker.id) # "sol" /\ MayFund(worker.id, x) => Claim(worker.id)
  BY <1>1, <1>2, <1>5, TopHand
<1> QED
  BY <1>3, <1>4, <1>5

\* What is written when a sweep is blocked.
LEMMA BlockedRow ==
  ASSUME Books, NEW s \in Ids, NEW why, Block(s, why)
  PROVE  sweep'[s].status = "BLOCKED" /\ sweep'[s].why = why
<1>1. PICK r \in SweepRow : r = sweep[s]
  BY DEF Books, Typed
<1>2. PICK x : x = [r EXCEPT !.status = "BLOCKED", !.why = why]
  OBVIOUS
<1>3. Set(s, x)
  BY <1>1, <1>2 DEF Block
<1>4. sweep'[s] = x
  BY <1>3, SetRow
<1> QED
  BY <1>2, <1>4 DEF SweepRow

LEMMA TopSettles ==
  ASSUME TopInv, Books', Confirm \/ AskProvider \/ Sent
  PROVE  TopInv'
<1>1. Books /\ worker.id \in Ids /\ NextRow /\ \A i \in Ids \ {worker.id} : sweep'[i] = sweep[i]
  BY RowInHand DEF TopInv, Confirm, AskProvider, Sent
<1>2. UNCHANGED <<credit, family, hook, transfer>>
  BY DEF Confirm, AskProvider, Sent
<1>3. PICK r \in SweepRow : r = sweep[worker.id]
  BY <1>1 DEF Books, Typed
<1>4. CASE SFault
  <2>1. \A s \in Ids : Full(s)' \subseteq Full(s)
    BY <1>2, SameFull
  <2> QED
    BY <1>2, <1>4, <2>1, TopFault
<1>5. CASE ~SFault
  <2>1. UNCHANGED fuel
    BY <1>5 DEF Confirm, AskProvider, Sent
  <2>2. PICK y : y = sweep'[worker.id]
    OBVIOUS
  <2>3. \/ y = sweep[worker.id] /\ worker.pc \notin {"funded", "send", "sent"}
        \/ y.status \in {"CONFIRMED", "BROADCASTED"}
        \/ y.status = "BLOCKED" /\ y.why # "ineligible"
    <3>1. CASE Confirm
      <4>1. PICK x : x = [r EXCEPT !.status = "CONFIRMED", !.why = "NONE"]
        OBVIOUS
      <4>2. (UNCHANGED sweep /\ worker.pc = "confirm") \/ Set(worker.id, x) \/ Block(worker.id, "mismatch")
        BY <1>3, <3>1, <4>1 DEF Confirm
      <4>3. Set(worker.id, x) => y = x
        BY <1>1, <2>2, SetRow
      <4>4. x.status = "CONFIRMED"
        BY <4>1 DEF SweepRow
      <4> QED
        BY <1>1, <2>2, <4>2, <4>3, <4>4, BlockedRow
    <3>2. CASE AskProvider
      <4>1. PICK tx : tx = Max({t[3] : t \in {u \in DOMAIN transfer : u[1] = "sweep" /\ u[2] = worker.id}})
        OBVIOUS
      <4>2. PICK x : x = [r EXCEPT !.status = "BROADCASTED", !.tx = tx]
        OBVIOUS
      <4>3. \/ Set(worker.id, x) \/ Block(worker.id, "ambiguous") \/ Block(worker.id, "provider")
        BY <1>3, <1>5, <3>2, <4>1, <4>2 DEF AskProvider
      <4>4. Set(worker.id, x) => y = x
        BY <1>1, <2>2, SetRow
      <4>5. x.status = "BROADCASTED"
        BY <4>2 DEF SweepRow
      <4> QED
        BY <1>1, <2>2, <4>3, <4>4, <4>5, BlockedRow
    <3>3. CASE Sent
      <4>1. PICK req \in BOOLEAN :
              Set(worker.id, [r EXCEPT !.status = "BROADCASTED", !.tx = worker.att, !.req = req])
        BY <1>3, <3>3 DEF Sent
      <4>2. PICK x : x = [r EXCEPT !.status = "BROADCASTED", !.tx = worker.att, !.req = req]
        OBVIOUS
      <4>3. y = x
        BY <1>1, <2>2, <4>1, <4>2, SetRow
      <4> QED
        BY <4>2, <4>3 DEF SweepRow
    <3> QED
      BY <3>1, <3>2, <3>3
  <2> QED
    BY <1>1, <1>2, <2>1, <2>2, <2>3, TopWritten
<1> QED
  BY <1>4, <1>5

LEMMA TopFunded ==
  ASSUME TopInv, Books', Funded
  PROVE  TopInv'
<1>1. Books /\ worker.id \in Ids /\ NextRow /\ \A i \in Ids \ {worker.id} : sweep'[i] = sweep[i]
  BY RowInHand DEF TopInv, Funded
<1>2. PICK r \in SweepRow : r = sweep[worker.id]
  BY <1>1 DEF Books, Typed
<1>3. PICK x : x = [r EXCEPT !.status = "FUNDING_GAS", !.gasTx = worker.att]
  OBVIOUS
<1>4. x = sweep'[worker.id]
  <2>1. Set(worker.id, x)
    BY <1>2, <1>3 DEF Funded
  <2> QED
    BY <1>1, <2>1, SetRow
<1>5. x.status = "FUNDING_GAS" /\ x.gasTx = worker.att
  BY <1>3 DEF SweepRow
<1>6. MayFund(worker.id, x) => Claim(worker.id)
  BY <1>5 DEF MayFund, Claim, Funded
<1> QED
  BY <1>1, <1>4, <1>6, TopWritten DEF Funded

LEMMA TopMarks ==
  ASSUME TopInv, Books', Mark \/ LessThanAsked
  PROVE  TopInv'
<1>1. Books /\ worker.id \in Ids /\ (\A i \in Ids \ {worker.id} : sweep'[i] = sweep[i]) /\ worker \in Pass
  BY RowInHand DEF TopInv, Books, Typed
<1>2. UNCHANGED <<credit, family, hook, transfer, fuel>>
  BY DEF Mark, LessThanAsked
<1>3. \A s \in Ids : Full(s)' = Full(s)
  BY <1>2, SameFull
<1>4. PICK x : x = sweep'[worker.id]
  OBVIOUS
<1>5. CASE worker'.todo = worker.todo /\ worker'.id = worker.id /\ worker'.pc = "send"
  <2>1. worker'.id # 0
    BY <1>1, <1>5, IdsType DEF Books
  <2> QED
    BY <1>1, <1>2, <1>3, <1>4, <1>5, <2>1, TopHand
<1>6. CASE NextRow /\ Block(worker.id, "empty")
  <2>1. x.status = "BLOCKED" /\ x.why = "empty"
    BY <1>1, <1>4, <1>6, BlockedRow
  <2> QED
    BY <1>1, <1>2, <1>4, <1>6, <2>1, TopWritten
<1>7. CASE Mark
  <2>1. PICK att, value : worker' = [worker EXCEPT !.pc = "send", !.att = att, !.value = value]
    BY <1>7 DEF Mark
  <2> QED
    BY <1>1, <1>5, <2>1 DEF Pass
<1>8. CASE LessThanAsked
  <2>1. (NextRow /\ Block(worker.id, "empty"))
        \/ \E value : worker' = [worker EXCEPT !.value = value] /\ worker.pc = "send"
    BY <1>8 DEF LessThanAsked
  <2> QED
    BY <1>1, <1>5, <1>6, <2>1 DEF Pass
<1> QED
  BY <1>7, <1>8

LEMMA TopSends ==
  ASSUME TopInv, Books', Send
  PROVE  TopInv'
<1>1. Books /\ worker.id \in Ids /\ worker \in Pass /\ 0 \notin Ids
  BY RowInHand, IdsType DEF TopInv, Books, Typed
<1>2. UNCHANGED <<credit, family, hook>> /\ (transfer' = transfer \/ Transferred("sweep"))
  BY DEF Send
<1>3. \A s \in Ids : Full(s)' = Full(s)
  BY <1>2, SameFull
<1>4. CASE SFault
  BY <1>2, <1>3, <1>4, TopFault
<1>5. CASE ~SFault
  <2>1. worker' = [worker EXCEPT !.pc = "sent"] /\ UNCHANGED <<sweep, fuel>>
    BY <1>5 DEF Send
  <2>2. worker'.todo = worker.todo /\ worker'.id = worker.id /\ worker'.pc = "sent" /\ worker'.id # 0
    BY <1>1, <2>1 DEF Pass
  <2>3. PICK x : x = sweep'[worker.id]
    OBVIOUS
  <2> QED
    BY <1>1, <1>2, <1>3, <2>1, <2>2, <2>3, TopHand
<1> QED
  BY <1>4, <1>5

\* The webhook takes an event with a fault and gives the excuse back when it writes.
LEMMA TopReads ==
  ASSUME TopInv, Books', NEW t \in DOMAIN transfer, HookReads(t)
  PROVE  TopInv'
<1>1. /\ Books /\ hook.pc = "idle" /\ SFault /\ UNCHANGED <<credit, family, sweep, transfer, worker>>
      /\ fuel \in 0 .. MaxFaults /\ MaxFaults \in Nat
  BY FaultType, ConstantTypes DEF HookReads, TopInv, Books
<1>2. ASSUME NEW s \in Ids
      PROVE  TopUpOk(s)'
  <2>1. Full(s)' = Full(s)
    BY <1>1, SameFull
  <2>2. Excuses(s)' >= Excuses(s) /\ Excuses(s) = MaxFaults - fuel
    <3>1. PICK n \in {0, 1} : n = IF (hook.pc = "write" /\ hook.id = s)' THEN 1 ELSE 0
      OBVIOUS
    <3>2. Excuses(s)' = (MaxFaults - fuel') - n /\ Excuses(s) = MaxFaults - fuel
      <4>1. Excuses(s)' = (MaxFaults - fuel') - n
        BY <3>1 DEF Excuses, Used
      <4>2. Excuses(s) = (MaxFaults - fuel) - 0
        BY <1>1 DEF Excuses, Used
      <4> QED
        BY <1>1, <4>1, <4>2
    <3> QED
      BY <1>1, <3>2 DEF SFault
  <2>3. Claim(s)' => Claim(s)
    BY <1>1, <2>1 DEF Claim, MayFund, Busy, FamilyOf
  <2> QED
    BY <1>1, <2>1, <2>2, <2>3, TopStep
<1> QED
  BY <1>2, TopAll

LEMMA TopWrites ==
  ASSUME TopInv, Books', HookWrites
  PROVE  TopInv'
<1>1. /\ Books /\ hook.pc = "write" /\ hook'.pc = "idle" /\ hook.id \in Ids
      /\ UNCHANGED <<credit, family, worker, transfer, fuel>>
      /\ fuel \in 0 .. MaxFaults /\ MaxFaults \in Nat
  BY FaultType, ConstantTypes DEF HookWrites, NoHook, TopInv, Books, HookOk
<1>2. \A i \in Ids \ {hook.id} : sweep'[i] = sweep[i]
  BY DEF HookWrites, Set
<1>3. ASSUME NEW s \in Ids
      PROVE  TopUpOk(s)'
  <2>1. Full(s)' = Full(s)
    BY <1>1, SameFull
  <2>2. Excuses(s)' = MaxFaults - fuel
    <3>1. Excuses(s)' = (MaxFaults - fuel) - 0
      BY <1>1 DEF Excuses, Used
    <3> QED
      BY <1>1, <3>1
  <2>3. sweep[s].status # "NONE" => sweep'[s].purse = sweep[s].purse
    BY <1>1, PurseStays
  <2>4. CASE s = hook.id
    <3>1. Excuses(s) = (MaxFaults - fuel) - 1
      BY <1>1, <2>4 DEF Excuses, Used
    <3>2. Excuses(s)' >= Excuses(s) /\ Excuses(s)' # Excuses(s)
      BY <1>1, <2>2, <3>1
    <3> QED
      BY <1>1, <2>1, <2>3, <3>2, TopStep
  <2>5. CASE s # hook.id
    <3>1. Excuses(s) = (MaxFaults - fuel) - 0
      BY <1>1, <2>5 DEF Excuses, Used
    <3>2. Excuses(s)' >= Excuses(s)
      BY <1>1, <2>2, <3>1
    <3>3. Claim(s)' => Claim(s)
      BY <1>1, <1>2, <2>1, <2>5 DEF Claim, MayFund, Busy, FamilyOf
    <3> QED
      BY <1>1, <2>1, <2>3, <3>2, <3>3, TopStep
  <2> QED
    BY <2>4, <2>5
<1> QED
  BY <1>3, TopAll


\* What a pass may do that looks at the gas of a sweep s with row r, listed as o.
GasOutcome(s, r, o, f) ==
  \/ (\E why \in {"empty", "gas"} : Block(s, why)) /\ NextRow
  \/ UNCHANGED sweep /\ NextRow
  \/ /\ \E raw : Set(s, [r EXCEPT !.status = "PENDING", !.raw = raw, !.why = "NONE"])
     /\ NextRow /\ o.status = "FUNDING_GAS" /\ f = "tron"
     /\ o.gasTx = 0 \/ transfer[<<"gas", s, o.gasTx>>].state = "mined"
  \/ \E raw : /\ Set(s, [r EXCEPT !.raw = raw])
              /\ \E q : worker' = [worker EXCEPT !.pc = "mark", !.row.raw = q]
  \/ /\ TopsUp(f, o, o.purse)
     /\ \E raw, att, missing :
          /\ worker' = [worker EXCEPT !.pc = "fund", !.att = att, !.value = Missing(f, o.purse, missing)]
          /\ \/ Set(s, [r EXCEPT !.attempts = r.attempts + 1, !.raw = raw])
             \/ Set(s, [r EXCEPT !.attempts = r.attempts + 1, !.raw = raw, !.status = "BLOCKED", !.why = "gas"])

LEMMA GasOutcomes ==
  ASSUME Books, CheckGas, NEW s, s = worker.id, NEW r \in SweepRow, r = sweep[s],
         NEW o \in SweepRow, o = worker.row, NEW f, f = family[o.purse]
  PROVE  GasOutcome(s, r, o, f)
<1> DEFINE w == o.purse
           waits == o.status = "FUNDING_GAS" /\ f # "sol"
<1>1. PICK raw : raw = IF f = "tron" THEN Capped(o.raw, wallet[w].tok) ELSE o.raw
  OBVIOUS
<1>2. PICK gasTx : gasTx = IF o.gasTx = 0 THEN "none" ELSE transfer[<<"gas", s, o.gasTx>>].state
  OBVIOUS
<1>3. CASE f = "tron" /\ wallet[w].tok = 0
  BY <1>3 DEF CheckGas, GasOutcome
<1>4. CASE ~(f = "tron" /\ wallet[w].tok = 0) /\ Missing(f, w, raw) <= 0
  <2>1. /\ Set(s, [r EXCEPT !.raw = IF f = "tron" THEN raw ELSE r.raw])
        /\ worker' = [worker EXCEPT !.pc = "mark", !.row.raw = raw]
    BY <1>1, <1>4 DEF CheckGas
  <2> QED
    BY <2>1 DEF GasOutcome
<1>5. CASE /\ ~(f = "tron" /\ wallet[w].tok = 0) /\ ~(Missing(f, w, raw) <= 0)
           /\ waits /\ gasTx = "reverted" /\ (f = "tron" \/ wallet[w].gas = 0)
  <2>1. Block(s, "gas") /\ NextRow
    BY <1>1, <1>2, <1>5 DEF CheckGas
  <2> QED
    BY <2>1 DEF GasOutcome
<1>6. CASE /\ ~(f = "tron" /\ wallet[w].tok = 0) /\ ~(Missing(f, w, raw) <= 0)
           /\ ~(waits /\ gasTx = "reverted" /\ (f = "tron" \/ wallet[w].gas = 0))
           /\ waits /\ f = "tron" /\ gasTx = "mined"
  <2>1. Set(s, [r EXCEPT !.status = "PENDING", !.raw = raw, !.why = "NONE"]) /\ NextRow
    BY <1>1, <1>2, <1>6 DEF CheckGas
  <2> QED
    BY <1>2, <1>6, <2>1 DEF GasOutcome
<1>7. CASE /\ ~(f = "tron" /\ wallet[w].tok = 0) /\ ~(Missing(f, w, raw) <= 0)
           /\ ~(waits /\ gasTx = "reverted" /\ (f = "tron" \/ wallet[w].gas = 0))
           /\ ~(waits /\ f = "tron" /\ gasTx = "mined") /\ ~TopsUp(f, o, w)
  BY <1>1, <1>2, <1>7 DEF CheckGas, GasOutcome
<1>8. CASE /\ ~(f = "tron" /\ wallet[w].tok = 0) /\ ~(Missing(f, w, raw) <= 0)
           /\ ~(waits /\ gasTx = "reverted" /\ (f = "tron" \/ wallet[w].gas = 0))
           /\ ~(waits /\ f = "tron" /\ gasTx = "mined") /\ TopsUp(f, o, w)
  <2>1. PICK q : q = IF f = "tron" THEN raw ELSE r.raw
    OBVIOUS
  <2>2. /\ Set(s, [r EXCEPT !.attempts = r.attempts + 1, !.raw = q,
                            !.status = IF waits /\ gasTx = "reverted" THEN "BLOCKED" ELSE r.status,
                            !.why = IF waits /\ gasTx = "reverted" THEN "gas" ELSE r.why])
        /\ worker' = [worker EXCEPT !.pc = "fund", !.att = r.attempts + 1, !.value = Missing(f, w, raw)]
    BY <1>1, <1>2, <1>8, <2>1 DEF CheckGas
  <2>3. CASE waits /\ gasTx = "reverted"
    <3>1. Set(s, [r EXCEPT !.attempts = r.attempts + 1, !.raw = q, !.status = "BLOCKED", !.why = "gas"])
      BY <2>2, <2>3
    <3> QED
      BY <1>8, <2>2, <3>1 DEF GasOutcome
  <2>4. CASE ~(waits /\ gasTx = "reverted")
    <3>1. Set(s, [r EXCEPT !.attempts = r.attempts + 1, !.raw = q])
      <4>1. [r EXCEPT !.attempts = r.attempts + 1, !.raw = q, !.status = r.status, !.why = r.why]
              = [r EXCEPT !.attempts = r.attempts + 1, !.raw = q]
        BY DEF SweepRow
      <4>2. Set(s, [r EXCEPT !.attempts = r.attempts + 1, !.raw = q, !.status = r.status, !.why = r.why])
        BY <2>2, <2>4
      <4> QED
        BY <4>1, <4>2
    <3> QED
      BY <1>8, <2>2, <3>1 DEF GasOutcome
  <2> QED
    BY <2>3, <2>4
<1> QED
  BY <1>3, <1>4, <1>5, <1>6, <1>7, <1>8

\* An empty wallet is topped up for a sweep that waits only when that may be.
LEMMA ToppedUpMay ==
  ASSUME Books, worker.pc = "gas", NEW s, s = worker.id, NEW o \in SweepRow, o = worker.row,
         NEW missing, FamilyOf(s) # "sol", TopsUp(FamilyOf(s), o, o.purse),
         FamilyOf(s) = "tron" \/ Missing(FamilyOf(s), o.purse, missing) = GasNeed
  PROVE  MayFund(s, o)
<1>1. /\ s \in Ids /\ o.purse \in Purses /\ family[o.purse] = FamilyOf(s)
      /\ o.status \in Moving \cup {"BROADCASTED"} /\ PassOk
  BY InHand DEF Handling, FamilyOf, Books
<1>2. o.status \in Moving /\ (o.status = "BROADCASTING" => FamilyOf(s) = "tron")
  BY <1>1 DEF PassOk, Handling
<1>3. CASE FamilyOf(s) = "tron"
  <2>1. o.status # "FUNDING_GAS" \/ o.gasTx = 0
    BY <1>3 DEF TopsUp
  <2>2. <<"gas", s, 0>> \notin Full(s)
    BY DEF Books, Typed, Full, Sends
  <2> QED
    BY <1>2, <1>3, <2>1, <2>2 DEF MayFund, Moving
<1>4. CASE FamilyOf(s) # "tron"
  <2>1. wallet[o.purse].gas \in Nat /\ GasNeed \in Nat
    BY <1>1, MissingType, ConstantTypes DEF Books, SweepRow
  <2>2. GasNeed - wallet[o.purse].gas = GasNeed
    BY <1>4 DEF Missing
  <2>3. o.status # "FUNDING_GAS" \/ wallet[o.purse].gas > 0
    BY <1>4 DEF TopsUp
  <2>4. o.status # "FUNDING_GAS"
    BY <2>1, <2>2, <2>3
  <2> QED
    BY <1>2, <1>4, <2>4 DEF MayFund, Moving
<1> QED
  BY <1>3, <1>4

LEMMA TopGas ==
  ASSUME TopInv, Books', CheckGas
  PROVE  TopInv'
<1>1. /\ Books /\ worker.id \in Ids /\ worker.pc \in Handling /\ \A i \in Ids \ {worker.id} : sweep'[i] = sweep[i]
      /\ worker \in Pass
  BY RowInHand DEF TopInv, Books, Typed
<1>2. worker.pc = "gas" /\ UNCHANGED <<credit, family, transfer, hook, fuel>>
  BY DEF CheckGas
<1>3. PICK s \in Ids : s = worker.id
  BY <1>1
<1>4. PICK r \in SweepRow : r = sweep[s]
  BY <1>1, <1>3 DEF Books, Typed
<1>5. PICK o \in SweepRow : o = worker.row
  BY <1>1, InHand
<1>6. FamilyOf(s) = family[o.purse]
  BY <1>1, <1>3, <1>5, InHand DEF FamilyOf
<1>7. PICK y : y = sweep'[worker.id]
  OBVIOUS
<1>8. \A i \in Ids : Full(i)' = Full(i)
  BY <1>2, SameFull
\* The row is not changed in what may be funded.
<1>9. ASSUME NEW x, x.status = r.status, x.why = r.why, x.gasTx = r.gasTx, MayFund(s, x)
      PROVE  Claim(s)
  BY <1>2, <1>4, <1>9 DEF MayFund, Claim, Busy
<1>10. CASE (\E why \in {"empty", "gas"} : Block(s, why)) /\ NextRow
  <2>1. y.status = "BLOCKED" /\ y.why # "ineligible"
    BY <1>1, <1>3, <1>7, <1>10, BlockedRow
  <2> QED
    BY <1>1, <1>2, <1>7, <1>10, <2>1, TopWritten
<1>11. CASE UNCHANGED sweep /\ NextRow
  <2>1. y = sweep[worker.id] /\ worker.pc \notin {"funded", "send", "sent"}
    BY <1>2, <1>7, <1>11
  <2> QED
    BY <1>1, <1>2, <1>7, <1>11, <2>1, TopWritten
<1>12. CASE /\ NextRow /\ o.status = "FUNDING_GAS" /\ FamilyOf(s) = "tron"
            /\ o.gasTx = 0 \/ transfer[<<"gas", s, o.gasTx>>].state = "mined"
  <2>1. <<"gas", s, o.gasTx>> \notin Full(s)
    BY <1>1, <1>12 DEF Books, Typed, Full, Sends
  <2>2. MayFund(s, o)
    BY <1>12, <2>1 DEF MayFund
  <2>3. Claim(worker.id)
    BY <1>2, <1>3, <1>5, <2>2 DEF Claim
  <2> QED
    BY <1>1, <1>2, <1>7, <1>12, <2>3, TopWritten
<1>13. ASSUME NEW raw, Set(s, [r EXCEPT !.raw = raw]), NEW q, worker' = [worker EXCEPT !.pc = "mark", !.row.raw = q]
       PROVE  TopInv'
  <2>1. PICK x : x = [r EXCEPT !.raw = raw]
    OBVIOUS
  <2>2. y = x
    BY <1>1, <1>3, <1>7, <1>13, <2>1, SetRow
  <2>3. x.status = r.status /\ x.why = r.why /\ x.gasTx = r.gasTx
    BY <2>1 DEF SweepRow
  <2>4. MayFund(worker.id, y) => Claim(worker.id)
    BY <1>3, <1>9, <2>2, <2>3
  <2>5. worker'.todo = worker.todo /\ worker'.id = worker.id /\ worker'.pc = "mark"
    BY <1>1, <1>13 DEF Pass
  <2> QED
    BY <1>1, <1>2, <1>7, <1>8, <2>4, <2>5, TopHand
<1>14. ASSUME NEW raw, NEW att, NEW missing, TopsUp(FamilyOf(s), o, o.purse),
              worker' = [worker EXCEPT !.pc = "fund", !.att = att, !.value = Missing(FamilyOf(s), o.purse, missing)],
              \/ Set(s, [r EXCEPT !.attempts = r.attempts + 1, !.raw = raw])
              \/ Set(s, [r EXCEPT !.attempts = r.attempts + 1, !.raw = raw, !.status = "BLOCKED", !.why = "gas"])
       PROVE  TopInv'
  <2>1. /\ worker'.todo = worker.todo /\ worker'.id = s /\ worker'.pc = "fund"
        /\ worker'.value = Missing(FamilyOf(s), o.purse, missing)
    BY <1>1, <1>3, <1>14 DEF Pass
  <2>2. MayFund(s, y) => Claim(s)
    <3>1. CASE Set(s, [r EXCEPT !.attempts = r.attempts + 1, !.raw = raw])
      <4>1. PICK x : x = [r EXCEPT !.attempts = r.attempts + 1, !.raw = raw]
        OBVIOUS
      <4>2. y = x
        BY <1>1, <1>3, <1>7, <3>1, <4>1, SetRow
      <4>3. x.status = r.status /\ x.why = r.why /\ x.gasTx = r.gasTx
        BY <4>1 DEF SweepRow
      <4> QED
        BY <1>9, <4>2, <4>3
    <3>2. CASE Set(s, [r EXCEPT !.attempts = r.attempts + 1, !.raw = raw, !.status = "BLOCKED", !.why = "gas"])
      <4>1. PICK x : x = [r EXCEPT !.attempts = r.attempts + 1, !.raw = raw, !.status = "BLOCKED", !.why = "gas"]
        OBVIOUS
      <4>2. y = x
        BY <1>1, <1>3, <1>7, <3>2, <4>1, SetRow
      <4>3. x.status = "BLOCKED" /\ x.why = "gas"
        BY <4>1 DEF SweepRow
      <4> QED
        BY <4>2, <4>3, NoFunding
    <3> QED
      BY <1>14, <3>1, <3>2
  <2>3. FamilyOf(s) # "sol" /\ (FamilyOf(s) = "tron" \/ worker'.value = GasNeed) => Claim(s)
    <3> SUFFICES ASSUME FamilyOf(s) # "sol", FamilyOf(s) = "tron" \/ worker'.value = GasNeed
                 PROVE  Claim(s)
      OBVIOUS
    <3>1. MayFund(s, o)
      BY <1>1, <1>2, <1>3, <1>5, <1>14, <2>1, ToppedUpMay
    <3> QED
      BY <1>2, <1>3, <1>5, <3>1 DEF Claim
  <2>4. ASSUME NEW i \in Ids, sweep[i].status # "NONE", FamilyOf(i) # "sol", Claim(i)'
        PROVE  Claim(i)
    <3>1. FamilyOf(i)' = FamilyOf(i)
      BY <1>1, <1>2, <2>4, SameFamily
    <3>2. CASE i # s
      <4>1. PICK x : x = sweep'[i] /\ x = sweep[i]
        BY <1>1, <1>3, <3>2
      <4>2. MayFund(i, x) => Claim(i)
        BY <1>3, <3>2, <4>1 DEF Claim, Busy
      <4> QED
        BY <1>1, <1>8, <2>1, <2>4, <3>1, <3>2, <4>1, <4>2, ClaimStep
    <3>3. CASE i = s
      <4>1. CASE (\E z \in worker.todo : z[1] = s /\ MayFund(s, z[2]))'
        <5>1. PICK z \in worker.todo : z[1] = s /\ MayFund(s, z[2])'
          BY <2>1, <4>1
        <5>2. z[1] # s
          BY <1>1, <1>3, <5>1 DEF Books, PassOk
        <5> QED
          BY <5>1, <5>2
      <4>2. CASE MayFund(s, sweep[s])'
        <5>1. MayFund(s, y)'
          BY <1>3, <1>7, <4>2 DEF MayFund
        <5>2. MayFund(s, y)
          BY <1>8, <3>1, <3>3, <5>1, SameFunding
        <5> QED
          BY <2>2, <3>3, <5>2
      <4>3. CASE (worker.pc = "fund" /\ (worker.value = GasNeed \/ FamilyOf(s) = "tron"))'
        BY <2>3, <2>4, <3>1, <3>3, <4>3
      <4> QED
        BY <2>1, <2>4, <3>3, <4>1, <4>2, <4>3 DEF Claim
    <3> QED
      BY <3>2, <3>3
  <2> QED
    BY <1>2, <1>8, <2>4, TopCalm
<1>15. \/ (\E why \in {"empty", "gas"} : Block(s, why)) /\ NextRow
       \/ UNCHANGED sweep /\ NextRow
       \/ /\ NextRow /\ o.status = "FUNDING_GAS" /\ FamilyOf(s) = "tron"
          /\ o.gasTx = 0 \/ transfer[<<"gas", s, o.gasTx>>].state = "mined"
       \/ \E raw, q : /\ Set(s, [r EXCEPT !.raw = raw])
                      /\ worker' = [worker EXCEPT !.pc = "mark", !.row.raw = q]
       \/ /\ TopsUp(FamilyOf(s), o, o.purse)
          /\ \E raw, att, missing :
               /\ worker' = [worker EXCEPT !.pc = "fund", !.att = att,
                                           !.value = Missing(FamilyOf(s), o.purse, missing)]
               /\ \/ Set(s, [r EXCEPT !.attempts = r.attempts + 1, !.raw = raw])
                  \/ Set(s, [r EXCEPT !.attempts = r.attempts + 1, !.raw = raw, !.status = "BLOCKED", !.why = "gas"])
  <2>1. PICK f : f = FamilyOf(s) /\ f = family[o.purse]
    BY <1>6
  <2>2. GasOutcome(s, r, o, f)
    BY <1>1, <1>3, <1>4, <1>5, <2>1, GasOutcomes
  <2>3. GasOutcome(s, r, o, FamilyOf(s))
    BY <2>1, <2>2
  <2> HIDE <1>1, <1>3, <1>4, <1>5
  <2> QED
    BY <2>3 DEF GasOutcome
<1> QED
  BY <1>10, <1>11, <1>12, <1>13, <1>14, <1>15

\* A top-up that is sent is one more under way if it is a full one.
LEMMA FullGrows ==
  ASSUME NEW s, s = worker.id, Transferred("gas")
  PROVE  /\ \A i : i # s => Full(i)' = Full(i)
         /\ worker.value = GasNeed => Full(s)' = Full(s) \cup {<<"gas", s, worker.att>>}
         /\ worker.value # GasNeed => Full(s)' \subseteq Full(s)
<1>0. PICK n : n = <<"gas", s, worker.att>>
  OBVIOUS
<1>1. n = <<"gas", s, worker.att>> /\ n[1] = "gas" /\ n[2] = s
  BY <1>0
<1>2. /\ DOMAIN transfer' = DOMAIN transfer \cup {n}
      /\ transfer'[n] = [value |-> worker.value, state |-> "sent"]
      /\ \A t \in DOMAIN transfer : t # n => transfer'[t] = transfer[t]
  BY <1>1 DEF Transferred
<1>3. \A i : i # s => Full(i)' = Full(i)
  BY <1>1, <1>2 DEF Full, Sends
<1>4. CASE worker.value = GasNeed
  BY <1>1, <1>2, <1>3, <1>4 DEF Full, Sends
<1>5. CASE worker.value # GasNeed
  <2>1. transfer'[n] # [value |-> GasNeed, state |-> "sent"]
    BY <1>2, <1>5
  <2> QED
    BY <1>1, <1>2, <1>3, <1>5, <2>1 DEF Full, Sends
<1> QED
  BY <1>3, <1>4, <1>5

LEMMA TopFund ==
  ASSUME TopInv, Books', Fund
  PROVE  TopInv'
<1>1. /\ Books /\ worker.id \in Ids /\ (\A i \in Ids \ {worker.id} : sweep'[i] = sweep[i])
      /\ worker \in Pass /\ 0 \notin Ids
  BY RowInHand, IdsType DEF TopInv, Books, Typed
<1>2. worker.pc = "fund" /\ UNCHANGED <<credit, family, hook>>
  BY DEF Fund
<1>3. PICK s \in Ids : s = worker.id /\ sweep[s].status # "NONE"
  BY <1>1, <1>2, InHand DEF Handling
<1>4. PICK n : n = <<"gas", s, worker.att>>
  OBVIOUS
<1>5. CASE transfer' = transfer /\ SFault
  <2>1. \A i \in Ids : Full(i)' \subseteq Full(i)
    BY <1>5, SameFull
  <2> QED
    BY <1>2, <1>5, <2>1, TopFault
<1>6. CASE /\ Transferred("gas") /\ UNCHANGED sweep
           /\ \/ worker' = [worker EXCEPT !.pc = "funded"] /\ UNCHANGED fuel
              \/ NextRow /\ SFault
  <2>1. /\ \A i \in Ids : i # s => Full(i)' = Full(i)
        /\ worker.value = GasNeed => Full(s)' = Full(s) \cup {n}
        /\ worker.value # GasNeed => Full(s)' \subseteq Full(s)
    BY <1>3, <1>4, <1>6, FullGrows
  <2>2. /\ worker'.todo = worker.todo
        /\ \/ worker'.id = s /\ worker'.pc = "funded" /\ worker'.att = worker.att /\ UNCHANGED fuel
           \/ worker'.id = 0 /\ SFault
    BY <1>1, <1>3, <1>6 DEF Pass, NextRow, Resting
  <2>3. \A i \in Ids : /\ UNCHANGED fuel => Excuses(i)' = Excuses(i)
                       /\ SFault => Excuses(i)' = Excuses(i) + 1
    BY <1>1, <1>2, Excused
  <2>4. \A i \in Ids : Excuses(i) \in Int
    BY <1>1, FullType
  <2>5. \A i \in Ids : Excuses(i)' >= Excuses(i)
    BY <2>2, <2>3, <2>4
  <2>6. ASSUME NEW i \in Ids, i # s
        PROVE  TopUpOk(i)'
    <3>1. FamilyOf(i)' = FamilyOf(i)
      BY <1>2, <1>6 DEF FamilyOf
    <3>2. PICK x : x = sweep'[i] /\ x = sweep[i]
      BY <1>6
    <3>3. MayFund(i, x) => Claim(i)
      BY <1>3, <2>6, <3>2 DEF Claim, Busy
    <3>4. Claim(i)' => Claim(i)
      BY <1>1, <2>1, <2>2, <2>6, <3>1, <3>2, <3>3, ClaimStep
    <3>5. Full(i)' \subseteq Full(i)
      BY <2>1, <2>6
    <3> QED
      BY <1>2, <1>6, <2>5, <3>4, <3>5, TopStep
  <2>7. \A y \in worker.todo : y[1] # s
    BY <1>1, <1>3 DEF Books, PassOk
  <2>8. CASE worker.value # GasNeed
    <3>1. UNCHANGED fuel /\ FamilyOf(s) # "sol" /\ Claim(s)' => Claim(s)
      <4> SUFFICES ASSUME UNCHANGED fuel, Claim(s)'
                   PROVE  Claim(s)
        OBVIOUS
      <4>1. worker'.id = s /\ worker'.pc = "funded"
        <5>1. ~SFault
          BY <1>1, FaultType DEF SFault, Books
        <5> QED
          BY <2>2, <5>1
      <4>2. FamilyOf(s)' = "tron"
        BY <2>2, <2>7, <4>1 DEF Claim, Busy
      <4>3. FamilyOf(s) = "tron"
        BY <1>2, <1>6, <4>2 DEF FamilyOf
      <4> QED
        BY <1>2, <1>3, <4>3 DEF Claim
    <3>2. SFault => Excuses(s)' # Excuses(s)
      BY <2>3, <2>4
    <3>3. TopUpOk(s)'
      BY <1>2, <1>3, <1>6, <2>1, <2>2, <2>5, <2>8, <3>1, <3>2, TopStep
    <3>4. ASSUME NEW i \in Ids
          PROVE  TopUpOk(i)'
      BY <2>6, <3>3
    <3> QED
      BY <3>4, TopAll
  <2>9. CASE worker.value = GasNeed
    <3>0. PICK F : F = Full(s)
      OBVIOUS
    <3>1. IsFiniteSet(F) /\ F = Full(s) /\ Cardinality(F) \in Nat
      BY <1>1, <3>0, FullType
    <3>m. PICK m \in Nat : m = Cardinality(F)
      BY <3>1
    <3>2. Cardinality(F \cup {n}) \in Nat /\ Cardinality(F \cup {n}) <= m + 1
      <4>1. IsFiniteSet(F \cup {n}) /\ Cardinality(F \cup {n}) \in {m, m + 1}
        BY <3>1, <3>m, FS_AddElement
      <4> QED
        BY <4>1
    <3>3. Claim(s)
      BY <1>2, <1>3, <2>9 DEF Claim
    <3>4. FamilyOf(s)' = FamilyOf(s)
      BY <1>2, <1>6 DEF FamilyOf
    <3>5. ASSUME FamilyOf(s) # "sol"
          PROVE  /\ Cardinality(Full(s))' <= 1 + Excuses(s)'
                 /\ Claim(s)' => Cardinality(Full(s))' <= Excuses(s)'
      <4>1. PICK e \in Int : e = Excuses(s) /\ m <= e
        BY <2>4, <3>1, <3>m, <3>3, <3>5 DEF TopInv, TopUpOk
      <4>2. PICK k \in Nat : k = Cardinality(Full(s))' /\ k <= e + 1
        <5>1. Full(s)' = F \cup {n}
          BY <2>1, <2>9, <3>1
        <5> QED
          BY <3>2, <4>1, <5>1
      <4>3. CASE SFault
        <5>1. Excuses(s)' = e + 1
          BY <2>3, <4>1, <4>3
        <5> QED
          BY <4>1, <4>2, <5>1
      <4>4. CASE worker'.id = s /\ worker'.pc = "funded" /\ worker'.att = worker.att /\ UNCHANGED fuel
        <5>1. Excuses(s)' = e
          BY <2>3, <4>1, <4>4
        <5>2. ~Claim(s)'
          <6>1. <<"gas", s, worker.att>>' \in Full(s)'
            BY <1>4, <2>1, <2>9, <4>4
          <6> QED
            BY <2>2, <2>7, <4>4, <6>1 DEF Claim, Busy
        <5> QED
          BY <4>1, <4>2, <5>1, <5>2
      <4> QED
        BY <2>2, <4>3, <4>4
    <3>6. TopUpOk(s)'
      BY <3>4, <3>5 DEF TopUpOk
    <3>7. ASSUME NEW i \in Ids
          PROVE  TopUpOk(i)'
      BY <2>6, <3>6
    <3> QED
      BY <3>7, TopAll
  <2> QED
    BY <2>8, <2>9
<1> QED
  BY <1>5, <1>6 DEF Fund

LEMMA TopInit ==
  ASSUME SweepAssumption, SInit
  PROVE  TopInv
<1>1. Books
  BY BooksInit
<1>2. ASSUME NEW s \in Ids
      PROVE  TopUpOk(s)
  <2>1. Full(s) = {} /\ Excuses(s) >= 0
    <3>1. sweep[s].status = "NONE"
      BY DEF SInit, NoRow
    <3> QED
      BY <1>1, <3>1, NoneFull
  <2>2. Cardinality(Full(s)) = 0 /\ Excuses(s) \in Int
    BY <1>1, <2>1, FS_EmptySet, FullType
  <2> QED
    BY <2>1, <2>2 DEF TopUpOk
<1> QED
  BY <1>1, <1>2 DEF TopInv

LEMMA TopNext ==
  ASSUME TopInv, [SNext]_svars
  PROVE  TopInv'
<1>1. Books'
  BY BooksNext DEF TopInv
<1>2. ASSUME NEW d \in Credits, Arrive(d)
      PROVE  TopInv'
  BY <1>1, <1>2, TopArrive
<1>3. ASSUME NEW t \in DOMAIN transfer, Mine(t) \/ HookReads(t)
      PROVE  TopInv'
  BY <1>1, <1>3, TopMine, TopReads
<1>4. CASE (\E s \in Ids : RecoverBlocked(s)) \/ Dies
  BY <1>1, <1>4, TopFaulty
<1>5. CASE PassStep
  BY <1>1, <1>5, TopBegins, TopCreates, TopLists, TopTakes, TopSettles, TopGas, TopFund, TopFunded,
     TopMarks, TopSends DEF PassStep
<1>6. CASE HookWrites
  BY <1>1, <1>6, TopWrites
<1>7. CASE UNCHANGED svars
  <2>1. UNCHANGED <<credit, family, sweep, transfer, worker, hook, fuel>>
    BY <1>7 DEF svars
  <2>2. \A s \in Ids : Full(s)' = Full(s)
    BY <2>1, SameFull
  <2>3. \A s \in Ids : Claim(s)' => Claim(s)
    BY <2>1, <2>2 DEF Claim, MayFund, Busy, FamilyOf
  <2> QED
    BY <1>1, <2>1, <2>2, <2>3, TopCalm
<1> QED
  BY <1>2, <1>3, <1>4, <1>5, <1>6, <1>7 DEF SNext

LEMMA TopAlways == SweepAssumption /\ SSpec => []TopInv
<1>1. SweepAssumption /\ SInit => TopInv
  BY TopInit
<1>2. TopInv /\ [SNext]_svars => TopInv'
  BY TopNext
<1> QED
  BY <1>1, <1>2, PTL DEF SSpec

LEMMA TopsUpOnce ==
  ASSUME TopInv
  PROVE  OneTopUpPerFault
<1> SUFFICES ASSUME NEW s \in Ids, FamilyOf(s) # "sol"
             PROVE  Cardinality(Full(s)) <= 1 + (MaxFaults - fuel)
  BY DEF OneTopUpPerFault, Full
<1>1. Books /\ TopUpOk(s)
  BY DEF TopInv
<1>2. Cardinality(Full(s)) \in Nat /\ Used \in Nat
  BY <1>1, FullType
<1>3. Excuses(s) <= Used
  BY <1>2 DEF Excuses
<1>4. Cardinality(Full(s)) <= 1 + Used
  BY <1>1, <1>2, <1>3, FullType DEF TopUpOk
<1> QED
  BY <1>4 DEF Used

-----------------------------------------------------------------------------
(* What the books show *)

\* A sweep collects deposits of its own wallet and never asks for more than they brought,
\* whatever the wallet holds and however often it is started again (createPendingSweeps,
\* processTronSweep's and processSweep's second look at the balance).
THEOREM SweepIsItsDepositsAlways == SSpec => []SweepIsItsDeposits
<1>1. Books => SweepIsItsDeposits
  <2> SUFFICES ASSUME Books, NEW s \in Ids, sweep[s].status # "NONE"
               PROVE  /\ InSweep(s) # {} /\ \A d \in InSweep(s) : credit[d].purse = sweep[s].purse
                      /\ sweep[s].raw <= Amount * Cardinality(InSweep(s))
    BY DEF SweepIsItsDeposits
  <2>1. RowOk(s, sweep[s]) /\ Limit(s) \in Nat
    BY LimitType DEF Books
  <2>2. sweep[s].raw \in 1 .. Limit(s)
    BY <2>1 DEF RowOk
  <2> QED
    BY <2>1, <2>2 DEF RowOk, Limit
<1> QED
  BY <1>1, BooksAlways, SweepSizes, PTL

\* CONFIRMED is written from what was mined for this very sweep, by confirmSweep or from a
\* webhook call that had read it so.
THEOREM ConfirmedIsSweptAlways == SSpec => []ConfirmedIsSwept
<1>1. Books => ConfirmedIsSwept
  <2> SUFFICES ASSUME Books, NEW s \in Ids, sweep[s].status = "CONFIRMED"
               PROVE  \E t \in Sends("sweep", s) : transfer[t].state = "mined" /\ transfer[t].value > 0
    BY DEF ConfirmedIsSwept
  <2>1. PICK t \in Sends("sweep", s) : transfer[t].state = "mined"
    BY DEF Books, RowOk
  <2>2. transfer[t] \in Paid
    BY DEF Books, Typed, Sends
  <2> QED
    BY <2>1, <2>2 DEF Paid
<1> QED
  BY <1>1, BooksAlways, SweepSizes, PTL

\* Calls are lost, the process dies, events come late and in any order: nothing of a sweep
\* that nobody put back is sent twice (but on Tron), and for each lost outcome an empty
\* wallet has at most one more top-up under way (processSweep, sendSweepGasTopup).
THEOREM SentOnceAlways == SSpec => []SentOnce
<1>1. OneInv /\ TopInv => SentOnce
  BY SendsOnce, TopsUpOnce DEF SentOnce
<1> QED
  BY <1>1, OneAlways, TopAlways, SweepSizes, PTL


-----------------------------------------------------------------------------
(* Treasury: the inductive invariant *)

TopUpRow == [status : {"NONE", "BROADCASTING", "BROADCASTED", "CONFIRMED", "FAILED"}, amount : 0 .. MaxSingle,
             known : BOOLEAN, tx : {"none", "sent", "mined", "reverted"}]
TopUpPot == [hot : Nat, safe : Nat, gas : Nat, coming : Nat]

\* Where a call has a row of its own, before and after it sends; where a call may still send.
NotSent   == {"gas", "wait", "send"}
Owning   == NotSent \cup {"sent"}
Wanting  == NotSent \cup {"create"}
Counting == Owning \cup {"balances", "create"}
TopUpCall == [pc : {"idle", "stale", "look", "read", "after"} \cup Counting, need : Needs \cup {0},
              amount : 0 .. MaxSingle, row : Rows, tried : BOOLEAN]

\* The calls c and the rows r: a call has its row for itself, nobody has written BROADCASTED
\* there, and it is of the amount of the call, which is not under way before the call sends it.
OwnRows(r, c) ==
  /\ \A k \in Callers : c[k].pc \in Owning => r[c[k].row].status \in {"BROADCASTING", "FAILED"}
  /\ \A k \in Callers : c[k].pc \in NotSent => r[c[k].row].amount = c[k].amount /\ r[c[k].row].tx # "sent"
  /\ \A j, k \in Callers : c[j].pc \in Owning /\ c[k].pc \in Owning /\ c[j].row = c[k].row => j = k

\* What rows and calls weigh: one full top-up, or their amount.
If(b, n) == IF b THEN n ELSE 0
Waiting(x)  == If(x.tx = "sent" /\ x.status = "BROADCASTED", MaxSingle)
Lost(x)     == If(x.tx = "sent" /\ x.status # "BROADCASTED", MaxSingle)
Going(x)    == If(x.tx = "sent", x.amount)
Holds(p)    == If(p.pc \in Counting, MaxSingle)
Asks(p)     == If(p.pc \in Wanting, p.amount)
Knows(p, r) == If(p.pc = "sent" /\ r[p.row].tx = "sent", MaxSingle)

WaitingIn(r)  == SumOver([k \in Rows |-> Waiting(r[k])])
LostIn(r)     == SumOver([k \in Rows |-> Lost(r[k])])
GoingIn(r)    == SumOver([k \in Rows |-> Going(r[k])])
HeldBy(c)     == SumOver([k \in Callers |-> Holds(c[k])])
AskedBy(c)    == SumOver([k \in Callers |-> Asks(c[k])])
KnownBy(c, r) == SumOver([k \in Callers |-> Knows(c[k], r)])

\* A top-up of every call, and one more of each for every fault.
Whole   == MaxSingle * Cardinality(Callers)
Loss(f) == Whole * (MaxTopUpFaults - f)
Wanted  == Max(Needs \cup {HotMin, HotTarget})

\* The calls that passed ReadActive and the transfers that wait for their confirmations are
\* together no more than the calls; more transfers than that are under way only when a fault
\* lost them; and what the hot wallet has, gets, and may be sent is bounded by both.
HotOk(r, c, p, f) ==
  /\ r \in [Rows -> TopUpRow] /\ c \in [Callers -> TopUpCall] /\ p \in TopUpPot /\ f \in 0 .. MaxTopUpFaults
  /\ OwnRows(r, c)
  /\ HeldBy(c) + WaitingIn(r) <= Whole
  /\ LostIn(r) - KnownBy(c, r) <= Loss(f)
  /\ p.hot + GoingIn(r) + AskedBy(c) <= Wanted + Whole - MaxSingle + Loss(f)

HotInv == HotOk(row, call, pot, faults)

-----------------------------------------------------------------------------
(* Numbers and sums *)
LEMMA CallersAre == IsFiniteSet(Callers) /\ Timer \in Callers /\ Cardinality(Callers) \in Nat \ {0}
<1>1. IsFiniteSet(Callers) /\ Timer \in Callers
  BY TreasuryAssumption, FS_AddElement DEF Callers
<1> QED
  BY <1>1, FS_CardinalityType, FS_EmptySet

LEMMA Times ==
  ASSUME NEW m \in Nat, NEW n \in Nat
  PROVE  m * n \in Nat /\ m * (n + 1) = m * n + m /\ (n # 0 => m * n >= m)
<1>1. m * n \in Nat /\ m * (n + 1) = m * n + m
  OBVIOUS
<1>2. ASSUME n # 0 PROVE m * n >= m
  <2> DEFINE k == n - 1
  <2>1. k \in Nat /\ n = k + 1
    BY <1>2
  <2> HIDE DEF k
  <2>2. m * (k + 1) = m * k + m /\ m * k \in Nat
    BY <2>1
  <2> QED BY <2>1, <2>2
<1> QED BY <1>1, <1>2

LEMMA WholeIs == Whole \in Nat /\ MaxSingle \in Nat /\ MaxSingle <= Whole
  BY Times, CallersAre, TreasuryAssumption DEF Whole

LEMMA LossIs ==
  ASSUME NEW f \in 0 .. MaxTopUpFaults
  PROVE  /\ Loss(f) \in Nat
         /\ f > 0 => Loss(f - 1) = Loss(f) + Whole
         /\ MaxSingle * (Cardinality(Callers) * (1 + MaxTopUpFaults - f) - 1) = Whole - MaxSingle + Loss(f)
<1> DEFINE n == MaxTopUpFaults - f
           k == Cardinality(Callers)
<1>1. n \in Nat /\ k \in Nat /\ MaxSingle \in Nat /\ Whole = MaxSingle * k /\ Whole \in Nat /\ MaxTopUpFaults \in Nat
  BY TreasuryAssumption, CallersAre, WholeIs DEF Whole
<1>2. 1 + MaxTopUpFaults - f = n + 1 /\ MaxTopUpFaults - (f - 1) = n + 1 /\ Loss(f) = Whole * n
  BY <1>1 DEF Loss
<1>3. Loss(f - 1) = Whole * (n + 1)
  BY <1>2 DEF Loss
<1> HIDE DEF n, k
<1>4. Whole * n \in Nat /\ Whole * (n + 1) = Whole * n + Whole
  BY <1>1, Times
<1>5. MaxSingle * (k * (n + 1) - 1) = Whole * n + Whole - MaxSingle
  <2>1. k * (n + 1) = k * n + k /\ k * n \in Nat
    BY <1>1, Times
  <2>2. MaxSingle * (k * n + k - 1) = MaxSingle * (k * n) + MaxSingle * k - MaxSingle
    BY <1>1, <2>1
  <2>3. MaxSingle * (k * n) = Whole * n
    BY <1>1
  <2> QED BY <1>1, <1>4, <2>1, <2>2, <2>3
<1> QED
  BY <1>1, <1>2, <1>3, <1>4, <1>5 DEF k

\* The greatest of numbers, and the least.
LEMMA GreatestIs ==
  ASSUME NEW S \in SUBSET Nat, IsFiniteSet(S), S # {}
  PROVE  Max(S) \in S /\ \A x \in S : x <= Max(S)
<1> DEFINE Bad == {T \in SUBSET S : T # {} /\ \A m \in T : \E x \in T : ~(x <= m)}
<1>1. Bad = {}
  <2> SUFFICES ASSUME Bad # {} PROVE FALSE
    OBVIOUS
  <2>1. \A T \in Bad : IsFiniteSet(T)
    BY FS_Subset
  <2>2. PICK T \in Bad : \A U \in Bad : U \subseteq T => U = T
    <3> HIDE DEF Bad
    <3> QED BY <2>1, LeastSet
  <2>3. PICK y \in T : TRUE
    OBVIOUS
  <2>4. PICK z \in T : ~(z <= y)
    BY <2>3
  <2>5. T \ {y} \notin Bad /\ T \ {y} \in SUBSET S
    BY <2>2, <2>3
  <2>6. PICK m \in T \ {y} : \A x \in T \ {y} : x <= m
    BY <2>4, <2>5
  <2>7. \A x \in T : x \in Nat
    OBVIOUS
  <2>8. z \in T \ {y} /\ z \in Nat /\ y \in Nat /\ m \in Nat
    BY <2>3, <2>4, <2>6, <2>7
  <2>9. y <= m
    BY <2>4, <2>6, <2>8
  <2> QED BY <2>2, <2>6, <2>9
<1>2. \E m \in S : \A x \in S : x <= m
  BY <1>1
<1>3. \E m \in S : \A x \in S : m >= x
  BY <1>2
<1> QED
  BY <1>3 DEF Max

LEMMA WantedIs == Wanted \in Nat /\ HotMin <= Wanted /\ HotTarget <= Wanted /\ \A n \in Needs : n <= Wanted
<1> DEFINE S == Needs \cup {HotMin, HotTarget}
<1>1. S \in SUBSET Nat /\ IsFiniteSet(S) /\ S # {} /\ HotMin \in S /\ HotTarget \in S /\ Needs \subseteq S
  <2>1. S = (Needs \cup {HotMin}) \cup {HotTarget}
    OBVIOUS
  <2> HIDE DEF S
  <2>2. IsFiniteSet(S)
    BY <2>1, TreasuryAssumption, FS_AddElement
  <2> QED BY <2>2, TreasuryAssumption DEF S
<1> HIDE DEF S
<1>2. Wanted = Max(S)
  BY DEF Wanted, S
<1> QED BY <1>1, <1>2, GreatestIs

LEMMA LeastRow == \A S : S \subseteq Rows /\ S # {} => Min(S) \in S
<1> SUFFICES ASSUME NEW S, S \subseteq Rows, S # {} PROVE Min(S) \in S
  OBVIOUS
<1>1. \E n \in S : \A m \in S : n <= m
  BY TreasuryAssumption, LeastNumber
<1> QED BY <1>1 DEF Min

LEMMA RowWeights ==
  ASSUME NEW x \in TopUpRow
  PROVE  /\ Waiting(x) \in Nat /\ Lost(x) \in Nat /\ Going(x) \in Nat
         /\ Going(x) <= Waiting(x) + Lost(x)
  BY TreasuryAssumption DEF TopUpRow, Waiting, Lost, Going, If

LEMMA CallWeights ==
  ASSUME NEW p \in TopUpCall, NEW r
  PROVE  /\ Holds(p) \in Nat /\ Asks(p) \in Nat /\ Knows(p, r) \in Nat
         /\ Holds(p) <= MaxSingle /\ Asks(p) + Knows(p, r) <= Holds(p)
<1>1. p.amount \in 0 .. MaxSingle /\ MaxSingle \in Nat
  BY TreasuryAssumption DEF TopUpCall
<1> QED
  BY <1>1 DEF Holds, Asks, Knows, If, Counting, Owning, NotSent, Wanting

LEMMA RowSums ==
  ASSUME NEW r \in [Rows -> TopUpRow]
  PROVE  /\ Summable([k \in Rows |-> Waiting(r[k])]) /\ Summable([k \in Rows |-> Lost(r[k])])
         /\ Summable([k \in Rows |-> Going(r[k])])
         /\ WaitingIn(r) \in Int /\ LostIn(r) \in Int /\ GoingIn(r) \in Int
<1>1. IsFiniteSet(Rows) /\ \A k \in Rows : Waiting(r[k]) \in Int /\ Lost(r[k]) \in Int /\ Going(r[k]) \in Int
  BY RowWeights, TreasuryAssumption
<1>2. /\ Summable([k \in Rows |-> Waiting(r[k])]) /\ Summable([k \in Rows |-> Lost(r[k])])
      /\ Summable([k \in Rows |-> Going(r[k])])
  BY <1>1 DEF Summable
<1> QED BY <1>2, SumType DEF WaitingIn, LostIn, GoingIn

LEMMA CallSums ==
  ASSUME NEW c \in [Callers -> TopUpCall], NEW r
  PROVE  /\ Summable([k \in Callers |-> Holds(c[k])]) /\ Summable([k \in Callers |-> Asks(c[k])])
         /\ Summable([k \in Callers |-> Knows(c[k], r)])
         /\ HeldBy(c) \in Int /\ AskedBy(c) \in Int /\ KnownBy(c, r) \in Int
<1>1. IsFiniteSet(Callers) /\ \A k \in Callers : Holds(c[k]) \in Int /\ Asks(c[k]) \in Int /\ Knows(c[k], r) \in Int
  BY CallWeights, CallersAre
<1>2. /\ Summable([k \in Callers |-> Holds(c[k])]) /\ Summable([k \in Callers |-> Asks(c[k])])
      /\ Summable([k \in Callers |-> Knows(c[k], r)])
  BY <1>1 DEF Summable
<1> QED BY <1>2, SumType DEF HeldBy, AskedBy, KnownBy

-----------------------------------------------------------------------------
(* One row, or one call, is written *)
LEMMA RowWritten ==
  ASSUME NEW r \in [Rows -> TopUpRow], NEW k \in Rows,
         NEW q \in [Rows -> TopUpRow], \A i \in Rows \ {k} : q[i] = r[i]
  PROVE  /\ WaitingIn(q) = WaitingIn(r) + (Waiting(q[k]) - Waiting(r[k]))
         /\ LostIn(q) = LostIn(r) + (Lost(q[k]) - Lost(r[k]))
         /\ GoingIn(q) = GoingIn(r) + (Going(q[k]) - Going(r[k]))
<1>2. WaitingIn(q) = WaitingIn(r) + (Waiting(q[k]) - Waiting(r[k]))
  <2> DEFINE f == [i \in Rows |-> Waiting(r[i])]
             g == [i \in Rows |-> Waiting(q[i])]
  <2>1. Summable(f) /\ Summable(g) /\ DOMAIN f = Rows /\ DOMAIN g = Rows
    BY RowSums
  <2>2. f[k] = Waiting(r[k]) /\ g[k] = Waiting(q[k]) /\ \A i \in Rows \ {k} : g[i] = f[i]
    OBVIOUS
  <2>3. WaitingIn(q) = SumOver(g) /\ WaitingIn(r) = SumOver(f)
    BY DEF WaitingIn
  <2> HIDE DEF f, g
  <2>4. k \in DOMAIN f /\ \A i \in DOMAIN f \ {k} : g[i] = f[i]
    BY <2>1, <2>2
  <2>5. SumOver(g) = SumOver(f) + (g[k] - f[k])
    BY <2>1, <2>4, SumChange
  <2> QED BY <2>2, <2>3, <2>5
<1>3. LostIn(q) = LostIn(r) + (Lost(q[k]) - Lost(r[k]))
  <2> DEFINE f == [i \in Rows |-> Lost(r[i])]
             g == [i \in Rows |-> Lost(q[i])]
  <2>1. Summable(f) /\ Summable(g) /\ DOMAIN f = Rows /\ DOMAIN g = Rows
    BY RowSums
  <2>2. f[k] = Lost(r[k]) /\ g[k] = Lost(q[k]) /\ \A i \in Rows \ {k} : g[i] = f[i]
    OBVIOUS
  <2>3. LostIn(q) = SumOver(g) /\ LostIn(r) = SumOver(f)
    BY DEF LostIn
  <2> HIDE DEF f, g
  <2>4. k \in DOMAIN f /\ \A i \in DOMAIN f \ {k} : g[i] = f[i]
    BY <2>1, <2>2
  <2>5. SumOver(g) = SumOver(f) + (g[k] - f[k])
    BY <2>1, <2>4, SumChange
  <2> QED BY <2>2, <2>3, <2>5
<1>4. GoingIn(q) = GoingIn(r) + (Going(q[k]) - Going(r[k]))
  <2> DEFINE f == [i \in Rows |-> Going(r[i])]
             g == [i \in Rows |-> Going(q[i])]
  <2>1. Summable(f) /\ Summable(g) /\ DOMAIN f = Rows /\ DOMAIN g = Rows
    BY RowSums
  <2>2. f[k] = Going(r[k]) /\ g[k] = Going(q[k]) /\ \A i \in Rows \ {k} : g[i] = f[i]
    OBVIOUS
  <2>3. GoingIn(q) = SumOver(g) /\ GoingIn(r) = SumOver(f)
    BY DEF GoingIn
  <2> HIDE DEF f, g
  <2>4. k \in DOMAIN f /\ \A i \in DOMAIN f \ {k} : g[i] = f[i]
    BY <2>1, <2>2
  <2>5. SumOver(g) = SumOver(f) + (g[k] - f[k])
    BY <2>1, <2>4, SumChange
  <2> QED BY <2>2, <2>3, <2>5
<1> QED BY <1>2, <1>3, <1>4

LEMMA CallWritten ==
  ASSUME NEW c \in [Callers -> TopUpCall], NEW k \in Callers,
         NEW d \in [Callers -> TopUpCall], \A i \in Callers \ {k} : d[i] = c[i]
  PROVE  /\ HeldBy(d) = HeldBy(c) + (Holds(d[k]) - Holds(c[k]))
         /\ AskedBy(d) = AskedBy(c) + (Asks(d[k]) - Asks(c[k]))
         /\ \A r : KnownBy(d, r) = KnownBy(c, r) + (Knows(d[k], r) - Knows(c[k], r))
<1>2. HeldBy(d) = HeldBy(c) + (Holds(d[k]) - Holds(c[k]))
  <2> DEFINE f == [i \in Callers |-> Holds(c[i])]
             g == [i \in Callers |-> Holds(d[i])]
  <2>1. Summable(f) /\ Summable(g) /\ DOMAIN f = Callers /\ DOMAIN g = Callers
    BY CallSums
  <2>2. f[k] = Holds(c[k]) /\ g[k] = Holds(d[k]) /\ \A i \in Callers \ {k} : g[i] = f[i]
    OBVIOUS
  <2>3. HeldBy(d) = SumOver(g) /\ HeldBy(c) = SumOver(f)
    BY DEF HeldBy
  <2> HIDE DEF f, g
  <2>4. k \in DOMAIN f /\ \A i \in DOMAIN f \ {k} : g[i] = f[i]
    BY <2>1, <2>2
  <2>5. SumOver(g) = SumOver(f) + (g[k] - f[k])
    BY <2>1, <2>4, SumChange
  <2> QED BY <2>2, <2>3, <2>5
<1>3. AskedBy(d) = AskedBy(c) + (Asks(d[k]) - Asks(c[k]))
  <2> DEFINE f == [i \in Callers |-> Asks(c[i])]
             g == [i \in Callers |-> Asks(d[i])]
  <2>1. Summable(f) /\ Summable(g) /\ DOMAIN f = Callers /\ DOMAIN g = Callers
    BY CallSums
  <2>2. f[k] = Asks(c[k]) /\ g[k] = Asks(d[k]) /\ \A i \in Callers \ {k} : g[i] = f[i]
    OBVIOUS
  <2>3. AskedBy(d) = SumOver(g) /\ AskedBy(c) = SumOver(f)
    BY DEF AskedBy
  <2> HIDE DEF f, g
  <2>4. k \in DOMAIN f /\ \A i \in DOMAIN f \ {k} : g[i] = f[i]
    BY <2>1, <2>2
  <2>5. SumOver(g) = SumOver(f) + (g[k] - f[k])
    BY <2>1, <2>4, SumChange
  <2> QED BY <2>2, <2>3, <2>5
<1>4. ASSUME NEW r PROVE KnownBy(d, r) = KnownBy(c, r) + (Knows(d[k], r) - Knows(c[k], r))
  <2> DEFINE f == [i \in Callers |-> Knows(c[i], r)]
             g == [i \in Callers |-> Knows(d[i], r)]
  <2>1. Summable(f) /\ Summable(g) /\ DOMAIN f = Callers /\ DOMAIN g = Callers
    BY CallSums
  <2>2. f[k] = Knows(c[k], r) /\ g[k] = Knows(d[k], r) /\ \A i \in Callers \ {k} : g[i] = f[i]
    OBVIOUS
  <2>3. KnownBy(d, r) = SumOver(g) /\ KnownBy(c, r) = SumOver(f)
    BY DEF KnownBy
  <2> HIDE DEF f, g
  <2>4. k \in DOMAIN f /\ \A i \in DOMAIN f \ {k} : g[i] = f[i]
    BY <2>1, <2>2
  <2>5. SumOver(g) = SumOver(f) + (g[k] - f[k])
    BY <2>1, <2>4, SumChange
  <2> QED BY <2>2, <2>3, <2>5
<1> QED BY <1>2, <1>3, <1>4

\* The row of every call that sent is as much under way in q as in r.
SentAlike(c, r, q) == \A k \in Callers : c[k].pc = "sent" => (r[c[k].row].tx = "sent" <=> q[c[k].row].tx = "sent")

\* What the calls that sent know of rows r and q is the same, when their own are.
LEMMA KnownSame ==
  ASSUME NEW c \in [Callers -> TopUpCall], NEW r, NEW q, SentAlike(c, r, q)
  PROVE  KnownBy(c, q) = KnownBy(c, r)
<1> DEFINE f == [i \in Callers |-> Knows(c[i], r)]
           g == [i \in Callers |-> Knows(c[i], q)]
<1>1. Summable(f) /\ DOMAIN f = Callers /\ DOMAIN g = Callers
  BY CallSums
<1>2. \A i \in Callers : g[i] = f[i]
  BY DEF SentAlike, Knows, If
<1>3. KnownBy(c, q) = SumOver(g) /\ KnownBy(c, r) = SumOver(f)
  BY DEF KnownBy
<1> HIDE DEF f, g
<1> QED BY <1>1, <1>2, <1>3, SumSame

\* All the calls together hold no more than the whole; of that, those that sent know some and
\* the others ask for some.
LEMMA HeldAtMost ==
  ASSUME NEW c \in [Callers -> TopUpCall], NEW r
  PROVE  HeldBy(c) <= Whole /\ KnownBy(c, r) >= 0 /\ AskedBy(c) >= 0
         /\ AskedBy(c) + KnownBy(c, r) <= HeldBy(c)
<1> DEFINE f == [i \in Callers |-> Holds(c[i])]
           g == [i \in Callers |-> Asks(c[i])]
           h == [i \in Callers |-> Knows(c[i], r)]
           m == [i \in Callers |-> MaxSingle]
           o == [i \in Callers |-> 0]
           s == [i \in Callers |-> Asks(c[i]) + Knows(c[i], r)]
<1>1. /\ Summable(f) /\ Summable(g) /\ Summable(h) /\ IsFiniteSet(Callers) /\ MaxSingle \in Nat
      /\ SumOver(g) \in Int /\ SumOver(h) \in Int
  BY CallSums, SumType, CallersAre, TreasuryAssumption
<1>2. /\ DOMAIN f = Callers /\ DOMAIN g = Callers /\ DOMAIN h = Callers /\ DOMAIN m = Callers
      /\ DOMAIN o = Callers /\ DOMAIN s = Callers
  OBVIOUS
<1>3. \A i \in Callers : /\ f[i] \in Nat /\ g[i] \in Nat /\ h[i] \in Nat /\ m[i] = MaxSingle /\ o[i] = 0
                         /\ s[i] = g[i] + h[i] /\ f[i] <= MaxSingle /\ s[i] <= f[i]
  BY CallWeights
<1>4. HeldBy(c) = SumOver(f) /\ AskedBy(c) = SumOver(g) /\ KnownBy(c, r) = SumOver(h)
  BY DEF HeldBy, AskedBy, KnownBy
<1> HIDE DEF f, g, h, m, o, s
<1>5. Summable(m) /\ Summable(o) /\ Summable(s)
  BY <1>1, <1>2, <1>3 DEF Summable
<1>6. SumOver(m) = Whole
  <2>1. SumOver(m) = Part(m, Callers)
    BY <1>2, SumOverPart
  <2> QED BY <1>1, <1>3, <2>1, PartConstant DEF Whole
<1>7. SumOver(f) <= SumOver(m) /\ SumOver(o) <= SumOver(g) /\ SumOver(o) <= SumOver(h) /\ SumOver(s) <= SumOver(f)
  BY <1>1, <1>2, <1>3, <1>5, SumGrows
<1>8. SumOver(o) = 0
  BY <1>1, <1>2, <1>3, SumZero
<1>9. SumOver(s) = SumOver(g) + SumOver(h)
  BY <1>1, <1>2, <1>3, <1>5, SumAdds
<1> QED BY <1>1, <1>4, <1>6, <1>7, <1>8, <1>9

\* What is under way waits or is lost.
LEMMA GoingAtMost ==
  ASSUME NEW r \in [Rows -> TopUpRow]
  PROVE  GoingIn(r) <= WaitingIn(r) + LostIn(r)
<1> DEFINE f == [i \in Rows |-> Waiting(r[i])]
           g == [i \in Rows |-> Lost(r[i])]
           h == [i \in Rows |-> Going(r[i])]
           s == [i \in Rows |-> Waiting(r[i]) + Lost(r[i])]
<1>1. Summable(f) /\ Summable(g) /\ Summable(h) /\ IsFiniteSet(Rows)
  BY RowSums, TreasuryAssumption
<1>2. DOMAIN f = Rows /\ DOMAIN g = Rows /\ DOMAIN h = Rows /\ DOMAIN s = Rows
  OBVIOUS
<1>3. \A i \in Rows : f[i] \in Nat /\ g[i] \in Nat /\ s[i] = f[i] + g[i] /\ h[i] <= s[i]
  BY RowWeights
<1>4. WaitingIn(r) = SumOver(f) /\ LostIn(r) = SumOver(g) /\ GoingIn(r) = SumOver(h)
  BY DEF WaitingIn, LostIn, GoingIn
<1> HIDE DEF f, g, h, s
<1>5. Summable(s)
  BY <1>1, <1>2, <1>3 DEF Summable
<1> QED BY <1>1, <1>2, <1>3, <1>4, <1>5, SumGrows, SumAdds

LEMMA NoneWaits ==
  ASSUME NEW r \in [Rows -> TopUpRow], \A k \in Rows : r[k].status # "BROADCASTED"
  PROVE  WaitingIn(r) = 0
<1> DEFINE f == [i \in Rows |-> Waiting(r[i])]
<1>1. IsFiniteSet(DOMAIN f) /\ \A i \in DOMAIN f : f[i] = 0
  BY TreasuryAssumption DEF Waiting, If
<1> HIDE DEF f
<1>2. SumOver(f) = 0
  BY <1>1, SumZero
<1> QED BY <1>2 DEF WaitingIn, f

-----------------------------------------------------------------------------
(* What a step does to rows r and calls c that are sound *)

\* A call k goes on without having sent, or is over; a free row becomes its own.
LEMMA CallGoesOn ==
  ASSUME NEW r, NEW c, NEW p, NEW f, HotOk(r, c, p, f),
         NEW k \in Callers, NEW x \in TopUpCall, NEW o \in TopUpPot,
         NEW d \in [Callers -> TopUpCall], d[k] = x, \A j \in Callers \ {k} : d[j] = c[j],
         Holds(x) <= Holds(c[k]) \/ \A i \in Rows : r[i].status # "BROADCASTED",
         Knows(c[k], r) = 0, x.pc # "sent",
         o.hot + Asks(x) <= p.hot + Asks(c[k]),
         x.pc \in NotSent =>
           /\ r[x.row].status \in {"BROADCASTING", "FAILED"} /\ r[x.row].amount = x.amount /\ r[x.row].tx # "sent"
           /\ \A j \in Callers \ {k} : c[j].pc \in Owning => c[j].row # x.row
  PROVE  HotOk(r, d, o, f)
<1>1. /\ r \in [Rows -> TopUpRow] /\ c \in [Callers -> TopUpCall] /\ p \in TopUpPot /\ f \in 0 .. MaxTopUpFaults
      /\ OwnRows(r, c) /\ HeldBy(c) + WaitingIn(r) <= Whole /\ LostIn(r) - KnownBy(c, r) <= Loss(f)
      /\ p.hot + GoingIn(r) + AskedBy(c) <= Wanted + Whole - MaxSingle + Loss(f)
  BY DEF HotOk
<1>r. r \in [Rows -> TopUpRow] /\ c \in [Callers -> TopUpCall]
  BY DEF HotOk
<1>b. /\ HeldBy(d) = HeldBy(c) + (Holds(d[k]) - Holds(c[k]))
      /\ AskedBy(d) = AskedBy(c) + (Asks(d[k]) - Asks(c[k]))
      /\ \A q : KnownBy(d, q) = KnownBy(c, q) + (Knows(d[k], q) - Knows(c[k], q))
  BY <1>r, CallWritten
<1>2. /\ d \in [Callers -> TopUpCall] /\ d[k] = x /\ \A i \in Callers \ {k} : d[i] = c[i]
      /\ HeldBy(d) = HeldBy(c) + (Holds(x) - Holds(c[k]))
      /\ AskedBy(d) = AskedBy(c) + (Asks(x) - Asks(c[k]))
      /\ KnownBy(d, r) = KnownBy(c, r) + (Knows(x, r) - Knows(c[k], r))
  BY <1>b
<1>3. OwnRows(r, d)
  BY <1>1, <1>2 DEF OwnRows, Owning
<1>4. Knows(x, r) = 0
  BY DEF Knows, If
<1>5. /\ HeldBy(c) \in Int /\ AskedBy(c) \in Int /\ KnownBy(c, r) \in Int
      /\ WaitingIn(r) \in Int /\ GoingIn(r) \in Int /\ LostIn(r) \in Int
      /\ Holds(x) \in Nat /\ Holds(c[k]) \in Nat /\ Asks(x) \in Nat /\ Asks(c[k]) \in Nat
      /\ p.hot \in Nat /\ o.hot \in Nat
  BY <1>1, CallSums, RowSums, CallWeights DEF TopUpPot
<1>6. Wanted \in Nat /\ Whole \in Nat /\ MaxSingle \in Nat /\ Loss(f) \in Nat
  BY <1>1, WantedIs, WholeIs, LossIs
<1>7. HeldBy(d) + WaitingIn(r) <= Whole
  <2>1. CASE Holds(x) <= Holds(c[k])
    BY <2>1, <1>1, <1>2, <1>5, <1>6
  <2>2. CASE \A i \in Rows : r[i].status # "BROADCASTED"
    <3>1. WaitingIn(r) = 0
      BY <2>2, <1>1, NoneWaits
    <3>2. HeldBy(d) <= Whole /\ HeldBy(d) \in Int
      BY <1>2, HeldAtMost, CallSums
    <3> QED BY <3>1, <3>2
  <2> QED BY <2>1, <2>2
<1>8. LostIn(r) - KnownBy(d, r) <= Loss(f)
  BY <1>1, <1>2, <1>4, <1>5, <1>6
<1>9. o.hot + GoingIn(r) + AskedBy(d) <= Wanted + Whole - MaxSingle + Loss(f)
  BY <1>1, <1>2, <1>5, <1>6
<1> QED
  BY <1>1, <1>2, <1>3, <1>7, <1>8, <1>9 DEF HotOk

\* In rows r and q the same is under way, and the same of it waits.
Alike(r, q) ==
  \A i \in Rows : /\ q[i].tx = "sent" <=> r[i].tx = "sent"
                  /\ r[i].tx = "sent" => /\ q[i].amount = r[i].amount
                                         /\ q[i].status = "BROADCASTED" <=> r[i].status = "BROADCASTED"

StillOwned(r, q, c) ==
  \A k \in Callers : c[k].pc \in Owning =>
    q[c[k].row].amount = r[c[k].row].amount /\ q[c[k].row].status \in {"BROADCASTING", "FAILED"}

\* Rows are written of which nothing is under way, or only so that they fail unless they wait.
LEMMA RowsWritten ==
  ASSUME NEW r, NEW c, NEW p, NEW f, HotOk(r, c, p, f), NEW q \in [Rows -> TopUpRow],
         Alike(r, q), StillOwned(r, q, c)
  PROVE  HotOk(q, c, p, f)
<1>1. /\ r \in [Rows -> TopUpRow] /\ c \in [Callers -> TopUpCall] /\ p \in TopUpPot /\ f \in 0 .. MaxTopUpFaults
      /\ OwnRows(r, c) /\ HeldBy(c) + WaitingIn(r) <= Whole /\ LostIn(r) - KnownBy(c, r) <= Loss(f)
      /\ p.hot + GoingIn(r) + AskedBy(c) <= Wanted + Whole - MaxSingle + Loss(f)
  BY DEF HotOk
<1>2. OwnRows(q, c)
  BY <1>1 DEF OwnRows, Owning, TopUpCall, Alike, StillOwned
<1>3. KnownBy(c, q) = KnownBy(c, r)
  <2>1. \A k \in Callers : c[k].row \in Rows
    BY <1>1 DEF TopUpCall
  <2>2. SentAlike(c, r, q)
    BY <2>1 DEF Alike, SentAlike
  <2> QED BY <1>1, <2>2, KnownSame
<1>4. WaitingIn(q) = WaitingIn(r)
  <2> DEFINE u == [i \in Rows |-> Waiting(r[i])]
             v == [i \in Rows |-> Waiting(q[i])]
  <2>1. Summable(u) /\ DOMAIN u = Rows /\ DOMAIN v = Rows
    BY <1>1, RowSums
  <2>2. \A i \in DOMAIN u : v[i] = u[i]
    BY DEF Waiting, If, Alike
  <2>3. WaitingIn(r) = SumOver(u) /\ WaitingIn(q) = SumOver(v)
    BY DEF WaitingIn
  <2> HIDE DEF u, v
  <2> QED BY <2>1, <2>2, <2>3, SumSame
<1>5. LostIn(q) = LostIn(r)
  <2> DEFINE u == [i \in Rows |-> Lost(r[i])]
             v == [i \in Rows |-> Lost(q[i])]
  <2>1. Summable(u) /\ DOMAIN u = Rows /\ DOMAIN v = Rows
    BY <1>1, RowSums
  <2>2. \A i \in DOMAIN u : v[i] = u[i]
    BY DEF Lost, If, Alike
  <2>3. LostIn(r) = SumOver(u) /\ LostIn(q) = SumOver(v)
    BY DEF LostIn
  <2> HIDE DEF u, v
  <2> QED BY <2>1, <2>2, <2>3, SumSame
<1>6. GoingIn(q) = GoingIn(r)
  <2> DEFINE u == [i \in Rows |-> Going(r[i])]
             v == [i \in Rows |-> Going(q[i])]
  <2>1. Summable(u) /\ DOMAIN u = Rows /\ DOMAIN v = Rows
    BY <1>1, RowSums
  <2>2. \A i \in DOMAIN u : v[i] = u[i]
    BY DEF Going, If, Alike
  <2>3. GoingIn(r) = SumOver(u) /\ GoingIn(q) = SumOver(v)
    BY DEF GoingIn
  <2> HIDE DEF u, v
  <2> QED BY <2>1, <2>2, <2>3, SumSame
<1> QED
  BY <1>1, <1>2, <1>3, <1>4, <1>5, <1>6 DEF HotOk

\* A fault leaves room for the top-ups it may lose.
LEMMA FaultTaken ==
  ASSUME NEW r, NEW c, NEW p, NEW f, HotOk(r, c, p, f), f > 0
  PROVE  HotOk(r, c, p, f - 1)
<1>1. /\ r \in [Rows -> TopUpRow] /\ c \in [Callers -> TopUpCall] /\ p \in TopUpPot /\ f \in 0 .. MaxTopUpFaults
      /\ LostIn(r) - KnownBy(c, r) <= Loss(f)
      /\ p.hot + GoingIn(r) + AskedBy(c) <= Wanted + Whole - MaxSingle + Loss(f)
  BY DEF HotOk
<1>t. f - 1 \in 0 .. MaxTopUpFaults
  BY <1>1, TreasuryAssumption
<1>2. Loss(f - 1) = Loss(f) + Whole /\ Loss(f) \in Nat /\ Whole \in Nat
      /\ MaxSingle \in Nat /\ Wanted \in Nat
  BY <1>1, LossIs, WholeIs, WantedIs
<1>3. /\ AskedBy(c) \in Int /\ KnownBy(c, r) \in Int /\ GoingIn(r) \in Int /\ LostIn(r) \in Int /\ p.hot \in Nat
  BY <1>1, CallSums, RowSums DEF TopUpPot
<1> DEFINE l == Loss(f - 1)
<1> HIDE DEF l
<1>4. LostIn(r) - KnownBy(c, r) <= l /\ p.hot + GoingIn(r) + AskedBy(c) <= Wanted + Whole - MaxSingle + l
  BY <1>1, <1>2, <1>3 DEF l
<1> QED
  BY <1>1, <1>t, <1>4 DEF HotOk, l

\* A pot of which the hot wallet is as it was.
LEMMA PotChanges ==
  ASSUME NEW r, NEW c, NEW p, NEW f, HotOk(r, c, p, f), NEW o \in TopUpPot, o.hot = p.hot
  PROVE  HotOk(r, c, o, f)
  BY DEF HotOk

\* Gas came late, or something else failed: the row of call k is FAILED.
LEMMA RowFails ==
  ASSUME NEW r, NEW c, NEW p, NEW f, HotOk(r, c, p, f), NEW k \in Callers, c[k].pc \in NotSent,
         NEW q, q = [r EXCEPT ![c[k].row].status = "FAILED"]
  PROVE  HotOk(q, c, p, f)
<1>1. r \in [Rows -> TopUpRow] /\ c \in [Callers -> TopUpCall] /\ OwnRows(r, c)
  BY DEF HotOk
<1>2. c[k].row \in Rows /\ \A j \in Callers : c[j].row \in Rows
  BY <1>1 DEF TopUpCall
<1>3. q \in [Rows -> TopUpRow]
  BY <1>1, <1>2 DEF TopUpRow
<1>4. /\ \A i \in Rows \ {c[k].row} : q[i] = r[i]
      /\ r[c[k].row].tx # "sent" /\ q[c[k].row].status = "FAILED"
      /\ q[c[k].row].tx = r[c[k].row].tx /\ q[c[k].row].amount = r[c[k].row].amount
  BY <1>1, <1>2 DEF OwnRows, TopUpRow
<1>5. Alike(r, q)
  BY <1>4 DEF Alike
<1>6. StillOwned(r, q, c)
  BY <1>1, <1>2, <1>4 DEF OwnRows, StillOwned
<1> QED
  BY <1>3, <1>5, <1>6, RowsWritten

LEMMA HotParts ==
  ASSUME NEW r, NEW c, NEW p, NEW f, HotOk(r, c, p, f)
  PROVE  /\ r \in [Rows -> TopUpRow] /\ c \in [Callers -> TopUpCall] /\ p \in TopUpPot /\ f \in 0 .. MaxTopUpFaults
         /\ OwnRows(r, c) /\ HeldBy(c) + WaitingIn(r) <= Whole /\ LostIn(r) - KnownBy(c, r) <= Loss(f)
         /\ p.hot + GoingIn(r) + AskedBy(c) <= Wanted + Whole - MaxSingle + Loss(f)
         /\ HeldBy(c) \in Int /\ AskedBy(c) \in Int /\ KnownBy(c, r) \in Int
         /\ WaitingIn(r) \in Int /\ GoingIn(r) \in Int /\ LostIn(r) \in Int /\ p.hot \in Nat
         /\ Wanted \in Nat /\ Whole \in Nat /\ MaxSingle \in Nat /\ MaxSingle <= Whole /\ Loss(f) \in Nat
<1>1. /\ r \in [Rows -> TopUpRow] /\ c \in [Callers -> TopUpCall] /\ p \in TopUpPot /\ f \in 0 .. MaxTopUpFaults
      /\ OwnRows(r, c) /\ HeldBy(c) + WaitingIn(r) <= Whole /\ LostIn(r) - KnownBy(c, r) <= Loss(f)
      /\ p.hot + GoingIn(r) + AskedBy(c) <= Wanted + Whole - MaxSingle + Loss(f)
  BY DEF HotOk
<1>2. /\ HeldBy(c) \in Int /\ AskedBy(c) \in Int /\ KnownBy(c, r) \in Int
      /\ WaitingIn(r) \in Int /\ GoingIn(r) \in Int /\ LostIn(r) \in Int /\ p.hot \in Nat
  BY <1>1, CallSums, RowSums DEF TopUpPot
<1>3. Wanted \in Nat /\ Whole \in Nat /\ MaxSingle \in Nat /\ MaxSingle <= Whole /\ Loss(f) \in Nat
  BY <1>1, WantedIs, WholeIs, LossIs
<1> QED BY <1>1, <1>2, <1>3

\* The transfer of call k is sent.
LEMMA RowSent ==
  ASSUME NEW r, NEW c, NEW p, NEW f, HotOk(r, c, p, f), NEW k \in Callers, c[k].pc = "send", NEW i, i = c[k].row,
         NEW q \in [Rows -> TopUpRow], \A j \in Rows \ {i} : q[j] = r[j],
         q[i].tx = "sent", q[i].amount = r[i].amount, q[i].status = r[i].status,
         NEW d \in [Callers -> TopUpCall], \A j \in Callers \ {k} : d[j] = c[j],
         d[k].pc = "sent", d[k].row = i
  PROVE  HotOk(q, d, p, f)
<1>1. /\ r \in [Rows -> TopUpRow] /\ c \in [Callers -> TopUpCall] /\ p \in TopUpPot /\ f \in 0 .. MaxTopUpFaults
      /\ OwnRows(r, c)
  BY HotParts
<1>2. i \in Rows /\ (\A j \in Callers : c[j].row \in Rows) /\ c[k].amount \in 0 .. MaxSingle
  BY <1>1 DEF TopUpCall
<1>3. /\ r[i].status # "BROADCASTED" /\ r[i].amount = c[k].amount /\ r[i].tx # "sent"
      /\ r[i].status \in {"BROADCASTING", "FAILED"}
      /\ \A j \in Callers \ {k} : c[j].pc \in Owning => c[j].row # i
  BY <1>1 DEF OwnRows, Owning, NotSent
<1>8. OwnRows(q, d)
  <2>1. ASSUME NEW j \in Callers, d[j].pc \in Owning
        PROVE  /\ c[j].pc \in Owning /\ d[j].row = c[j].row /\ q[d[j].row].status \in {"BROADCASTING", "FAILED"}
               /\ d[j].pc \in NotSent => q[d[j].row].amount = d[j].amount /\ q[d[j].row].tx # "sent"
    <3>1. CASE j = k
      BY <3>1, <1>3 DEF Owning, NotSent
    <3>2. CASE j # k
      <4>1. d[j] = c[j] /\ c[j].row # i /\ c[j].row \in Rows
        BY <3>2, <2>1, <1>2, <1>3
      <4>2. q[c[j].row] = r[c[j].row]
        BY <4>1
      <4> QED BY <4>1, <4>2, <2>1, <1>1 DEF OwnRows
    <3> QED BY <3>1, <3>2
  <2> QED BY <2>1, <1>1 DEF OwnRows, Owning
<1>9. /\ WaitingIn(q) = WaitingIn(r) + (Waiting(q[i]) - Waiting(r[i])) /\ LostIn(q) = LostIn(r) + (Lost(q[i]) - Lost(r[i]))
      /\ GoingIn(q) = GoingIn(r) + (Going(q[i]) - Going(r[i]))
  BY <1>1, <1>2, RowWritten
<1>10. /\ HeldBy(d) = HeldBy(c) + (Holds(d[k]) - Holds(c[k])) /\ AskedBy(d) = AskedBy(c) + (Asks(d[k]) - Asks(c[k]))
       /\ \A x : KnownBy(d, x) = KnownBy(c, x) + (Knows(d[k], x) - Knows(c[k], x))
  BY <1>1, CallWritten
<1>11. /\ Waiting(q[i]) = 0 /\ Waiting(r[i]) = 0 /\ Lost(q[i]) = MaxSingle /\ Lost(r[i]) = 0
       /\ Going(q[i]) = c[k].amount /\ Going(r[i]) = 0
  BY <1>3 DEF Waiting, Lost, Going, If
<1>12. Holds(d[k]) = Holds(c[k]) /\ Asks(d[k]) = 0 /\ Asks(c[k]) = c[k].amount /\ Holds(c[k]) = MaxSingle
  BY DEF Holds, Asks, If, Counting, Owning, NotSent, Wanting
<1>13. KnownBy(d, q) = KnownBy(c, r) + MaxSingle
  <2>1. KnownBy(c, q) = KnownBy(c, r)
    <3>1. SentAlike(c, r, q)
      BY <1>2, <1>3 DEF Owning, SentAlike
    <3> QED BY <1>1, <3>1, KnownSame
  <2>2. Knows(d[k], q) = MaxSingle /\ Knows(c[k], q) = 0
    BY DEF Knows, If
  <2>3. KnownBy(d, q) = KnownBy(c, q) + (Knows(d[k], q) - Knows(c[k], q))
    BY <1>10
  <2> QED BY <2>1, <2>2, <2>3, HotParts
<1>14. /\ WaitingIn(q) = WaitingIn(r) /\ LostIn(q) = LostIn(r) + MaxSingle /\ GoingIn(q) = GoingIn(r) + c[k].amount
       /\ HeldBy(d) = HeldBy(c) /\ AskedBy(d) = AskedBy(c) - c[k].amount
  BY <1>9, <1>10, <1>11, <1>12, <1>2, HotParts
<1>15. /\ HeldBy(d) + WaitingIn(q) <= Whole /\ LostIn(q) - KnownBy(d, q) <= Loss(f)
       /\ p.hot + GoingIn(q) + AskedBy(d) <= Wanted + Whole - MaxSingle + Loss(f)
  BY <1>2, <1>13, <1>14, HotParts
<1> QED
  BY <1>1, <1>8, <1>15 DEF HotOk

\* The transfer of call k is sent, and the call does not learn it: the row is FAILED.
LEMMA RowLost ==
  ASSUME NEW r, NEW c, NEW p, NEW f, HotOk(r, c, p, f), NEW k \in Callers, c[k].pc = "send", NEW i, i = c[k].row,
         NEW q \in [Rows -> TopUpRow], \A j \in Rows \ {i} : q[j] = r[j],
         q[i].tx = "sent", q[i].amount = r[i].amount, q[i].status = "FAILED",
         NEW d \in [Callers -> TopUpCall], \A j \in Callers \ {k} : d[j] = c[j], d[k].pc = "after", f > 0
  PROVE  HotOk(q, d, p, f - 1)
<1>1. /\ r \in [Rows -> TopUpRow] /\ c \in [Callers -> TopUpCall] /\ p \in TopUpPot /\ f \in 0 .. MaxTopUpFaults
      /\ OwnRows(r, c)
  BY HotParts
<1>2. i \in Rows /\ (\A j \in Callers : c[j].row \in Rows) /\ c[k].amount \in 0 .. MaxSingle
  BY <1>1 DEF TopUpCall
<1>3. /\ r[i].amount = c[k].amount /\ r[i].tx # "sent"
      /\ \A j \in Callers \ {k} : c[j].pc \in Owning => c[j].row # i
  BY <1>1 DEF OwnRows, Owning, NotSent
<1>8. OwnRows(q, d)
  <2>1. ASSUME NEW j \in Callers, d[j].pc \in Owning
        PROVE  /\ j # k /\ c[j].pc \in Owning /\ d[j] = c[j] /\ c[j].row # i /\ c[j].row \in Rows
               /\ q[c[j].row] = r[c[j].row]
    <3>1. j # k
      BY <2>1 DEF Owning, NotSent
    <3>2. d[j] = c[j] /\ c[j].row # i /\ c[j].row \in Rows
      BY <3>1, <2>1, <1>2, <1>3
    <3> QED BY <3>1, <3>2, <2>1
  <2> QED BY <2>1, <1>1 DEF OwnRows, Owning
<1>9. /\ WaitingIn(q) = WaitingIn(r) + (Waiting(q[i]) - Waiting(r[i])) /\ LostIn(q) = LostIn(r) + (Lost(q[i]) - Lost(r[i]))
      /\ GoingIn(q) = GoingIn(r) + (Going(q[i]) - Going(r[i]))
  BY <1>1, <1>2, RowWritten
<1>10. /\ HeldBy(d) = HeldBy(c) + (Holds(d[k]) - Holds(c[k])) /\ AskedBy(d) = AskedBy(c) + (Asks(d[k]) - Asks(c[k]))
       /\ \A x : KnownBy(d, x) = KnownBy(c, x) + (Knows(d[k], x) - Knows(c[k], x))
  BY <1>1, CallWritten
<1>11. /\ Waiting(q[i]) = 0 /\ Waiting(r[i]) = 0 /\ Lost(q[i]) = MaxSingle /\ Lost(r[i]) = 0
       /\ Going(q[i]) = c[k].amount /\ Going(r[i]) = 0
  BY <1>3 DEF Waiting, Lost, Going, If
<1>12. Holds(d[k]) = 0 /\ Asks(d[k]) = 0 /\ Asks(c[k]) = c[k].amount /\ Holds(c[k]) = MaxSingle
  BY DEF Holds, Asks, If, Counting, Owning, NotSent, Wanting
<1>13. KnownBy(d, q) = KnownBy(c, r)
  <2>1. KnownBy(c, q) = KnownBy(c, r)
    <3>1. SentAlike(c, r, q)
      BY <1>2, <1>3 DEF Owning, SentAlike
    <3> QED BY <1>1, <3>1, KnownSame
  <2>2. Knows(d[k], q) = 0 /\ Knows(c[k], q) = 0
    BY DEF Knows, If
  <2>3. KnownBy(d, q) = KnownBy(c, q) + (Knows(d[k], q) - Knows(c[k], q))
    BY <1>10
  <2> QED BY <2>1, <2>2, <2>3, HotParts
<1>14. /\ WaitingIn(q) = WaitingIn(r) /\ LostIn(q) = LostIn(r) + MaxSingle /\ GoingIn(q) = GoingIn(r) + c[k].amount
       /\ HeldBy(d) = HeldBy(c) - MaxSingle /\ AskedBy(d) = AskedBy(c) - c[k].amount
  BY <1>9, <1>10, <1>11, <1>12, <1>2, HotParts
<1>16. f - 1 \in 0 .. MaxTopUpFaults /\ Loss(f - 1) = Loss(f) + Whole
  BY <1>1, LossIs, TreasuryAssumption
<1> DEFINE l == Loss(f - 1)
<1>17. l = Loss(f) + Whole
  BY <1>16
<1> HIDE DEF l
<1>15. /\ HeldBy(d) + WaitingIn(q) <= Whole /\ LostIn(q) - KnownBy(d, q) <= l
       /\ p.hot + GoingIn(q) + AskedBy(d) <= Wanted + Whole - MaxSingle + l
  BY <1>2, <1>13, <1>14, <1>17, HotParts
<1> QED
  BY <1>1, <1>8, <1>15, <1>16 DEF HotOk, l

\* Call k writes BROADCASTED over its row.
LEMMA RowTold ==
  ASSUME NEW r, NEW c, NEW p, NEW f, HotOk(r, c, p, f), NEW k \in Callers, c[k].pc = "sent", NEW i, i = c[k].row,
         NEW q \in [Rows -> TopUpRow], \A j \in Rows \ {i} : q[j] = r[j],
         q[i].tx = r[i].tx, q[i].amount = r[i].amount, q[i].status = "BROADCASTED",
         NEW d \in [Callers -> TopUpCall], \A j \in Callers \ {k} : d[j] = c[j], d[k].pc = "after"
  PROVE  HotOk(q, d, p, f)
<1>1. /\ r \in [Rows -> TopUpRow] /\ c \in [Callers -> TopUpCall] /\ p \in TopUpPot /\ f \in 0 .. MaxTopUpFaults
      /\ OwnRows(r, c)
  BY HotParts
<1>2. i \in Rows /\ (\A j \in Callers : c[j].row \in Rows) /\ c[k].amount \in 0 .. MaxSingle
  BY <1>1 DEF TopUpCall
<1>3. /\ r[i].status # "BROADCASTED"
      /\ \A j \in Callers \ {k} : c[j].pc \in Owning => c[j].row # i
  BY <1>1 DEF OwnRows, Owning, NotSent
<1>8. OwnRows(q, d)
  <2>1. ASSUME NEW j \in Callers, d[j].pc \in Owning
        PROVE  /\ j # k /\ c[j].pc \in Owning /\ d[j] = c[j] /\ c[j].row # i /\ c[j].row \in Rows
               /\ q[c[j].row] = r[c[j].row]
    <3>1. j # k
      BY <2>1 DEF Owning, NotSent
    <3>2. d[j] = c[j] /\ c[j].row # i /\ c[j].row \in Rows
      BY <3>1, <2>1, <1>2, <1>3
    <3> QED BY <3>1, <3>2, <2>1
  <2> QED BY <2>1, <1>1 DEF OwnRows, Owning
<1>9. /\ WaitingIn(q) = WaitingIn(r) + (Waiting(q[i]) - Waiting(r[i])) /\ LostIn(q) = LostIn(r) + (Lost(q[i]) - Lost(r[i]))
      /\ GoingIn(q) = GoingIn(r) + (Going(q[i]) - Going(r[i]))
  BY <1>1, <1>2, RowWritten
<1>10. /\ HeldBy(d) = HeldBy(c) + (Holds(d[k]) - Holds(c[k])) /\ AskedBy(d) = AskedBy(c) + (Asks(d[k]) - Asks(c[k]))
       /\ \A x : KnownBy(d, x) = KnownBy(c, x) + (Knows(d[k], x) - Knows(c[k], x))
  BY <1>1, CallWritten
<1>k. KnownBy(c, q) = KnownBy(c, r)
  <2>1. SentAlike(c, r, q)
    BY <1>2 DEF SentAlike
  <2> QED BY <1>1, <2>1, KnownSame
<1> DEFINE n == If(r[i].tx = "sent", MaxSingle)
<1>n. n \in 0 .. MaxSingle
  BY HotParts DEF If
<1>g. Going(q[i]) = Going(r[i]) /\ Going(r[i]) \in Int
  <2>1. Going(r[i]) \in Int
    BY <1>1, <1>2, RowWeights
  <2> QED BY <2>1 DEF Going
<1>w. Waiting(q[i]) = n /\ Waiting(r[i]) = 0
  BY <1>3 DEF Waiting, If
<1>l. Lost(q[i]) = 0 /\ Lost(r[i]) = n
  BY <1>3 DEF Lost, If
<1>11. /\ Waiting(q[i]) = n /\ Waiting(r[i]) = 0 /\ Lost(q[i]) = 0 /\ Lost(r[i]) = n
       /\ Going(q[i]) = Going(r[i]) /\ Going(r[i]) \in Int
  BY <1>g, <1>w, <1>l
<1>12. Holds(d[k]) = 0 /\ Asks(d[k]) = 0 /\ Asks(c[k]) = 0 /\ Holds(c[k]) = MaxSingle
  BY DEF Holds, Asks, If, Counting, Owning, NotSent, Wanting
<1>13. KnownBy(d, q) = KnownBy(c, r) - n
  <2>2. Knows(d[k], q) = 0 /\ Knows(c[k], q) = n
    BY DEF Knows, If
  <2>3. KnownBy(d, q) = KnownBy(c, q) + (Knows(d[k], q) - Knows(c[k], q))
    BY <1>10
  <2> HIDE DEF n
  <2> QED BY <1>k, <2>2, <2>3, <1>n, HotParts
<1> HIDE DEF n
<1>14. /\ WaitingIn(q) = WaitingIn(r) + n /\ LostIn(q) = LostIn(r) - n /\ GoingIn(q) = GoingIn(r)
       /\ HeldBy(d) = HeldBy(c) - MaxSingle /\ AskedBy(d) = AskedBy(c)
  BY <1>9, <1>10, <1>11, <1>12, <1>n, HotParts
<1>15. /\ HeldBy(d) + WaitingIn(q) <= Whole /\ LostIn(q) - KnownBy(d, q) <= Loss(f)
       /\ p.hot + GoingIn(q) + AskedBy(d) <= Wanted + Whole - MaxSingle + Loss(f)
  BY <1>n, <1>13, <1>14, HotParts
<1> QED
  BY <1>1, <1>8, <1>15 DEF HotOk

\* The transfer of row i is mined or reverted.
LEMMA RowEnds ==
  ASSUME NEW r, NEW c, NEW p, NEW f, HotOk(r, c, p, f), NEW i \in Rows, r[i].tx = "sent",
         NEW q \in [Rows -> TopUpRow], \A j \in Rows \ {i} : q[j] = r[j],
         q[i].tx # "sent", q[i].amount = r[i].amount, q[i].status = r[i].status,
         NEW o \in TopUpPot, o.hot <= p.hot + r[i].amount
  PROVE  HotOk(q, c, o, f)
<1>1. /\ r \in [Rows -> TopUpRow] /\ c \in [Callers -> TopUpCall] /\ p \in TopUpPot /\ f \in 0 .. MaxTopUpFaults
      /\ OwnRows(r, c)
  BY HotParts
<1>2. (\A j \in Callers : c[j].row \in Rows) /\ r[i].amount \in 0 .. MaxSingle /\ o.hot \in Nat
  BY <1>1 DEF TopUpCall, TopUpRow, TopUpPot
<1>3. OwnRows(q, c)
  BY <1>1, <1>2 DEF OwnRows, Owning
<1>9. /\ WaitingIn(q) = WaitingIn(r) + (Waiting(q[i]) - Waiting(r[i])) /\ LostIn(q) = LostIn(r) + (Lost(q[i]) - Lost(r[i]))
      /\ GoingIn(q) = GoingIn(r) + (Going(q[i]) - Going(r[i]))
  BY <1>1, RowWritten
<1>10. Waiting(q[i]) = 0 /\ Lost(q[i]) = 0 /\ Going(q[i]) = 0 /\ Going(r[i]) = r[i].amount
       /\ Waiting(r[i]) \in Nat /\ Lost(r[i]) \in Nat
  BY <1>1, RowWeights DEF Waiting, Lost, Going, If
<1>11. KnownBy(c, q) \in Int /\ KnownBy(c, q) >= KnownBy(c, r) - Lost(r[i])
  <2>1. KnownBy(c, q) \in Int
    BY <1>1, CallSums
  <2>2. CASE \A j \in Callers : c[j].pc = "sent" => c[j].row # i
    <3>1. SentAlike(c, r, q)
      BY <2>2, <1>2 DEF SentAlike
    <3>2. KnownBy(c, q) = KnownBy(c, r)
      BY <1>1, <3>1, KnownSame
    <3> QED BY <2>1, <3>2, <1>10, HotParts
  <2>3. CASE \E j \in Callers : c[j].pc = "sent" /\ c[j].row = i
    <3>1. PICK j \in Callers : c[j].pc = "sent" /\ c[j].row = i
      BY <2>3
    <3>2. /\ \A m \in Callers \ {j} : c[m].pc = "sent" => c[m].row # i
          /\ r[i].status # "BROADCASTED"
      BY <3>1, <1>1 DEF OwnRows, Owning
    <3> DEFINE u == [m \in Callers |-> Knows(c[m], r)]
               v == [m \in Callers |-> Knows(c[m], q)]
    <3>3. Summable(u) /\ Summable(v) /\ DOMAIN u = Callers /\ DOMAIN v = Callers
      BY <1>1, CallSums
    <3>4. u[j] = MaxSingle /\ v[j] = 0 /\ \A m \in Callers \ {j} : v[m] = u[m]
      BY <3>1, <3>2, <1>2 DEF Knows, If
    <3>5. KnownBy(c, q) = SumOver(v) /\ KnownBy(c, r) = SumOver(u)
      BY DEF KnownBy
    <3>6. Lost(r[i]) = MaxSingle
      BY <3>2 DEF Lost, If
    <3> HIDE DEF u, v
    <3>7. j \in DOMAIN u /\ \A m \in DOMAIN u \ {j} : v[m] = u[m]
      BY <3>3, <3>4
    <3>8. SumOver(v) = SumOver(u) + (v[j] - u[j])
      BY <3>3, <3>7, SumChange
    <3> QED BY <3>4, <3>5, <3>6, <3>8, HotParts
  <2> QED BY <2>1, <2>2, <2>3
<1>12. /\ HeldBy(c) + WaitingIn(q) <= Whole /\ LostIn(q) - KnownBy(c, q) <= Loss(f)
       /\ o.hot + GoingIn(q) + AskedBy(c) <= Wanted + Whole - MaxSingle + Loss(f)
  BY <1>2, <1>9, <1>10, <1>11, HotParts
<1> QED
  BY <1>1, <1>3, <1>12 DEF HotOk

\* Call k asks for an amount that takes the hot wallet to what is wanted at most.
LEMMA CallAsks ==
  ASSUME NEW r, NEW c, NEW p, NEW f, HotOk(r, c, p, f), NEW k \in Callers, c[k].pc = "balances",
         NEW d \in [Callers -> TopUpCall], \A j \in Callers \ {k} : d[j] = c[j], d[k].pc = "create",
         p.hot + d[k].amount <= Wanted
  PROVE  HotOk(r, d, p, f)
<1>1. /\ r \in [Rows -> TopUpRow] /\ c \in [Callers -> TopUpCall] /\ p \in TopUpPot /\ f \in 0 .. MaxTopUpFaults
      /\ OwnRows(r, c)
  BY HotParts
<1>2. d[k].amount \in 0 .. MaxSingle
  BY DEF TopUpCall
<1>3. OwnRows(r, d)
  BY <1>1 DEF OwnRows, Owning, NotSent
<1>4. /\ HeldBy(d) = HeldBy(c) + (Holds(d[k]) - Holds(c[k])) /\ AskedBy(d) = AskedBy(c) + (Asks(d[k]) - Asks(c[k]))
      /\ \A x : KnownBy(d, x) = KnownBy(c, x) + (Knows(d[k], x) - Knows(c[k], x))
  BY <1>1, CallWritten
<1>5. /\ Holds(d[k]) = MaxSingle /\ Holds(c[k]) = MaxSingle /\ Asks(d[k]) = d[k].amount /\ Asks(c[k]) = 0
      /\ Knows(d[k], r) = 0 /\ Knows(c[k], r) = 0
  BY DEF Holds, Asks, Knows, If, Counting, Owning, NotSent, Wanting
<1>6. HeldBy(d) = HeldBy(c) /\ AskedBy(d) = AskedBy(c) + d[k].amount /\ KnownBy(d, r) = KnownBy(c, r)
  <2>1. KnownBy(d, r) = KnownBy(c, r) + (Knows(d[k], r) - Knows(c[k], r))
    BY <1>4
  <2> QED BY <1>2, <1>4, <1>5, <2>1, HotParts
\* Without call k there is room for its top-up.
<1>7. AskedBy(c) + KnownBy(c, r) <= HeldBy(c) - MaxSingle
  <2> DEFINE x == [c[k] EXCEPT !.pc = "idle"]
             e == [c EXCEPT ![k] = x]
  <2>1. x \in TopUpCall /\ x.pc = "idle"
    BY <1>1 DEF TopUpCall
  <2>2. e \in [Callers -> TopUpCall] /\ e[k] = x /\ \A j \in Callers \ {k} : e[j] = c[j]
    BY <1>1, <2>1
  <2> HIDE DEF x, e
  <2>3. /\ HeldBy(e) = HeldBy(c) + (Holds(e[k]) - Holds(c[k])) /\ AskedBy(e) = AskedBy(c) + (Asks(e[k]) - Asks(c[k]))
        /\ \A y : KnownBy(e, y) = KnownBy(c, y) + (Knows(e[k], y) - Knows(c[k], y))
    BY <1>1, <2>2, CallWritten
  <2>4. Holds(e[k]) = 0 /\ Asks(e[k]) = 0 /\ Knows(e[k], r) = 0
    BY <2>1, <2>2 DEF Holds, Asks, Knows, If, Counting, Owning, NotSent, Wanting
  <2>5. AskedBy(e) + KnownBy(e, r) <= HeldBy(e)
    BY <2>2, HeldAtMost
  <2>6. KnownBy(e, r) = KnownBy(c, r) + (Knows(e[k], r) - Knows(c[k], r))
    BY <2>3
  <2> QED BY <1>5, <2>3, <2>4, <2>5, <2>6, HotParts
<1>8. GoingIn(r) <= WaitingIn(r) + LostIn(r)
  BY <1>1, GoingAtMost
<1>9. /\ HeldBy(d) + WaitingIn(r) <= Whole /\ LostIn(r) - KnownBy(d, r) <= Loss(f)
      /\ p.hot + GoingIn(r) + AskedBy(d) <= Wanted + Whole - MaxSingle + Loss(f)
  BY <1>2, <1>6, <1>7, <1>8, HotParts
<1> QED
  BY <1>1, <1>3, <1>9 DEF HotOk

LEMMA NothingIs ==
  /\ NoTransfer \in TopUpRow /\ NoTransfer.tx # "sent"
  /\ NoCall \in TopUpCall /\ NoCall.pc = "idle" /\ NoCall.need = 0 /\ Asks(NoCall) = 0 /\ Holds(NoCall) = 0
  /\ \A r : Knows(NoCall, r) = 0
<1>1. 0 \in 0 .. MaxSingle /\ (CHOOSE i \in Rows : TRUE) \in Rows
  BY TreasuryAssumption
<1>2. NoTransfer \in TopUpRow /\ NoTransfer.tx # "sent"
  BY <1>1 DEF NoTransfer, TopUpRow
<1>3. NoCall \in TopUpCall /\ NoCall.pc = "idle" /\ NoCall.need = 0
  BY <1>1 DEF NoCall, TopUpCall
<1> HIDE DEF NoCall
<1> QED BY <1>2, <1>3 DEF Asks, Holds, Knows, If, Counting, Owning, NotSent, Wanting

LEMMA NoCalls ==
  ASSUME NEW d, d = [k \in Callers |-> NoCall]
  PROVE  d \in [Callers -> TopUpCall] /\ HeldBy(d) = 0 /\ AskedBy(d) = 0 /\ \A r : OwnRows(r, d) /\ KnownBy(d, r) = 0
<1>1. d \in [Callers -> TopUpCall] /\ \A k \in Callers : d[k] = NoCall
  BY NothingIs
<1>2. HeldBy(d) = 0
  <2> DEFINE u == [k \in Callers |-> Holds(d[k])]
  <2>1. IsFiniteSet(DOMAIN u) /\ \A k \in DOMAIN u : u[k] = 0
    BY <1>1, NothingIs, CallersAre
  <2> HIDE DEF u
  <2>2. SumOver(u) = 0
    BY <2>1, SumZero
  <2> QED BY <2>2 DEF HeldBy, u
<1>3. AskedBy(d) = 0
  <2> DEFINE u == [k \in Callers |-> Asks(d[k])]
  <2>1. IsFiniteSet(DOMAIN u) /\ \A k \in DOMAIN u : u[k] = 0
    BY <1>1, NothingIs, CallersAre
  <2> HIDE DEF u
  <2>2. SumOver(u) = 0
    BY <2>1, SumZero
  <2> QED BY <2>2 DEF AskedBy, u
<1>4. ASSUME NEW r PROVE KnownBy(d, r) = 0
  <2> DEFINE u == [k \in Callers |-> Knows(d[k], r)]
  <2>1. IsFiniteSet(DOMAIN u) /\ \A k \in DOMAIN u : u[k] = 0
    BY <1>1, NothingIs, CallersAre
  <2> HIDE DEF u
  <2>2. SumOver(u) = 0
    BY <2>1, SumZero
  <2> QED BY <2>2 DEF KnownBy, u
<1>5. ASSUME NEW r PROVE OwnRows(r, d)
  BY <1>1, NothingIs DEF OwnRows, Owning, NotSent
<1> QED BY <1>1, <1>2, <1>3, <1>4, <1>5

LEMMA CallsDie ==
  ASSUME NEW r, NEW c, NEW p, NEW f, HotOk(r, c, p, f), f > 0, NEW d, d = [k \in Callers |-> NoCall]
  PROVE  HotOk(r, d, p, f - 1)
<1>1. /\ r \in [Rows -> TopUpRow] /\ c \in [Callers -> TopUpCall] /\ p \in TopUpPot /\ f \in 0 .. MaxTopUpFaults
  BY HotParts
<1>2. d \in [Callers -> TopUpCall] /\ HeldBy(d) = 0 /\ AskedBy(d) = 0 /\ OwnRows(r, d) /\ KnownBy(d, r) = 0
  BY NoCalls
<1>3. /\ HeldBy(c) <= Whole /\ KnownBy(c, r) >= 0 /\ AskedBy(c) >= 0 /\ AskedBy(c) + KnownBy(c, r) <= HeldBy(c)
  BY <1>1, HeldAtMost
<1>4. f - 1 \in 0 .. MaxTopUpFaults /\ Loss(f - 1) = Loss(f) + Whole
  BY <1>1, LossIs, TreasuryAssumption
<1> DEFINE l == Loss(f - 1)
<1>5. l = Loss(f) + Whole
  BY <1>4
<1> HIDE DEF l
<1>6. /\ HeldBy(d) + WaitingIn(r) <= Whole /\ LostIn(r) - KnownBy(d, r) <= l
      /\ p.hot + GoingIn(r) + AskedBy(d) <= Wanted + Whole - MaxSingle + l
  BY <1>2, <1>3, <1>5, HeldAtMost, HotParts
<1> QED
  BY <1>1, <1>2, <1>4, <1>6 DEF HotOk, l

-----------------------------------------------------------------------------
(* The actions *)
LEMMA HotStarts == TInit => HotInv
<1> SUFFICES ASSUME TInit PROVE HotInv
  OBVIOUS
<1>1. /\ row = [r \in Rows |-> NoTransfer] /\ call = [c \in Callers |-> NoCall]
      /\ pot = [hot |-> 0, safe |-> Funds, gas |-> 0, coming |-> 0] /\ faults = MaxTopUpFaults
  BY DEF TInit
<1>2. row \in [Rows -> TopUpRow] /\ pot \in TopUpPot /\ pot.hot = 0 /\ faults \in 0 .. MaxTopUpFaults
  BY <1>1, NothingIs, TreasuryAssumption DEF TopUpPot
<1>3. /\ call \in [Callers -> TopUpCall] /\ HeldBy(call) = 0 /\ AskedBy(call) = 0 /\ OwnRows(row, call)
      /\ KnownBy(call, row) = 0
  BY <1>1, NoCalls
<1>4. /\ WaitingIn(row) \in Int /\ LostIn(row) \in Int /\ GoingIn(row) \in Int
      /\ Whole \in Nat /\ MaxSingle \in Nat /\ MaxSingle <= Whole /\ Wanted \in Nat /\ Loss(faults) \in Nat
  BY <1>2, RowSums, WholeIs, WantedIs, LossIs
<1>5. ASSUME NEW W, W = [r \in Rows |-> 0] PROVE SumOver(W) = 0
  <2>1. IsFiniteSet(DOMAIN W) /\ \A r \in DOMAIN W : W[r] = 0
    BY <1>5, TreasuryAssumption
  <2> QED BY <2>1, SumZero
<1>6. WaitingIn(row) = 0 /\ LostIn(row) = 0 /\ GoingIn(row) = 0
  <2>1. /\ [r \in Rows |-> Waiting(row[r])] = [r \in Rows |-> 0]
        /\ [r \in Rows |-> Lost(row[r])] = [r \in Rows |-> 0]
        /\ [r \in Rows |-> Going(row[r])] = [r \in Rows |-> 0]
    BY <1>1, NothingIs DEF Waiting, Lost, Going, If
  <2> QED BY <1>5, <2>1 DEF WaitingIn, LostIn, GoingIn
<1> QED
  BY <1>2, <1>3, <1>4, <1>6 DEF HotInv, HotOk

\* The rows after confirmBroadcastedTransfers.
LEMMA ConfirmedIsOk == ASSUME HotInv PROVE HotOk(Confirmed, call, pot, faults)
<1>1. row \in [Rows -> TopUpRow] /\ call \in [Callers -> TopUpCall] /\ OwnRows(row, call)
  BY HotParts DEF HotInv
<1> DEFINE q == Confirmed
           new(r) == IF row[r].status # "BROADCASTED" \/ row[r].tx = "sent" THEN row[r]
                     ELSE [row[r] EXCEPT !.status = IF row[r].tx = "mined" THEN "CONFIRMED" ELSE "FAILED"]
<1>2. q = [r \in Rows |-> IF Over(new(r)) /\ ~Live(r) THEN NoTransfer ELSE new(r)]
  BY DEF Confirmed
<1>3. ASSUME NEW r \in Rows
      PROVE  /\ new(r) \in TopUpRow /\ (new(r).tx = row[r].tx) /\ new(r).amount = row[r].amount
             /\ row[r].status # "BROADCASTED" \/ row[r].tx = "sent" => new(r) = row[r]
  BY <1>1 DEF TopUpRow
<1> HIDE DEF new
<1>4. q \in [Rows -> TopUpRow]
  BY <1>2, <1>3, NothingIs
<1>5. Alike(row, q)
  BY <1>2, <1>3, NothingIs DEF Alike, Over
<1>6. StillOwned(row, q, call)
  <2> SUFFICES ASSUME NEW k \in Callers, call[k].pc \in Owning
               PROVE  q[call[k].row].amount = row[call[k].row].amount /\ q[call[k].row].status \in {"BROADCASTING", "FAILED"}
    BY DEF StillOwned
  <2>1. call[k].row \in Rows /\ row[call[k].row].status \in {"BROADCASTING", "FAILED"} /\ Live(call[k].row)
    BY <1>1 DEF OwnRows, TopUpCall, Live, Owning, NotSent
  <2>2. q[call[k].row] = row[call[k].row]
    BY <2>1, <1>2, <1>3
  <2> QED BY <2>1, <2>2
<1> HIDE DEF q
<1>7. HotOk(q, call, pot, faults)
  BY <1>4, <1>5, <1>6, RowsWritten DEF HotInv
<1> QED BY <1>7 DEF q

\* A call's own record with another place.
LEMMA PlaceChanged ==
  ASSUME NEW p \in TopUpCall, NEW place \in {"idle", "stale", "look", "read", "after"} \cup Counting,
         NEW x, x = [p EXCEPT !.pc = place]
  PROVE  x \in TopUpCall /\ x.pc = place /\ x.need = p.need /\ x.amount = p.amount /\ x.row = p.row
  BY DEF TopUpCall

LEMMA PlacesAre == {"gas", "wait", "send", "sent"} = Owning /\ {"gas", "wait", "send"} = NotSent
  BY DEF Owning, NotSent

AtRest == {"idle", "stale", "look", "read", "after"}

\* A call that has not sent is over, or is where it has nothing to send.
LEMMA CallRests ==
  ASSUME NEW r, NEW c, NEW p, NEW f, HotOk(r, c, p, f), NEW k \in Callers, c[k].pc # "sent",
         NEW x \in TopUpCall, x.pc \in AtRest, NEW d, d = [c EXCEPT ![k] = x],
         NEW o \in TopUpPot, o.hot <= p.hot
  PROVE  HotOk(r, d, o, f)
<1>1. Holds(x) = 0 /\ Asks(x) = 0 /\ Knows(c[k], r) = 0 /\ x.pc # "sent" /\ x.pc \notin NotSent
  BY DEF Holds, Asks, Knows, If, AtRest, Counting, Owning, NotSent, Wanting
<1>2. c[k] \in TopUpCall /\ p.hot \in Nat /\ o.hot \in Nat
  BY HotParts DEF TopUpPot
<1>3. Holds(x) <= Holds(c[k]) /\ o.hot + Asks(x) <= p.hot + Asks(c[k])
  BY <1>1, <1>2, CallWeights
<1>4. d \in [Callers -> TopUpCall] /\ d[k] = x /\ \A j \in Callers \ {k} : d[j] = c[j]
  BY HotParts
<1>5. HotOk(r, d, o, f)
  <2> DEFINE e == d
  <2>1. e \in [Callers -> TopUpCall] /\ e[k] = x /\ \A j \in Callers \ {k} : e[j] = c[j]
    BY <1>4
  <2> HIDE DEF e
  <2>2. \A g \in [Callers -> TopUpCall] : g[k] = x /\ (\A j \in Callers \ {k} : g[j] = c[j]) => HotOk(r, g, o, f)
    BY <1>1, <1>3, CallGoesOn
  <2>3. HotOk(r, e, o, f)
    BY <2>1, <2>2
  <2> QED BY <2>3 DEF e
<1> QED BY <1>5

\* The types, and what the invariant says of the rows of the calls.
LEMMA HotTypes ==
  ASSUME HotInv
  PROVE  /\ row \in [Rows -> TopUpRow] /\ call \in [Callers -> TopUpCall] /\ pot \in TopUpPot /\ pot.hot \in Nat
         /\ faults \in 0 .. MaxTopUpFaults /\ OwnRows(row, call) /\ HotOk(row, call, pot, faults)
         /\ Timer \in Callers
  BY HotParts, CallersAre DEF HotInv

LEMMA NeedIs == ASSUME HotInv, NEW c \in Callers PROVE call[c].need \in Needs \cup {0} /\ call[c].need \in Nat
<1>1. call[c] \in TopUpCall
  BY HotTypes
<1>2. call[c].need \in Needs \cup {0}
  BY <1>1 DEF TopUpCall
<1> DEFINE n == call[c].need
<1>3. n \in Needs \/ n = 0
  BY <1>2
<1> HIDE DEF n
<1>4. n \in Nat
  <2>1. \A m \in Needs : m \in Nat
    BY TreasuryAssumption
  <2>2. CASE n \in Needs
    BY <2>1, <2>2
  <2>3. CASE n = 0
    BY <2>3
  <2> QED BY <2>2, <2>3, <1>3
<1> QED BY <1>2, <1>4 DEF n

LEMMA AfterIs ==
  ASSUME HotInv, NEW c \in Callers
  PROVE  LET x == [NoCall EXCEPT !.pc = "after", !.need = call[c].need]
         IN  x \in TopUpCall /\ x.pc = "after" /\ x.pc \in AtRest
<1>1. call[c].need \in Needs \cup {0} /\ (CHOOSE i \in Rows : TRUE) \in Rows /\ 0 \in 0 .. MaxSingle
  BY HotTypes, TreasuryAssumption DEF TopUpCall
<1> QED
  BY <1>1 DEF NoCall, TopUpCall, AtRest

LEMMA GoesAfter ==
  ASSUME HotInv, NEW c \in Callers, GoAfter(c), call[c].pc # "sent", NEW r, HotOk(r, call, pot, faults)
  PROVE  HotOk(r, call', pot, faults)
<1> DEFINE x == [NoCall EXCEPT !.pc = "after", !.need = call[c].need]
<1>1. x \in TopUpCall /\ x.pc \in AtRest
  BY AfterIs
<1>2. call' = [call EXCEPT ![c] = x]
  BY DEF GoAfter
<1> HIDE DEF x
<1>3. pot \in TopUpPot /\ pot.hot <= pot.hot
  BY HotTypes
<1> QED BY <1>1, <1>2, <1>3, CallRests

LEMMA GoesTo ==
  ASSUME HotInv, NEW c \in Callers, NEW place \in AtRest, Goto(c, place), call[c].pc # "sent",
         NEW r, HotOk(r, call, pot, faults)
  PROVE  HotOk(r, call', pot, faults)
<1> DEFINE x == [call[c] EXCEPT !.pc = place]
<1>1. x \in TopUpCall /\ x.pc \in AtRest
  BY HotTypes, PlaceChanged DEF AtRest
<1>2. call' = [call EXCEPT ![c] = x]
  BY HotTypes DEF Goto
<1> HIDE DEF x
<1>3. pot \in TopUpPot /\ pot.hot <= pot.hot
  BY HotTypes
<1> QED BY <1>1, <1>2, <1>3, CallRests

LEMMA TimerBeginsKeeps == ASSUME HotInv, TimerBegins PROVE HotInv'
<1>1. Goto(Timer, "stale") /\ row' = Confirmed /\ UNCHANGED <<pot, faults>> /\ call[Timer].pc # "sent" /\ "stale" \in AtRest
  BY DEF TimerBegins, AtRest
<1>2. HotOk(row', call, pot, faults)
  BY <1>1, ConfirmedIsOk
<1>3. HotOk(row', call', pot, faults)
  BY <1>1, <1>2, GoesTo, HotTypes
<1> QED BY <1>1, <1>3 DEF HotInv

LEMMA FailStaleKeeps == ASSUME HotInv, FailStale PROVE HotInv'
<1>1. Goto(Timer, "read") /\ UNCHANGED <<pot, faults>> /\ call[Timer].pc # "sent" /\ "read" \in AtRest
  BY DEF FailStale, AtRest
<1>2. PICK slow \in SUBSET {r \in Rows : Live(r)} :
        row' = [r \in Rows |-> IF Stale(r) /\ (r \in slow \/ ~Live(r)) THEN [row[r] EXCEPT !.status = "FAILED"] ELSE row[r]]
  BY DEF FailStale
<1>3. row \in [Rows -> TopUpRow] /\ call \in [Callers -> TopUpCall] /\ OwnRows(row, call)
  BY HotTypes
<1>4. ASSUME NEW r \in Rows
      PROVE  /\ row'[r] \in TopUpRow /\ row'[r].tx = row[r].tx /\ row'[r].amount = row[r].amount
             /\ row'[r] = row[r] \/ (row[r].status = "BROADCASTING" /\ row'[r].status = "FAILED")
  BY <1>2, <1>3 DEF TopUpRow, Stale
<1>5. DOMAIN row' = Rows /\ row' = [r \in Rows |-> row'[r]]
  BY <1>2
<1>6. row' \in [Rows -> TopUpRow]
  BY <1>4, <1>5
<1>7. Alike(row, row')
  BY <1>4 DEF Alike
<1>8. StillOwned(row, row', call)
  BY <1>3, <1>4 DEF StillOwned, OwnRows, TopUpCall
<1>9. HotOk(row', call, pot, faults)
  BY <1>6, <1>7, <1>8, RowsWritten, HotTypes
<1>10. HotOk(row', call', pot, faults)
  BY <1>1, <1>9, GoesTo, HotTypes
<1> QED BY <1>1, <1>10 DEF HotInv

LEMMA BeginKeeps == ASSUME HotInv, NEW c \in Callers, Begin(c) PROVE HotInv'
<1>1. PICK n \in Needs : call' = [call EXCEPT ![c] = [NoCall EXCEPT !.pc = "look", !.need = n]]
  BY DEF Begin
<1>2. UNCHANGED <<row, pot, faults>> /\ call[c].pc # "sent"
  BY DEF Begin
<1> DEFINE x == [NoCall EXCEPT !.pc = "look", !.need = n]
<1>3. x \in TopUpCall /\ x.pc \in AtRest
  <2>1. (CHOOSE i \in Rows : TRUE) \in Rows /\ 0 \in 0 .. MaxSingle
    BY TreasuryAssumption
  <2> QED BY <2>1 DEF NoCall, TopUpCall, AtRest
<1> HIDE DEF x
<1>4. call' = [call EXCEPT ![c] = x]
  BY <1>1 DEF x
<1>p. pot \in TopUpPot /\ pot.hot <= pot.hot /\ HotOk(row, call, pot, faults)
  BY HotTypes
<1>5. HotOk(row, call', pot, faults)
  BY <1>2, <1>3, <1>4, <1>p, CallRests
<1> QED BY <1>2, <1>5 DEF HotInv

LEMMA LookKeeps == ASSUME HotInv, NEW c \in Callers, Look(c) PROVE HotInv'
<1>1. UNCHANGED <<row, faults>> /\ call[c].pc # "sent" /\ "read" \in AtRest
  BY DEF Look, AtRest
<1>2. NoCall \in TopUpCall /\ NoCall.pc \in AtRest
  BY NothingIs DEF AtRest
<1>3. CASE pot.hot >= call[c].need /\ pot' = [pot EXCEPT !.hot = @ - call[c].need] /\ call' = [call EXCEPT ![c] = NoCall]
  <2>1. call[c].need \in Nat /\ pot.hot \in Nat /\ pot \in TopUpPot
    BY NeedIs, HotTypes
  <2>2. pot' \in TopUpPot /\ pot'.hot = pot.hot - call[c].need
    BY <1>3, <2>1 DEF TopUpPot
  <2>3. pot'.hot <= pot.hot
    BY <2>1, <2>2
  <2>4. HotOk(row, call', pot', faults)
    BY <1>1, <1>2, <1>3, <2>2, <2>3, CallRests, HotTypes
  <2> QED BY <1>1, <2>4 DEF HotInv
<1>4. CASE UNCHANGED pot /\ call' = [call EXCEPT ![c] = NoCall]
  <2>1. pot \in TopUpPot /\ pot.hot <= pot.hot
    BY HotTypes
  <2>2. HotOk(row, call', pot, faults)
    BY <1>1, <1>2, <1>4, <2>1, CallRests, HotTypes
  <2> QED BY <1>1, <1>4, <2>2 DEF HotInv
<1>5. CASE UNCHANGED pot /\ Goto(c, "read")
  <2>1. HotOk(row, call', pot, faults)
    BY <1>1, <1>5, GoesTo, HotTypes
  <2> QED BY <1>1, <1>5, <2>1 DEF HotInv
<1> QED BY <1>3, <1>4, <1>5 DEF Look

LEMMA ReadActiveKeeps == ASSUME HotInv, NEW c \in Callers, ReadActive(c) PROVE HotInv'
<1>1. UNCHANGED <<row, pot, faults>> /\ call[c].pc = "read"
  BY DEF ReadActive
<1>2. CASE GoAfter(c)
  <2>1. HotOk(row, call', pot, faults)
    BY <1>1, <1>2, GoesAfter, HotTypes
  <2> QED BY <1>1, <2>1 DEF HotInv
<1>3. CASE Goto(c, "balances") /\ ~\E r \in Rows : Active(r)
  <2> DEFINE x == [call[c] EXCEPT !.pc = "balances"]
  <2>1. x \in TopUpCall /\ x.pc = "balances"
    BY HotTypes, PlaceChanged DEF Counting
  <2>2. call' \in [Callers -> TopUpCall] /\ call'[c] = x /\ \A j \in Callers \ {c} : call'[j] = call[j]
    BY <1>3, <2>1, HotTypes DEF Goto
  <2> HIDE DEF x
  <2>3. Asks(x) = 0 /\ Knows(call[c], row) = 0 /\ Asks(call[c]) = 0 /\ x.pc \notin NotSent /\ x.pc # "sent"
    BY <1>1, <2>1 DEF Asks, Knows, If, NotSent, Wanting
  <2>4. \A i \in Rows : row[i].status # "BROADCASTED"
    BY <1>3 DEF Active
  <2>5. pot \in TopUpPot /\ HotOk(row, call, pot, faults) /\ pot.hot + Asks(x) <= pot.hot + Asks(call[c])
    BY <2>3, HotTypes
  <2>6. HotOk(row, call', pot, faults)
    BY <2>1, <2>2, <2>3, <2>4, <2>5, CallGoesOn
  <2> QED BY <1>1, <2>6 DEF HotInv
<1> QED BY <1>2, <1>3 DEF ReadActive

\* A top-up takes the hot wallet to what is wanted at most, and is one top-up at most.
LEMMA TopUpIs ==
  ASSUME NEW need \in Needs \cup {0}, pot.hot \in Nat, pot.safe \in Nat
  PROVE  /\ TopUp(need) \in Int
         /\ TopUp(need) > 0 => TopUp(need) \in 0 .. MaxSingle /\ pot.hot + TopUp(need) <= Wanted
<1> DEFINE two == {need - pot.hot, HotMin - pot.hot}
           wanted == IF need = 0 THEN HotTarget - pot.hot ELSE Max(two)
           three == {wanted, pot.safe, MaxSingle}
<1>1. need \in Nat /\ HotMin \in Nat /\ HotTarget \in Nat /\ MaxSingle \in Nat /\ pot.hot \in Nat /\ pot.safe \in Nat
  BY TreasuryAssumption
<1>2. need <= Wanted /\ HotMin <= Wanted /\ HotTarget <= Wanted /\ Wanted \in Nat
  BY WantedIs
<1>3. Max(two) \in two
  <2>1. \E x \in two : \A y \in two : x >= y
    <3>1. CASE need <= HotMin
      BY <3>1, <1>1
    <3>2. CASE ~(need <= HotMin)
      BY <3>2, <1>1
    <3> QED BY <3>1, <3>2
  <2> HIDE DEF two
  <2> QED BY <2>1 DEF Max
<1>4. wanted \in Int /\ pot.hot + wanted <= Wanted
  BY <1>1, <1>2, <1>3
<1>5. TopUp(need) = IF (need = 0 /\ pot.hot >= HotMin) \/ (need # 0 /\ pot.hot >= need) THEN 0 ELSE Min(three)
  BY DEF TopUp
<1> HIDE DEF wanted, two
<1>6. Min(three) \in three /\ \A y \in three : Min(three) <= y
  <2>1. \E x \in three : \A y \in three : x <= y
    <3>1. CASE wanted <= pot.safe /\ wanted <= MaxSingle
      BY <3>1, <1>1, <1>4
    <3>2. CASE pot.safe <= wanted /\ pot.safe <= MaxSingle
      BY <3>2, <1>1, <1>4
    <3>3. CASE MaxSingle <= wanted /\ MaxSingle <= pot.safe
      BY <3>3, <1>1, <1>4
    <3> QED BY <3>1, <3>2, <3>3, <1>1, <1>4
  <2> HIDE DEF three
  <2> QED BY <2>1 DEF Min
<1>7. Min(three) \in Int /\ Min(three) <= wanted /\ Min(three) <= MaxSingle
  BY <1>1, <1>4, <1>6
<1>8. TopUp(need) = 0 \/ TopUp(need) = Min(three)
  BY <1>5
<1> HIDE DEF three
<1> QED BY <1>1, <1>2, <1>4, <1>7, <1>8

LEMMA ReadBalancesKeeps == ASSUME HotInv, NEW c \in Callers, ReadBalances(c) PROVE HotInv'
<1> DEFINE n == TopUp(call[c].need)
<1>1. UNCHANGED <<row, pot, faults>> /\ call[c].pc = "balances"
  BY DEF ReadBalances
<1>2. CASE GoAfter(c)
  <2>1. HotOk(row, call', pot, faults)
    BY <1>1, <1>2, GoesAfter, HotTypes
  <2> QED BY <1>1, <2>1 DEF HotInv
<1>3. CASE ~(n <= 0) /\ call' = [call EXCEPT ![c].amount = n, ![c].pc = "create"]
  <2>1. call[c] \in TopUpCall /\ pot.hot \in Nat /\ pot.safe \in Nat /\ call \in [Callers -> TopUpCall]
    BY HotTypes DEF TopUpPot
  <2>2. call[c].need \in Needs \cup {0}
    BY <2>1 DEF TopUpCall
  <2>3. n \in Int
    BY <2>1, <2>2, TopUpIs
  <2>4. n \in 0 .. MaxSingle /\ pot.hot + n <= Wanted
    BY <1>3, <2>1, <2>2, <2>3, TopUpIs
  <2> HIDE DEF n
  <2> DEFINE d == [call EXCEPT ![c].amount = n, ![c].pc = "create"]
  <2>5. d \in [Callers -> TopUpCall] /\ (\A j \in Callers \ {c} : d[j] = call[j]) /\ d[c].pc = "create" /\ d[c].amount = n
    BY <2>1, <2>4 DEF TopUpCall, Counting
  <2>6. call' = d
    BY <1>3
  <2> HIDE DEF d
  <2>7. HotOk(row, d, pot, faults)
    BY <1>1, <2>4, <2>5, CallAsks, HotTypes
  <2> QED BY <1>1, <2>6, <2>7 DEF HotInv
<1> QED BY <1>2, <1>3 DEF ReadBalances

LEMMA CreateKeeps == ASSUME HotInv, NEW c \in Callers, Create(c) PROVE HotInv'
<1>1. UNCHANGED <<pot, faults>> /\ call[c].pc = "create"
  BY DEF Create
<1>2. CASE GoAfter(c) /\ UNCHANGED row
  <2>1. HotOk(row, call', pot, faults)
    BY <1>1, <1>2, GoesAfter, HotTypes
  <2> QED BY <1>1, <1>2, <2>1 DEF HotInv
<1>3. CASE /\ FreeRows # {}
           /\ row' = [row EXCEPT ![FreeRow] = [NoTransfer EXCEPT !.status = "BROADCASTING", !.amount = call[c].amount]]
           /\ call' = [call EXCEPT ![c].row = FreeRow, ![c].pc = "gas"]
  <2> DEFINE i == FreeRow
             n == call[c].amount
             y == [NoTransfer EXCEPT !.status = "BROADCASTING", !.amount = n]
             x == [call[c] EXCEPT !.row = i, !.pc = "gas"]
  <2>1. i \in Rows /\ Over(row[i]) /\ ~Live(i)
    <3>1. FreeRow \in FreeRows
      BY <1>3, LeastRow DEF FreeRow, FreeRows
    <3> QED BY <3>1 DEF FreeRows
  <2>2. row' = [row EXCEPT ![i] = y] /\ call' = [call EXCEPT ![c] = x]
    <3>1. call \in [Callers -> TopUpCall]
      BY HotTypes
    <3> QED BY <1>3, <3>1
  <2> HIDE DEF i
  <2>3. n \in 0 .. MaxSingle /\ call[c] \in TopUpCall
    <3>1. call[c] \in TopUpCall
      BY HotTypes
    <3> QED BY <3>1 DEF TopUpCall
  <2>4. y \in TopUpRow /\ y.tx = "none" /\ y.status = "BROADCASTING" /\ y.amount = n
    BY <2>3 DEF NoTransfer, TopUpRow
  <2>5. x \in TopUpCall /\ x.pc = "gas" /\ x.row = i /\ x.amount = n
    BY <2>1, <2>3 DEF TopUpCall, Counting, Owning, NotSent
  <2> HIDE DEF x, y, n
  <2>6. \A j \in Callers : call[j].pc \in Owning => call[j].row # i
    BY <2>1 DEF Live, Owning, NotSent
  <2>7. row \in [Rows -> TopUpRow] /\ call \in [Callers -> TopUpCall] /\ OwnRows(row, call) /\ HotOk(row, call, pot, faults)
    BY HotTypes
  <2>8. row' \in [Rows -> TopUpRow] /\ row'[i] = y /\ \A j \in Rows \ {i} : row'[j] = row[j]
    BY <2>1, <2>2, <2>4, <2>7
  <2>9. Alike(row, row')
    BY <2>1, <2>4, <2>8 DEF Alike, Over
  <2>10. StillOwned(row, row', call)
    <3> SUFFICES ASSUME NEW j \in Callers, call[j].pc \in Owning
                 PROVE  row'[call[j].row].amount = row[call[j].row].amount /\ row'[call[j].row].status \in {"BROADCASTING", "FAILED"}
      BY DEF StillOwned
    <3>1. call[j].row \in Rows \ {i} /\ row[call[j].row].status \in {"BROADCASTING", "FAILED"}
      BY <2>6, <2>7 DEF OwnRows, TopUpCall
    <3> QED BY <3>1, <2>8
  <2>11. HotOk(row', call, pot, faults)
    BY <2>7, <2>8, <2>9, <2>10, RowsWritten
  <2>12. Holds(x) = Holds(call[c]) /\ Knows(call[c], row') = 0 /\ Asks(x) = n /\ Asks(call[c]) = n /\ x.pc # "sent"
    BY <1>1, <2>5 DEF Holds, Asks, Knows, If, Counting, Owning, NotSent, Wanting, n
  <2>13. /\ pot \in TopUpPot /\ pot.hot \in Nat /\ n \in Nat /\ Holds(x) \in Nat
         /\ row'[x.row].status \in {"BROADCASTING", "FAILED"} /\ row'[x.row].amount = x.amount /\ row'[x.row].tx # "sent"
         /\ \A j \in Callers \ {c} : call[j].pc \in Owning => call[j].row # x.row
    BY <2>3, <2>4, <2>5, <2>6, <2>8, HotTypes, CallWeights
  <2>14. Holds(x) <= Holds(call[c]) /\ pot.hot + Asks(x) <= pot.hot + Asks(call[c])
    BY <2>12, <2>13
  <2> DEFINE q == row'
             d == call'
  <2>15. HotOk(q, call, pot, faults) /\ Knows(call[c], q) = 0
         /\ q[x.row].status \in {"BROADCASTING", "FAILED"} /\ q[x.row].amount = x.amount /\ q[x.row].tx # "sent"
    BY <2>11, <2>12, <2>13
  <2>c. d \in [Callers -> TopUpCall] /\ d[c] = x /\ \A j \in Callers \ {c} : d[j] = call[j]
    BY <2>2, <2>5, <2>7
  <2> HIDE DEF q, d
  <2>16. HotOk(q, d, pot, faults)
    BY <2>5, <2>12, <2>13, <2>14, <2>15, <2>c, CallGoesOn
  <2> QED BY <1>1, <2>16 DEF HotInv, q, d
<1> QED BY <1>2, <1>3 DEF Create

\* A call that has its row goes on to wait or to send.
LEMMA OwnerGoesOn ==
  ASSUME HotInv, NEW c \in Callers, call[c].pc \in {"gas", "wait"}, NEW place \in {"wait", "send"}, Goto(c, place)
  PROVE  HotOk(row, call', pot, faults)
<1> DEFINE x == [call[c] EXCEPT !.pc = place]
<1>1. x \in TopUpCall /\ x.pc = place /\ x.row = call[c].row /\ x.amount = call[c].amount
  BY HotTypes, PlaceChanged DEF Counting, Owning, NotSent
<1>2. call' \in [Callers -> TopUpCall] /\ call'[c] = x /\ \A j \in Callers \ {c} : call'[j] = call[j]
  BY <1>1, HotTypes DEF Goto
<1> HIDE DEF x
<1>3. row \in [Rows -> TopUpRow] /\ call \in [Callers -> TopUpCall] /\ OwnRows(row, call) /\ HotOk(row, call, pot, faults)
      /\ pot \in TopUpPot /\ pot.hot \in Nat /\ call[c] \in TopUpCall
  BY HotTypes
<1>4. /\ row[x.row].status \in {"BROADCASTING", "FAILED"} /\ row[x.row].amount = x.amount /\ row[x.row].tx # "sent"
      /\ \A j \in Callers \ {c} : call[j].pc \in Owning => call[j].row # x.row
  BY <1>1, <1>3 DEF OwnRows, Owning, NotSent
<1>5. Holds(x) = Holds(call[c]) /\ Asks(x) = Asks(call[c]) /\ Knows(call[c], row) = 0 /\ x.pc # "sent"
  BY <1>1 DEF Holds, Asks, Knows, If, Counting, Owning, NotSent, Wanting
<1>6. Holds(x) <= Holds(call[c]) /\ pot.hot + Asks(x) <= pot.hot + Asks(call[c])
  BY <1>3, <1>5, CallWeights
<1> QED
  BY <1>1, <1>2, <1>3, <1>4, <1>5, <1>6, CallGoesOn

LEMMA GasKeeps == ASSUME HotInv, NEW c \in Callers, Gas(c) \/ GasThere(c) PROVE HotInv'
<1>1. UNCHANGED <<row, faults>> /\ call[c].pc \in {"gas", "wait"}
  BY DEF Gas, GasThere
<1>2. Goto(c, "wait") \/ Goto(c, "send")
  BY DEF Gas, GasThere
<1>3. pot' \in TopUpPot /\ pot'.hot = pot.hot
  <2>1. pot \in TopUpPot
    BY HotTypes
  <2>2. UNCHANGED pot \/ pot' = [pot EXCEPT !.coming = Min({@ + 1, Cardinality(Callers)})]
    BY DEF Gas, GasThere
  <2>3. CASE UNCHANGED pot
    BY <2>1, <2>3
  <2>4. CASE pot' = [pot EXCEPT !.coming = Min({@ + 1, Cardinality(Callers)})]
    <3> DEFINE two == {pot.coming + 1, Cardinality(Callers)}
    <3>1. pot.coming + 1 \in Nat /\ Cardinality(Callers) \in Nat
      BY <2>1, CallersAre DEF TopUpPot
    <3>2. two \in SUBSET Nat /\ two # {}
      BY <3>1
    <3> HIDE DEF two
    <3>3. Min(two) \in Nat
      <4>1. \E n \in two : \A m \in two : n <= m
        BY <3>2, LeastNumber
      <4> QED BY <3>2, <4>1 DEF Min
    <3>4. pot' = [pot EXCEPT !.coming = Min(two)]
      BY <2>4 DEF two
    <3> QED BY <2>1, <3>3, <3>4 DEF TopUpPot
  <2> QED BY <2>2, <2>3, <2>4
<1>4. HotOk(row, call', pot, faults)
  BY <1>1, <1>2, OwnerGoesOn
<1> DEFINE d == call'
           o == pot'
<1>5. HotOk(row, d, pot, faults) /\ o \in TopUpPot /\ o.hot = pot.hot
  BY <1>3, <1>4
<1> HIDE DEF d, o
<1>6. HotOk(row, d, o, faults)
  BY <1>5, PotChanges
<1> QED BY <1>1, <1>6 DEF HotInv, d, o

LEMMA GasLateKeeps == ASSUME HotInv, NEW c \in Callers, GasLate(c) PROVE HotInv'
<1>1. UNCHANGED <<pot, faults>> /\ call[c].pc \in NotSent /\ call[c].pc # "sent" /\ GoAfter(c)
      /\ row' = [row EXCEPT ![call[c].row].status = "FAILED"]
  BY DEF GasLate, NotSent
<1>2. HotOk(row', call, pot, faults)
  BY <1>1, RowFails, HotTypes
<1>3. HotOk(row', call', pot, faults)
  BY <1>1, <1>2, GoesAfter
<1> QED BY <1>1, <1>3 DEF HotInv

LEMMA FailsKeeps == ASSUME HotInv, NEW c \in Callers, Fails(c) PROVE HotInv'
<1>1. UNCHANGED pot /\ call[c].pc \in NotSent /\ call[c].pc # "sent" /\ GoAfter(c) /\ faults > 0 /\ faults' = faults - 1
  BY DEF Fails, NotSent, TFault
<1>2. CASE row' = [row EXCEPT ![call[c].row].status = "FAILED"]
  <2>1. HotOk(row', call, pot, faults)
    BY <1>1, <1>2, RowFails, HotTypes
  <2>2. HotOk(row', call', pot, faults)
    BY <1>1, <2>1, GoesAfter
  <2> DEFINE q == row'
             d == call'
  <2>3. HotOk(q, d, pot, faults)
    BY <2>2
  <2> HIDE DEF q, d
  <2>4. HotOk(q, d, pot, faults - 1)
    BY <1>1, <2>3, FaultTaken
  <2> QED BY <1>1, <2>4 DEF HotInv, q, d
<1>3. CASE call[c].pc = "send" /\ row' = [row EXCEPT ![call[c].row].status = "FAILED", ![call[c].row].tx = "sent"]
  <2> DEFINE q == row'
             d == call'
             i == call[c].row
  <2>1. row \in [Rows -> TopUpRow] /\ call \in [Callers -> TopUpCall] /\ call[c] \in TopUpCall
    BY HotTypes
  <2>2. i \in Rows
    BY <2>1 DEF TopUpCall
  <2>3. q = [row EXCEPT ![i].status = "FAILED", ![i].tx = "sent"]
    BY <1>3
  <2> HIDE DEF q, i
  <2>4. /\ q \in [Rows -> TopUpRow] /\ \A j \in Rows \ {i} : q[j] = row[j]
        /\ q[i].tx = "sent" /\ q[i].amount = row[i].amount /\ q[i].status = "FAILED"
    BY <2>1, <2>2, <2>3 DEF TopUpRow
  <2>5. d \in [Callers -> TopUpCall] /\ (\A j \in Callers \ {c} : d[j] = call[j]) /\ d[c].pc = "after"
    BY <1>1, <2>1, AfterIs DEF GoAfter
  <2> HIDE DEF d
  <2>6. HotOk(row, call, pot, faults) /\ i = call[c].row
    BY HotTypes DEF i
  <2>7. HotOk(q, d, pot, faults - 1)
    BY <1>1, <1>3, <2>4, <2>5, <2>6, RowLost
  <2> QED BY <1>1, <2>7 DEF HotInv, q, d
<1> QED BY <1>2, <1>3 DEF Fails

LEMMA SendTopUpKeeps == ASSUME HotInv, NEW c \in Callers, SendTopUp(c) PROVE HotInv'
<1> DEFINE q == row'
           d == call'
           i == call[c].row
<1>1. /\ call[c].pc = "send" /\ q = [row EXCEPT ![i].tx = "sent"] /\ d = [call EXCEPT ![c].pc = "sent"]
      /\ UNCHANGED <<pot, faults>>
  BY DEF SendTopUp, Goto
<1>2. row \in [Rows -> TopUpRow] /\ call \in [Callers -> TopUpCall] /\ call[c] \in TopUpCall
  BY HotTypes
<1>3. i \in Rows
  BY <1>2 DEF TopUpCall
<1>c. i = call[c].row /\ HotOk(row, call, pot, faults) /\ call[c].pc = "send"
  BY <1>1, HotTypes
<1> HIDE DEF q, d, i
<1>4. /\ q \in [Rows -> TopUpRow] /\ \A j \in Rows \ {i} : q[j] = row[j]
      /\ q[i].tx = "sent" /\ q[i].amount = row[i].amount /\ q[i].status = row[i].status
  BY <1>1, <1>2, <1>3 DEF TopUpRow
<1>5. /\ d \in [Callers -> TopUpCall] /\ \A j \in Callers \ {c} : d[j] = call[j]
      /\ d[c].pc = "sent" /\ d[c].row = i
  BY <1>1, <1>2, <1>c DEF TopUpCall, Counting, Owning
<1>6. HotOk(q, d, pot, faults)
  BY <1>4, <1>5, <1>c, RowSent
<1> QED BY <1>1, <1>6 DEF HotInv, q, d

LEMMA TopUpSentKeeps == ASSUME HotInv, NEW c \in Callers, TopUpSent(c) PROVE HotInv'
<1> DEFINE q == row'
           d == call'
           i == call[c].row
<1>1. /\ call[c].pc = "sent" /\ q = [row EXCEPT ![i].status = "BROADCASTED", ![i].known = TRUE] /\ GoAfter(c)
      /\ UNCHANGED <<pot, faults>>
  BY DEF TopUpSent
<1>2. row \in [Rows -> TopUpRow] /\ call \in [Callers -> TopUpCall] /\ call[c] \in TopUpCall
  BY HotTypes
<1>3. i \in Rows
  BY <1>2 DEF TopUpCall
<1>5. d \in [Callers -> TopUpCall] /\ (\A j \in Callers \ {c} : d[j] = call[j]) /\ d[c].pc = "after"
  BY <1>1, <1>2, AfterIs DEF GoAfter
<1>c. i = call[c].row /\ HotOk(row, call, pot, faults) /\ call[c].pc = "sent"
  BY <1>1, HotTypes
<1> HIDE DEF q, d, i
<1>4. /\ q \in [Rows -> TopUpRow] /\ \A j \in Rows \ {i} : q[j] = row[j]
      /\ q[i].tx = row[i].tx /\ q[i].amount = row[i].amount /\ q[i].status = "BROADCASTED"
  BY <1>1, <1>2, <1>3 DEF TopUpRow
<1>6. HotOk(q, d, pot, faults)
  BY <1>4, <1>5, <1>c, RowTold
<1> QED BY <1>1, <1>6 DEF HotInv, q, d

LEMMA AfterKeeps == ASSUME HotInv, NEW c \in Callers, After(c) PROVE HotInv'
<1>1. UNCHANGED <<pot, faults>> /\ call[c].pc # "sent" /\ (row' = row \/ row' = Confirmed)
  BY DEF After
<1>2. HotOk(row', call, pot, faults)
  BY <1>1, HotTypes, ConfirmedIsOk
<1>3. PICK x : /\ call' = [call EXCEPT ![c] = x]
               /\ x = NoCall \/ x = [call[c] EXCEPT !.pc = "look", !.tried = TRUE]
  BY HotTypes DEF After
<1>4. x \in TopUpCall /\ x.pc \in AtRest
  <2>1. CASE x = NoCall
    BY <2>1, NothingIs DEF AtRest
  <2>2. CASE x = [call[c] EXCEPT !.pc = "look", !.tried = TRUE]
    <3>1. call[c] \in TopUpCall
      BY HotTypes
    <3> QED BY <2>2, <3>1 DEF TopUpCall, AtRest
  <2> QED BY <1>3, <2>1, <2>2
<1> DEFINE q == row'
           d == call'
<1>5. HotOk(q, call, pot, faults) /\ d = [call EXCEPT ![c] = x] /\ pot \in TopUpPot /\ pot.hot <= pot.hot
  BY <1>2, <1>3, HotTypes
<1> HIDE DEF q, d
<1>6. HotOk(q, d, pot, faults)
  BY <1>1, <1>4, <1>5, CallRests
<1> QED BY <1>1, <1>6 DEF HotInv, q, d

LEMMA MineTopUpKeeps == ASSUME HotInv, NEW r \in Rows, MineTopUp(r) PROVE HotInv'
<1> DEFINE q == row'
           o == pot'
<1>1. /\ row[r].tx = "sent" /\ UNCHANGED call
      /\ \/ /\ pot.gas > 0 /\ pot.safe >= row[r].amount /\ q = [row EXCEPT ![r].tx = "mined"] /\ UNCHANGED faults
            /\ o = [pot EXCEPT !.gas = @ - 1, !.safe = @ - row[r].amount, !.hot = @ + row[r].amount]
         \/ /\ q = [row EXCEPT ![r].tx = "reverted"] /\ o = [pot EXCEPT !.gas = IF @ > 0 THEN @ - 1 ELSE 0]
            /\ TFault \/ UNCHANGED faults
  BY DEF MineTopUp
<1>2. row \in [Rows -> TopUpRow] /\ pot \in TopUpPot /\ row[r] \in TopUpRow /\ HotOk(row, call, pot, faults)
  BY HotTypes
<1>3. row[r].amount \in Nat
  BY <1>2, TreasuryAssumption DEF TopUpRow
<1> HIDE DEF q, o
<1>4. /\ q \in [Rows -> TopUpRow] /\ \A j \in Rows \ {r} : q[j] = row[j]
      /\ q[r].tx # "sent" /\ q[r].amount = row[r].amount /\ q[r].status = row[r].status
  <2>1. PICK tx \in {"mined", "reverted"} : q = [row EXCEPT ![r].tx = tx]
    BY <1>1
  <2> QED BY <1>2, <2>1 DEF TopUpRow
<1>5. o \in TopUpPot /\ o.hot <= pot.hot + row[r].amount
  <2>1. pot.hot \in Nat /\ pot.safe \in Nat /\ pot.gas \in Nat
    BY <1>2 DEF TopUpPot
  <2>2. CASE /\ pot.gas > 0 /\ pot.safe >= row[r].amount
             /\ o = [pot EXCEPT !.gas = @ - 1, !.safe = @ - row[r].amount, !.hot = @ + row[r].amount]
    <3> DEFINE g == pot.gas - 1
               s == pot.safe - row[r].amount
               h == pot.hot + row[r].amount
    <3>1. g \in Nat /\ s \in Nat /\ h \in Nat
      BY <2>1, <2>2, <1>3
    <3>2. o = [pot EXCEPT !.gas = g, !.safe = s, !.hot = h]
      BY <2>2
    <3> HIDE DEF g, s, h
    <3>3. o = [hot |-> h, safe |-> s, gas |-> g, coming |-> pot.coming] /\ pot.coming \in Nat
      BY <1>2, <3>2 DEF TopUpPot
    <3>4. o \in TopUpPot /\ o.hot = h
      BY <3>1, <3>3 DEF TopUpPot
    <3> QED BY <3>1, <3>4 DEF h
  <2>3. CASE o = [pot EXCEPT !.gas = IF @ > 0 THEN @ - 1 ELSE 0]
    BY <1>2, <1>3, <2>1, <2>3 DEF TopUpPot
  <2> QED BY <1>1, <2>2, <2>3
<1>6. HotOk(q, call, o, faults)
  BY <1>1, <1>2, <1>4, <1>5, RowEnds
<1>7. CASE UNCHANGED faults
  BY <1>1, <1>6, <1>7 DEF HotInv, q, o
<1>8. CASE TFault
  <2>1. HotOk(q, call, o, faults - 1)
    BY <1>6, <1>8, FaultTaken DEF TFault
  <2> QED BY <1>1, <1>8, <2>1 DEF HotInv, q, o, TFault
<1> QED BY <1>1, <1>7, <1>8

LEMMA OthersKeepHot == ASSUME HotInv, GasArrives \/ Propose \/ Approve \/ Crash PROVE HotInv'
<1>1. CASE GasArrives
  <2>1. UNCHANGED <<row, call, faults>> /\ pot.coming > 0 /\ pot' = [pot EXCEPT !.coming = @ - 1, !.gas = @ + 1]
    BY <1>1 DEF GasArrives
  <2>a. pot \in TopUpPot
    BY HotTypes
  <2>2. pot' \in TopUpPot /\ pot'.hot = pot.hot
    <3> DEFINE n == pot.coming - 1
               g == pot.gas + 1
    <3>1. n \in Nat /\ g \in Nat
      BY <2>1, <2>a DEF TopUpPot
    <3>2. pot' = [pot EXCEPT !.coming = n, !.gas = g]
      BY <2>1
    <3> HIDE DEF n, g
    <3> QED BY <2>a, <3>1, <3>2 DEF TopUpPot
  <2> DEFINE o == pot'
  <2>3. o \in TopUpPot /\ o.hot = pot.hot
    BY <2>2
  <2> HIDE DEF o
  <2>4. HotOk(row, call, o, faults)
    BY <2>3, PotChanges, HotTypes
  <2> QED BY <2>1, <2>4 DEF HotInv, o
<1>2. CASE Propose
  <2>1. UNCHANGED <<row, call, pot>> /\ faults > 0 /\ faults' = faults - 1
    BY <1>2 DEF Propose, TFault
  <2>2. HotOk(row, call, pot, faults - 1)
    BY <2>1, FaultTaken, HotTypes
  <2> QED BY <2>1, <2>2 DEF HotInv
<1>3. CASE Approve
  BY <1>3 DEF Approve, HotInv
<1>4. CASE Crash
  <2>1. UNCHANGED <<row, pot>> /\ faults > 0 /\ faults' = faults - 1 /\ call' = [c \in Callers |-> NoCall]
    BY <1>4 DEF Crash, TFault
  <2> DEFINE d == call'
  <2>2. d = [c \in Callers |-> NoCall]
    BY <2>1
  <2> HIDE DEF d
  <2>3. HotOk(row, d, pot, faults - 1)
    BY <2>1, <2>2, CallsDie, HotTypes
  <2> QED BY <2>1, <2>3 DEF HotInv, d
<1> QED BY <1>1, <1>2, <1>3, <1>4

LEMMA HotKept == HotInv /\ [TNext]_tvars => HotInv'
<1> SUFFICES ASSUME HotInv, [TNext]_tvars PROVE HotInv'
  OBVIOUS
<1>1. ASSUME NEW r \in Rows, MineTopUp(r) PROVE HotInv'
  BY <1>1, MineTopUpKeeps
<1>2. CASE GasArrives \/ Propose \/ Approve \/ Crash
  BY <1>2, OthersKeepHot
<1>3. CASE TimerBegins \/ FailStale
  BY <1>3, TimerBeginsKeeps, FailStaleKeeps
<1>4. ASSUME NEW c \in Callers, Begin(c) \/ Look(c) \/ Fails(c) PROVE HotInv'
  BY <1>4, BeginKeeps, LookKeeps, FailsKeeps
<1>5. ASSUME NEW c \in Callers, TopUpStep(c) PROVE HotInv'
  BY <1>5, ReadActiveKeeps, ReadBalancesKeeps, CreateKeeps, GasKeeps, GasLateKeeps, SendTopUpKeeps, TopUpSentKeeps,
     AfterKeeps DEF TopUpStep
<1>6. CASE UNCHANGED tvars
  BY <1>6 DEF tvars, HotInv
<1> QED
  BY <1>1, <1>2, <1>3, <1>4, <1>5, <1>6 DEF TNext

\* However many calls read the transfers and the balances side by side, and whatever faults lose
\* their outcome: what the hot wallet has and is under way is bounded.
THEOREM HotIsBoundedAlways == TSpec => []HotIsBounded
<1>1. TInit => HotInv
  BY HotStarts
<1>2. HotInv /\ [TNext]_tvars => HotInv'
  BY HotKept
<1>3. HotInv => HotIsBounded
  <2> SUFFICES ASSUME HotInv PROVE HotIsBounded
    OBVIOUS
  <2>1. HotOk(row, call, pot, faults) /\ faults \in 0 .. MaxTopUpFaults /\ call \in [Callers -> TopUpCall]
    BY HotTypes
  <2>2. UnderWay = GoingIn(row)
    BY DEF UnderWay, GoingIn, Going, If
  <2>3. MaxSingle * (Cardinality(Callers) * (1 + MaxTopUpFaults - faults) - 1) = Whole - MaxSingle + Loss(faults)
    BY <2>1, LossIs
  <2>4. AskedBy(call) >= 0
    BY <2>1, HeldAtMost
  <2>5. pot.hot + GoingIn(row) <= Wanted + (Whole - MaxSingle + Loss(faults))
    BY <2>1, <2>4, HotParts
  <2> QED BY <2>2, <2>3, <2>5 DEF HotIsBounded, Wanted
<1> QED
  BY <1>1, <1>2, <1>3, PTL DEF TSpec
===============================================================================
