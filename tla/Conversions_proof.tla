-------------------------- MODULE Conversions_proof --------------------------
(***************************************************************************)
(* Theorems about Conversions: any quotes, requests, users, assets and      *)
(* worker processes, any amounts, fee rate and bound on faults.             *)
(***************************************************************************)
EXTENDS Conversions, Ledger_proof

-----------------------------------------------------------------------------
(* Terms, fees and entries *)

LEMMA TermsType ==
  ASSUME NEW r \in Requests
  PROVE  /\ Terms(r) \in OfferType /\ Terms(r).from # Terms(r).to
         /\ Terms(r).user \in Users /\ Terms(r).from \in Assets /\ Terms(r).to \in Assets
         /\ Terms(r).amount \in Nat \ {0} /\ Terms(r).gross \in Nat \ {0}
         /\ Terms(r).min \in Nat \ {0} /\ Terms(r).reserve \in BOOLEAN
         /\ r # None
<1>1. QuoteOf[r] \in Quotes
  BY ConversionsAssumption
<1>2. Terms(r) \in OfferType /\ Terms(r).from # Terms(r).to /\ r # None
  BY <1>1, ConversionsAssumption DEF Terms
<1> QED
  BY <1>2 DEF OfferType

\* Outputs whose fee leaves something.
Gross == {g \in Nat \ {0} : FeeOf(g) \in Nat /\ FeeOf(g) < g}

LEMMA FeeType ==
  ASSUME NEW g \in Nat
  PROVE  FeeOf(g) \in Nat
<1>1. g * FeeRate \in Nat
  BY ConversionsAssumption
<1>2. RateBase \in Nat \ {0}
  BY ConversionsAssumption
<1> QED
  BY <1>1, <1>2 DEF FeeOf

LEMMA FeeBounded ==
  ASSUME NEW g \in Nat \ {0}
  PROVE  FeeOf(g) < g
<1>1. PICK q \in Nat : q = FeeOf(g)
  BY FeeType
<1>2. RateBase \in Nat \ {0} /\ FeeRate \in Nat /\ FeeRate + 1 <= RateBase /\ g * FeeRate \in Nat
  BY ConversionsAssumption
<1>3. RateBase * q <= g * FeeRate
  BY <1>1, <1>2 DEF FeeOf
<1>4. g * FeeRate + g <= g * RateBase
  BY <1>2
<1>5. ASSUME q >= g
      PROVE  FALSE
  <2>1. PICK d \in Nat : q = g + d
    <3>1. q - g \in Nat /\ q = g + (q - g)
      BY <1>5
    <3> QED
      BY <3>1
  <2>2. RateBase * q = g * RateBase + RateBase * d
    BY <1>2, <2>1
  <2>3. RateBase * d >= 0 /\ RateBase * d \in Int /\ g * RateBase \in Int
    BY <1>2
  <2> QED
    BY <1>2, <1>3, <1>4, <2>2, <2>3
<1> QED
  BY <1>1, <1>5

\* What is quoted, and what a swap is measured to have brought, can be credited.
LEMMA GrossType ==
  ASSUME NEW g \in Nat \ {0}
  PROVE  g \in Gross
  BY FeeType, FeeBounded DEF Gross

LEMMA EntriesThere ==
  ASSUME NEW r \in Requests, NEW g
  PROVE  ReserveEntries(r) # <<>> /\ ReleaseEntries(r) # <<>> /\ TradeEntries(r, g) # <<>>
<1>1. \A a, b, c : <<a, b>> # <<>> /\ <<a, b, c>> # <<>>
  OBVIOUS
<1>2. ReserveEntries(r) # <<>> /\ ReleaseEntries(r) # <<>>
  BY <1>1 DEF ReserveEntries, ReleaseEntries
<1> DEFINE a == Debit(Clearing(Terms(r).to), g)
           b == Credit(Spot(Terms(r).user, Terms(r).to), g - FeeOf(g))
           c == Credit(Fees(Terms(r).to), FeeOf(g))
<1>3. TradeEntries(r, g) \in {<<a, b, c>>, <<a, b>>}
  <2>1. <<a, b>> \o <<c>> = <<a, b, c>> /\ <<a, b>> \o <<>> = <<a, b>>
    BY OptionalEntry
  <2> QED
    BY <2>1 DEF TradeEntries
<1> HIDE DEF a, b, c
<1>4. TradeEntries(r, g) # <<>>
  BY <1>1, <1>3
<1> QED
  BY <1>2, <1>4

\* Whether r is paid from, or pays into, the balance of u in a.
Pays(r, u, a) == u = Terms(r).user /\ a = Terms(r).from
Gets(r, u, a) == u = Terms(r).user /\ a = Terms(r).to

LEMMA HoldNets ==
  ASSUME NEW r \in Requests, NEW u, NEW a
  PROVE  /\ NetOf(ReserveEntries(r), Spot(u, a)) = IF Pays(r, u, a) THEN -Terms(r).amount ELSE 0
         /\ NetOf(ReleaseEntries(r), Spot(u, a)) = IF Pays(r, u, a) THEN Terms(r).amount ELSE 0
<1> DEFINE s == Spot(Terms(r).user, Terms(r).from)
           c == Clearing(Terms(r).from)
           n == Terms(r).amount
<1>t. n \in Nat /\ n \in Int
  BY TermsType
<1>1. \A account : /\ NetOf(ReserveEntries(r), account) = Weight(account, c, n) - Weight(account, s, n)
                   /\ NetOf(ReleaseEntries(r), account) = Weight(account, s, n) - Weight(account, c, n)
  BY <1>t, NetOfMove DEF ReserveEntries, ReleaseEntries
<1>2. Spot(u, a) # c /\ (Spot(u, a) = s <=> Pays(r, u, a))
  BY DEF Spot, Clearing, Pays
<1> HIDE DEF c, s, n
<1>3. /\ Weight(Spot(u, a), c, n) = 0
      /\ Weight(Spot(u, a), s, n) = IF Pays(r, u, a) THEN n ELSE 0
  BY <1>2 DEF Weight
<1>4. /\ NetOf(ReserveEntries(r), Spot(u, a)) = IF Pays(r, u, a) THEN -n ELSE 0
      /\ NetOf(ReleaseEntries(r), Spot(u, a)) = IF Pays(r, u, a) THEN n ELSE 0
  BY <1>t, <1>1, <1>3
<1> QED
  BY <1>4 DEF n

LEMMA TradeNets ==
  ASSUME NEW r \in Requests, NEW g \in Gross, NEW u, NEW a
  PROVE  /\ NetOf(TradeEntries(r, g), Spot(u, a)) = IF Gets(r, u, a) THEN g - FeeOf(g) ELSE 0
         /\ NetOf(TradeEntries(r, g), Clearing(Terms(r).to)) = -g
<1> DEFINE f  == FeeOf(g)
           d  == Debit(Clearing(Terms(r).to), g)
           e  == Credit(Spot(Terms(r).user, Terms(r).to), g - f)
           x  == Credit(Fees(Terms(r).to), f)
           s  == Spot(u, a)
           c  == Clearing(Terms(r).to)
<1>t. g \in Nat \ {0} /\ f \in Nat /\ f <= g
  BY DEF Gross
<1>1. TradeEntries(r, g) = IF f > 0 THEN <<d, e, x>> ELSE <<d, e>>
  BY OptionalEntry DEF TradeEntries
<1>2. d.amount \in Int /\ e.amount \in Int /\ x.amount \in Int
  BY <1>t DEF Debit, Credit
<1>3. /\ Value(d, s) = 0 /\ Value(x, s) = 0
      /\ Value(e, s) = IF Gets(r, u, a) THEN g - f ELSE 0
  BY <1>t DEF Value, Debit, Credit, Spot, Clearing, Fees, Gets
<1>4. Value(d, c) = -g /\ Value(e, c) = 0 /\ Value(x, c) = 0
  BY <1>t DEF Value, Debit, Credit, Spot, Clearing, Fees
<1> HIDE DEF d, e, x, s, c, f
<1>5. \A account : /\ NetOf(<<d, e, x>>, account) = Value(d, account) + Value(e, account) + Value(x, account)
                   /\ NetOf(<<d, e>>, account) = Value(d, account) + Value(e, account)
  BY <1>2, NetOfTwo, NetOfThree
<1>6. /\ NetOf(TradeEntries(r, g), s) = IF Gets(r, u, a) THEN g - f ELSE 0
      /\ NetOf(TradeEntries(r, g), c) = -g
  BY <1>t, <1>1, <1>3, <1>4, <1>5
<1> QED
  BY <1>6 DEF s, c, f

-----------------------------------------------------------------------------
(* The journal *)

\* What a journal of conversions may hold.
Entered(j) ==
  /\ DOMAIN j = Keys
  /\ \A r \in Requests :
       /\ j[<<"reserve", r>>] \in {<<>>, ReserveEntries(r)}
       /\ j[<<"release", r>>] \in {<<>>, ReleaseEntries(r)}
       /\ j[<<"trade", r>>] = <<>> \/ \E g \in Gross : j[<<"trade", r>>] = TradeEntries(r, g)

Ops == {"reserve", "release", "trade"}

\* What a transaction under a key of r may post.
MayPost(op, r, entries) ==
  \/ op = "reserve" /\ entries = ReserveEntries(r)
  \/ op = "release" /\ entries = ReleaseEntries(r)
  \/ op = "trade" /\ \E g \in Gross : entries = TradeEntries(r, g)

LEMMA KeysFinite == IsFiniteSet(Keys) /\ \A r \in Requests, op \in Ops : <<op, r>> \in Keys
<1>1. IsFiniteSet(Ops)
  <2>1. IsFiniteSet({"reserve"})
    BY FS_Singleton
  <2>2. IsFiniteSet({"reserve"} \cup {"release"})
    BY <2>1, FS_AddElement
  <2>3. IsFiniteSet(({"reserve"} \cup {"release"}) \cup {"trade"})
    BY <2>2, FS_AddElement
  <2>4. Ops = ({"reserve"} \cup {"release"}) \cup {"trade"}
    BY DEF Ops
  <2> QED
    BY <2>3, <2>4
<1>2. Keys = Ops \X Requests
  BY DEF Keys, Ops
<1>3. IsFiniteSet(Keys)
  BY <1>1, <1>2, ConversionsAssumption, FS_Product
<1> QED
  BY <1>2, <1>3

LEMMA RecordKeys ==
  ASSUME NEW j, Entered(j), NEW op \in Ops, NEW r \in Requests, NEW entries, MayPost(op, r, entries)
  PROVE  /\ Entered(Record(j, <<op, r>>, entries))
         /\ Record(j, <<op, r>>, entries)[<<op, r>>] # <<>>
         /\ j[<<op, r>>] = <<>> => Record(j, <<op, r>>, entries)[<<op, r>>] = entries
         /\ \A o \in Ops, s \in Requests :
              o # op \/ s # r => Record(j, <<op, r>>, entries)[<<o, s>>] = j[<<o, s>>]
<1>1. PICK next : next = Record(j, <<op, r>>, entries)
  OBVIOUS
<1>k. /\ <<op, r>> \in Keys /\ \A o \in Ops, s \in Requests : <<o, s>> \in Keys
      /\ \A o \in Ops, s \in Requests : o # op \/ s # r => <<o, s>> # <<op, r>>
  BY KeysFinite
<1>2. entries # <<>>
  BY EntriesThere DEF MayPost
<1>3. DOMAIN next = Keys /\ \A k \in Keys \ {<<op, r>>} : next[k] = j[k]
  BY <1>1, <1>k DEF Record, Entered
<1>4. next[<<op, r>>] = IF j[<<op, r>>] = <<>> THEN entries ELSE j[<<op, r>>]
  BY <1>1, <1>k DEF Record, Entered
<1>5. \A o \in Ops, s \in Requests : o # op \/ s # r => next[<<o, s>>] = j[<<o, s>>]
  BY <1>3, <1>k
<1>6. ASSUME NEW s \in Requests
      PROVE  /\ next[<<"reserve", s>>] \in {<<>>, ReserveEntries(s)}
             /\ next[<<"release", s>>] \in {<<>>, ReleaseEntries(s)}
             /\ next[<<"trade", s>>] = <<>> \/ \E g \in Gross : next[<<"trade", s>>] = TradeEntries(s, g)
  <2>1. /\ j[<<"reserve", s>>] \in {<<>>, ReserveEntries(s)}
        /\ j[<<"release", s>>] \in {<<>>, ReleaseEntries(s)}
        /\ j[<<"trade", s>>] = <<>> \/ \E g \in Gross : j[<<"trade", s>>] = TradeEntries(s, g)
    BY DEF Entered
  <2>2. CASE s # r
    BY <1>5, <2>1, <2>2 DEF Ops
  <2>3. CASE s = r
    BY <1>4, <1>5, <2>1, <2>3 DEF Ops, MayPost
  <2> QED
    BY <2>2, <2>3
<1> QED
  BY <1>1, <1>2, <1>3, <1>4, <1>5, <1>6 DEF Entered

BalanceIn(j, u, a) == Funding[u][a] + Holding(j, Spot(u, a))

LEMMA EntryNets ==
  ASSUME NEW j, Entered(j), NEW k \in Keys, NEW u, NEW a
  PROVE  NetOf(j[k], Spot(u, a)) \in Int
<1>1. PICK op \in Ops, r \in Requests : k = <<op, r>>
  BY DEF Keys, Ops
<1>2. Terms(r).amount \in Int /\ -Terms(r).amount \in Int
  BY TermsType
<1>3. \A g \in Gross : g - FeeOf(g) \in Int
  BY DEF Gross
<1>4. \/ j[k] = <<>> \/ j[k] = ReserveEntries(r) \/ j[k] = ReleaseEntries(r)
      \/ \E g \in Gross : j[k] = TradeEntries(r, g)
  BY <1>1 DEF Entered, Ops
<1> QED
  BY <1>2, <1>3, <1>4, NetOfNone, HoldNets, TradeNets

LEMMA BalanceRecord ==
  ASSUME NEW j, Entered(j), NEW op \in Ops, NEW r \in Requests, NEW entries, MayPost(op, r, entries),
         NEW u \in Users, NEW a \in Assets
  PROVE  /\ BalanceIn(j, u, a) \in Int
         /\ BalanceIn(Record(j, <<op, r>>, entries), u, a)
              = BalanceIn(j, u, a)
                  + (IF j[<<op, r>>] = <<>> THEN NetOf(entries, Spot(u, a)) ELSE 0)
<1>1. Countable(j, Spot(u, a))
  BY KeysFinite, EntryNets DEF Countable, Entered
<1>2. <<op, r>> \in DOMAIN j
  BY KeysFinite DEF Entered
<1>3. NetOf(entries, Spot(u, a)) \in Int
  <2>1. Terms(r).amount \in Int /\ -Terms(r).amount \in Int
    BY TermsType
  <2>2. \A g \in Gross : g - FeeOf(g) \in Int
    BY DEF Gross
  <2> QED
    BY <2>1, <2>2, HoldNets, TradeNets DEF MayPost
<1>4. Holding(Record(j, <<op, r>>, entries), Spot(u, a))
        = Holding(j, Spot(u, a)) + (IF j[<<op, r>>] = <<>> THEN NetOf(entries, Spot(u, a)) ELSE 0)
  BY <1>1, <1>2, <1>3, HoldingRecord
<1>5. Holding(j, Spot(u, a)) \in Int
  BY <1>1, HoldingType
<1>6. Funding[u][a] \in Int
  BY ConversionsAssumption
<1> QED
  BY <1>3, <1>4, <1>5, <1>6 DEF BalanceIn

\* Nobody is overdrawn.
Covered(j) == \A u \in Users : \A a \in Assets : BalanceIn(j, u, a) >= 0

\* Only a reserve takes from a balance, and it asks for it.
LEMMA RecordCovered ==
  ASSUME NEW j, Entered(j), Covered(j), NEW op \in Ops, NEW r \in Requests, NEW entries,
         MayPost(op, r, entries),
         op = "reserve" => BalanceIn(j, Terms(r).user, Terms(r).from) >= Terms(r).amount
  PROVE  Covered(Record(j, <<op, r>>, entries))
<1> SUFFICES ASSUME NEW u \in Users, NEW a \in Assets
             PROVE  BalanceIn(Record(j, <<op, r>>, entries), u, a) >= 0
  BY DEF Covered
<1>1. PICK b \in Int : b = BalanceIn(j, u, a)
  BY BalanceRecord
<1>2. b >= 0
  BY <1>1 DEF Covered
<1>3. BalanceIn(Record(j, <<op, r>>, entries), u, a)
        = b + (IF j[<<op, r>>] = <<>> THEN NetOf(entries, Spot(u, a)) ELSE 0)
  BY <1>1, BalanceRecord
<1>4. Terms(r).amount \in Nat
  BY TermsType
<1>5. CASE op = "reserve"
  <2>1. NetOf(entries, Spot(u, a)) = IF Pays(r, u, a) THEN -Terms(r).amount ELSE 0
    BY <1>5, HoldNets DEF MayPost
  <2>2. Pays(r, u, a) => b >= Terms(r).amount
    BY <1>1, <1>5 DEF Pays
  <2> QED
    BY <1>2, <1>3, <1>4, <2>1, <2>2
<1>6. CASE op = "release"
  BY <1>2, <1>3, <1>4, <1>6, HoldNets DEF MayPost
<1>7. CASE op = "trade"
  <2>1. PICK g \in Gross : entries = TradeEntries(r, g)
    BY <1>7 DEF MayPost
  <2>2. g - FeeOf(g) \in Int /\ g - FeeOf(g) >= 0
    BY DEF Gross
  <2>3. NetOf(entries, Spot(u, a)) = IF Gets(r, u, a) THEN g - FeeOf(g) ELSE 0
    BY <2>1, TradeNets
  <2> QED
    BY <1>2, <1>3, <2>2, <2>3
<1> QED
  BY <1>5, <1>6, <1>7 DEF Ops

-----------------------------------------------------------------------------
(* The inductive invariant *)

Row == [status : Status, at : Nat, hash : BOOLEAN, before : Int]
Place == [step : Steps, r : Requests \cup {None}, before : Int, gross : Int, release : BOOLEAN]
Swaps == {"none", "asked", "accepted", "mined", "reverted"}
Reasons == {"blind", "send", "record", "late"}

Types ==
  /\ quote \in [Quotes -> {"ABSENT", "ACTIVE", "CONSUMED"}]
  /\ expired \subseteq Quotes
  /\ conv \in [Requests -> Row]
  /\ calls \subseteq Requests
  /\ worker \in [Workers -> Place]
  /\ swap \in [Requests -> Swaps]
  /\ brought \in [Requests -> Nat]
  /\ window \in [Requests -> SUBSET Reasons]
  /\ orphan \subseteq Requests
  /\ faults \in 0..MaxFaults

\* A transaction of the swap exists.
Seen == {"accepted", "mined", "reverted"}

\* A conversion r with row c, whose swap is s and brought b, after the errors w:
\* each posting is there when its status says so, and no status runs ahead of
\* the swap.
RowOk(r, c, s, b, w, j) ==
  /\ c.status = "ABSENT" => ~c.hash /\ s = "none" /\ w = {} /\ \A op \in Ops : j[<<op, r>>] = <<>>
  /\ c.status # "ABSENT" => j[<<"reserve", r>>] # <<>>
  /\ j[<<"trade", r>>] # <<>> <=> c.status = "FILLED"
  /\ j[<<"release", r>>] # <<>> => c.status = "FAILED" /\ (s \in {"none", "reverted"} \/ w # {})
  /\ c.status = "PENDING" /\ ~c.hash => s = "none"
  /\ c.hash => s \in Seen
  /\ Terms(r).reserve => s = "none"
  /\ c.status = "FILLED" /\ ~Terms(r).reserve =>
       /\ s = "mined"
       /\ Terms(r).to \notin Native => j[<<"trade", r>>] = TradeEntries(r, b)

\* A process at x, in its conversion.
PlaceOk(x, c, s, b, w) ==
  LET reserve == Terms(x.r).reserve
  IN  \/ x.step = "found" /\ c.status # "ABSENT"
      \/ x.step = "start" /\ c.status = "EXECUTING" /\ (c.hash \/ s = "none")
      \/ x.step = "defer" /\ c.status = "EXECUTING" /\ (c.hash \/ s = "none")
      \/ x.step = "send" /\ c.status = "EXECUTING" /\ ~reserve /\ s = "none" /\ ~c.hash
      \/ x.step = "sending" /\ c.status = "EXECUTING" /\ ~reserve /\ s # "none" /\ ~c.hash
      \/ x.step = "record" /\ c.status = "EXECUTING" /\ ~reserve /\ s \in Seen /\ ~c.hash
      \/ x.step = "wait" /\ c.status = "EXECUTING" /\ ~reserve /\ c.hash
      \/ x.step = "read" /\ c.status = "EXECUTING" /\ ~reserve /\ s = "mined" /\ c.hash
      \/ /\ x.step = "settle" /\ c.status = "EXECUTING" /\ x.gross \in Gross
         /\ ~reserve => s = "mined" /\ (Terms(x.r).to \notin Native => x.gross = b)
      \/ /\ x.step = "fail"
         /\ \/ c.status = "FILLED"
            \/ c.status = "EXECUTING" /\ (x.release => s \in {"none", "reverted"} \/ w # {})

RowsOk == \A r \in Requests : RowOk(r, conv[r], swap[r], brought[r], window[r], journal)
PlacesOk ==
  \A p \in Workers :
    \/ worker[p] = Idle
    \/ /\ Cur(p) \in Requests
       /\ PlaceOk(worker[p], conv[Cur(p)], swap[Cur(p)], brought[Cur(p)], window[Cur(p)])

Busy(p, r) == Cur(p) = r /\ ~At(p, "found")
Unique == \A r \in Requests : \A p, q \in Workers : Busy(p, r) /\ Busy(q, r) => p = q
Attended ==
  \A r \in Requests :
    conv[r].status = "EXECUTING" /\ r \notin orphan => \E p \in Workers : Busy(p, r)

IInv ==
  /\ Types /\ Entered(journal) /\ Covered(journal)
  /\ RowsOk /\ PlacesOk /\ Unique /\ Attended /\ OneConversion

LEMMA InitInv == Init => IInv
<1> SUFFICES ASSUME Init
             PROVE  IInv
  OBVIOUS
<1>1. Absent \in Row /\ Idle \in Place
  BY DEF Absent, Idle, Row, Place, Status, Steps
<1>2. Types
  BY <1>1, ConversionsAssumption DEF Init, Types, Swaps
<1>3. \A op \in Ops, r \in Requests : journal[<<op, r>>] = <<>>
  BY KeysFinite DEF Init
<1>4. Entered(journal)
  BY <1>3 DEF Entered, Init, Ops
<1>5. Covered(journal)
  <2> SUFFICES ASSUME NEW u \in Users, NEW a \in Assets
               PROVE  BalanceIn(journal, u, a) >= 0
    BY DEF Covered
  <2>1. Holding(journal, Spot(u, a)) = 0
    BY KeysFinite, HoldingNone DEF Init
  <2> QED
    BY <2>1, ConversionsAssumption DEF BalanceIn
<1>6. RowsOk
  BY <1>3 DEF RowsOk, RowOk, Init, Absent, Ops
<1>7. PlacesOk
  BY DEF PlacesOk, Init
<1>8. Unique /\ Attended /\ OneConversion
  BY TermsType DEF Unique, Attended, OneConversion, Rows, Busy, Cur, Init, Idle, Absent
<1> QED
  BY <1>2, <1>4, <1>5, <1>6, <1>7, <1>8 DEF IInv

\* A process that is not idle.
LEMMA AtWork ==
  ASSUME IInv, NEW p \in Workers, ~At(p, "idle")
  PROVE  /\ Cur(p) \in Requests /\ conv[Cur(p)].status # "ABSENT"
         /\ worker[p] \in Place /\ worker[p].r = Cur(p)
         /\ PlaceOk(worker[p], conv[Cur(p)], swap[Cur(p)], brought[Cur(p)], window[Cur(p)])
         /\ RowOk(Cur(p), conv[Cur(p)], swap[Cur(p)], brought[Cur(p)], window[Cur(p)], journal)
<1>1. worker[p] # Idle
  BY DEF At, Idle
<1>2. /\ Cur(p) \in Requests
      /\ PlaceOk(worker[p], conv[Cur(p)], swap[Cur(p)], brought[Cur(p)], window[Cur(p)])
  BY <1>1 DEF IInv, PlacesOk
<1>3. conv[Cur(p)].status # "ABSENT"
  BY <1>2 DEF PlaceOk
<1>4. RowOk(Cur(p), conv[Cur(p)], swap[Cur(p)], brought[Cur(p)], window[Cur(p)], journal)
  BY <1>2 DEF IInv, RowsOk
<1> QED
  BY <1>2, <1>3, <1>4 DEF IInv, Types, Cur

LEMMA NobodyElse ==
  ASSUME IInv, NEW p \in Workers, ~At(p, "idle"),
         ~At(p, "found") \/ conv[Cur(p)].status = "PENDING",
         NEW q \in Workers, q # p
  PROVE  ~Busy(q, Cur(p))
<1>1. Cur(p) \in Requests
  BY AtWork
<1>2. CASE ~At(p, "found")
  BY <1>1, <1>2 DEF IInv, Unique, Busy
<1>3. CASE conv[Cur(p)].status = "PENDING"
  <2> SUFFICES ASSUME Busy(q, Cur(p))
               PROVE  FALSE
    OBVIOUS
  <2>1. worker[q] # Idle
    BY <1>1, TermsType DEF Busy, Cur, Idle
  <2>2. PlaceOk(worker[q], conv[Cur(p)], swap[Cur(p)], brought[Cur(p)], window[Cur(p)])
    BY <2>1 DEF IInv, PlacesOk, Busy
  <2> QED
    BY <1>3, <2>2 DEF PlaceOk, Busy, At
<1> QED
  BY <1>2, <1>3

\* A step of the process that has r, which leaves other conversions alone.
LEMMA OwnStep ==
  ASSUME IInv, Types', Entered(journal)', Covered(journal)',
         NEW p \in Workers, NEW r \in Requests, Cur(p) = r, ~At(p, "idle"),
         ~At(p, "found") \/ conv[r].status = "PENDING",
         \A q \in Workers \ {p} : worker'[q] = worker[q],
         \A s \in Requests \ {r} :
           /\ conv'[s] = conv[s] /\ swap'[s] = swap[s] /\ window'[s] = window[s]
           /\ \A op \in Ops : journal'[<<op, s>>] = journal[<<op, s>>],
         brought' = brought, orphan \subseteq orphan', conv'[r].status # "ABSENT",
         RowOk(r, conv'[r], swap'[r], brought[r], window'[r], journal'),
         \/ worker'[p] = Idle /\ (conv'[r].status = "EXECUTING" => r \in orphan')
         \/ /\ worker'[p].r = r /\ worker'[p].step \notin {"idle", "found"}
            /\ PlaceOk(worker'[p], conv'[r], swap'[r], brought[r], window'[r])
  PROVE  IInv'
<1>1. RowsOk'
  <2> SUFFICES ASSUME NEW s \in Requests, s # r
               PROVE  RowOk(s, conv'[s], swap'[s], brought'[s], window'[s], journal')
    BY DEF RowsOk
  <2>1. RowOk(s, conv[s], swap[s], brought[s], window[s], journal)
    BY DEF IInv, RowsOk
  <2>2. /\ conv'[s] = conv[s] /\ swap'[s] = swap[s] /\ window'[s] = window[s] /\ brought'[s] = brought[s]
        /\ \A op \in Ops : journal'[<<op, s>>] = journal[<<op, s>>]
    OBVIOUS
  <2> QED
    BY <2>1, <2>2 DEF RowOk, Ops
<1>2. \A q \in Workers \ {p} : ~Busy(q, r)
  BY NobodyElse
<1>3. ASSUME NEW q \in Workers \ {p}, worker'[q] # Idle
      PROVE  /\ worker'[q].r \in Requests
             /\ PlaceOk(worker'[q], conv'[worker'[q].r], swap'[worker'[q].r],
                        brought'[worker'[q].r], window'[worker'[q].r])
  <2>1. worker'[q] = worker[q] /\ worker[q] # Idle
    BY <1>3
  <2>2. Cur(q) \in Requests /\ PlaceOk(worker[q], conv[Cur(q)], swap[Cur(q)], brought[Cur(q)], window[Cur(q)])
    BY <2>1 DEF IInv, PlacesOk
  <2>3. CASE Cur(q) # r
    BY <2>1, <2>2, <2>3 DEF Cur
  <2>4. CASE Cur(q) = r
    BY <1>2, <2>1, <2>2, <2>4 DEF Busy, At, PlaceOk, Cur
  <2> QED
    BY <2>3, <2>4
<1>4. worker'[p] = Idle \/ /\ worker'[p].r = r
                           /\ PlaceOk(worker'[p], conv'[r], swap'[r], brought'[r], window'[r])
  OBVIOUS
<1>5. PlacesOk'
  BY <1>3, <1>4 DEF PlacesOk, Cur
<1>6. \A q \in Workers \ {p}, s \in Requests : Busy(q, s)' <=> Busy(q, s)
  BY DEF Busy, Cur, At
<1>7. \A s \in Requests \ {r} : ~Busy(p, s)'
  BY TermsType DEF Busy, Cur, Idle
<1>8. Unique'
  BY <1>2, <1>6, <1>7 DEF IInv, Unique
<1>9. Attended'
  <2> SUFFICES ASSUME NEW s \in Requests, conv'[s].status = "EXECUTING", s \notin orphan'
               PROVE  \E q \in Workers : Busy(q, s)'
    BY DEF Attended
  <2>1. CASE s = r
    <3>1. worker'[p].r = r /\ worker'[p].step # "found"
      BY <2>1
    <3>2. Busy(p, s)'
      BY <2>1, <3>1 DEF Busy, Cur, At
    <3> QED
      BY <3>2
  <2>2. CASE s # r
    <3>1. PICK q \in Workers : Busy(q, s)
      BY <2>2 DEF IInv, Attended
    <3>2. q # p
      BY <2>2, <3>1 DEF Busy
    <3> QED
      BY <1>6, <3>1, <3>2
  <2> QED
    BY <2>1, <2>2
<1>10. OneConversion'
  <2>1. conv[r].status # "ABSENT"
    BY AtWork
  <2>2. Rows' = Rows
    BY <2>1 DEF Rows
  <2> QED
    BY <2>2 DEF IInv, OneConversion, SameClient
<1> QED
  BY <1>1, <1>5, <1>8, <1>9, <1>10 DEF IInv

-----------------------------------------------------------------------------
(* What the steps of a process do to it *)

\* Process p, and no other, is at y.
Moved(p, y) ==
  /\ worker' \in [Workers -> Place]
  /\ worker'[p] = y
  /\ \A q \in Workers \ {p} : worker'[q] = worker[q]

LEMMA MovedTo ==
  ASSUME Types, NEW p \in Workers, NEW y \in Place, worker' = [worker EXCEPT ![p] = y]
  PROVE  Moved(p, y)
  BY DEF Types, Moved

LEMMA EndsEffect ==
  ASSUME Types, NEW p \in Workers, Ends(p)
  PROVE  Moved(p, Idle)
<1>1. Idle \in Place
  BY DEF Idle, Place, Steps
<1> QED
  BY <1>1, MovedTo DEF Ends

LEMMA GoesEffect ==
  ASSUME Types, NEW p \in Workers, NEW st \in Steps, Goes(p, st)
  PROVE  \E y \in Place :
           /\ Moved(p, y)
           /\ y.step = st /\ y.r = Cur(p) /\ y.before = worker[p].before /\ y.gross = worker[p].gross
           /\ y.release = worker[p].release
<1> DEFINE y == [worker[p] EXCEPT !.step = st]
<1>1. worker[p] \in Place
  BY DEF Types
<1>2. /\ y \in Place /\ y.step = st /\ y.r = Cur(p) /\ y.before = worker[p].before
      /\ y.gross = worker[p].gross /\ y.release = worker[p].release
  BY <1>1 DEF Place, Cur
<1>3. worker' = [worker EXCEPT ![p] = y]
  BY DEF Goes
<1>4. Moved(p, y)
  BY <1>2, <1>3, MovedTo
<1> QED
  BY <1>2, <1>4

LEMMA ThrowsEffect ==
  ASSUME Types, NEW p \in Workers, Cur(p) \in Requests, NEW release \in BOOLEAN,
         NEW why \in SUBSET Reasons, Throws(p, release, why)
  PROVE  /\ \E y \in Place :
              /\ Moved(p, y)
              /\ y.step = "fail" /\ y.r = Cur(p) /\ y.release = release
         /\ window' \in [Requests -> SUBSET Reasons]
         /\ window'[Cur(p)] = window[Cur(p)] \cup why
         /\ \A s \in Requests \ {Cur(p)} : window'[s] = window[s]
<1> DEFINE y == [worker[p] EXCEPT !.step = "fail", !.release = release]
<1>1. worker[p] \in Place
  BY DEF Types
<1>2. y \in Place /\ y.step = "fail" /\ y.r = Cur(p) /\ y.release = release
  BY <1>1 DEF Place, Cur, Steps
<1>3. worker' = [worker EXCEPT ![p] = y]
  BY DEF Throws
<1>4. Moved(p, y)
  BY <1>2, <1>3, MovedTo
<1>5. /\ window' \in [Requests -> SUBSET Reasons]
      /\ window'[Cur(p)] = window[Cur(p)] \cup why
      /\ \A s \in Requests \ {Cur(p)} : window'[s] = window[s]
  BY DEF Throws, Types
<1> QED
  BY <1>2, <1>4, <1>5

\* The bound on faults.
LEMMA FaultType == Types /\ (Fault \/ UNCHANGED faults) => faults' \in 0..MaxFaults
<1> SUFFICES ASSUME Types, Fault \/ UNCHANGED faults
             PROVE  faults' \in 0..MaxFaults
  OBVIOUS
<1>1. PICK n \in Int : n = faults
  BY DEF Types
<1>2. MaxFaults \in Nat
  BY ConversionsAssumption
<1> QED
  BY <1>1, <1>2 DEF Fault, Types

\* Errors that are added say nothing against a conversion that is there.
LEMMA RowKept ==
  ASSUME NEW r, NEW c, NEW s, NEW b, NEW w, NEW j, NEW z, RowOk(r, c, s, b, w, j),
         c.status # "ABSENT"
  PROVE  RowOk(r, c, s, b, w \cup z, j)
<1>1. w # {} => w \cup z # {}
  OBVIOUS
<1> QED
  BY <1>1 DEF RowOk

\* A process goes on to y and nothing else changes.
LEMMA GoesOn ==
  ASSUME IInv, NEW p \in Workers, ~At(p, "idle"), ~At(p, "found"), NEW y \in Place, Moved(p, y),
         y.r = Cur(p), y.step \notin {"idle", "found"},
         PlaceOk(y, conv[Cur(p)], swap[Cur(p)], brought[Cur(p)], window[Cur(p)]),
         UNCHANGED <<users, conv, journal, chain, window, orphan>>, Fault \/ UNCHANGED faults
  PROVE  IInv'
<1>1. Types'
  BY FaultType DEF IInv, Types, Moved, users, chain
<1>2. Entered(journal)' /\ Covered(journal)'
  BY DEF IInv, Entered, Covered, BalanceIn
<1> QED
  BY <1>1, <1>2, AtWork, OwnStep DEF Moved, chain

\* An error is caught and nothing else changes.
LEMMA ThrowsOn ==
  ASSUME IInv, NEW p \in Workers, ~At(p, "idle"), ~At(p, "found"), NEW release \in BOOLEAN,
         NEW why \in SUBSET Reasons, Throws(p, release, why),
         conv[Cur(p)].status = "EXECUTING",
         release => swap[Cur(p)] \in {"none", "reverted"} \/ why # {},
         UNCHANGED <<users, conv, journal, chain, orphan>>, Fault \/ UNCHANGED faults
  PROVE  IInv'
<1>a. /\ Cur(p) \in Requests
      /\ RowOk(Cur(p), conv[Cur(p)], swap[Cur(p)], brought[Cur(p)], window[Cur(p)], journal)
  BY AtWork
<1>1. PICK y \in Place : Moved(p, y) /\ y.step = "fail" /\ y.r = Cur(p) /\ y.release = release
  BY <1>a, ThrowsEffect DEF IInv
<1>2. /\ window' \in [Requests -> SUBSET Reasons]
      /\ window'[Cur(p)] = window[Cur(p)] \cup why
      /\ \A s \in Requests \ {Cur(p)} : window'[s] = window[s]
  BY <1>a, ThrowsEffect DEF IInv
<1>3. Types'
  BY <1>1, <1>2, FaultType DEF IInv, Types, Moved, users, chain
<1>4. Entered(journal)' /\ Covered(journal)'
  BY DEF IInv, Entered, Covered, BalanceIn
<1>5. RowOk(Cur(p), conv[Cur(p)], swap[Cur(p)], brought[Cur(p)], window'[Cur(p)], journal)
  BY <1>a, <1>2, RowKept
<1>6. PlaceOk(y, conv[Cur(p)], swap[Cur(p)], brought[Cur(p)], window'[Cur(p)])
  BY <1>1, <1>2 DEF PlaceOk
<1> QED
  BY <1>a, <1>1, <1>2, <1>3, <1>4, <1>5, <1>6, OwnStep DEF Moved, chain

-----------------------------------------------------------------------------
(* The worker *)

LEMMA StepsType == {"start", "send", "sending", "record", "wait", "read", "settle", "fail", "defer"} \subseteq Steps
  BY DEF Steps

LEMMA ServeFromReserveInv ==
  ASSUME IInv, NEW p \in Workers, ServeFromReserve(p)
  PROVE  IInv'
<1> DEFINE y == [worker[p] EXCEPT !.step = "settle", !.gross = Terms(Cur(p)).gross]
<1>1. ~At(p, "idle") /\ ~At(p, "found")
  BY DEF ServeFromReserve, At
<1>2. Cur(p) \in Requests /\ worker[p] \in Place
  BY <1>1, AtWork
<1>3. Terms(Cur(p)).gross \in Gross /\ Terms(Cur(p)).gross \in Int
  BY <1>2, TermsType, GrossType
<1>4. y \in Place /\ y.step = "settle" /\ y.r = Cur(p) /\ y.gross \in Gross
  BY <1>2, <1>3, StepsType DEF Place, Cur
<1>5. worker' = [worker EXCEPT ![p] = y]
  BY DEF ServeFromReserve
<1>6. Moved(p, y)
  BY <1>4, <1>5, MovedTo DEF IInv
<1> HIDE DEF y
<1>7. conv[Cur(p)].status = "EXECUTING"
  BY <1>1, AtWork DEF PlaceOk, At, ServeFromReserve
<1>8. PlaceOk(y, conv[Cur(p)], swap[Cur(p)], brought[Cur(p)], window[Cur(p)])
  BY <1>4, <1>7 DEF PlaceOk, ServeFromReserve
<1> QED
  BY <1>1, <1>4, <1>6, <1>8, GoesOn DEF ServeFromReserve

LEMMA NetInflowType ==
  ASSUME Types, NEW a
  PROVE  /\ NetInflow(a) \in Int
         /\ \A r \in Requests : Inflow(r, a) \in Int
<1>1. \A r \in Requests : Inflow(r, a) \in Int
  <2> SUFFICES ASSUME NEW r \in Requests
               PROVE  Inflow(r, a) \in Int
    OBVIOUS
  <2>1. brought[r] \in Int /\ 0 - Terms(r).amount \in Int
    BY TermsType DEF Types
  <2> QED
    BY <2>1 DEF Inflow
<1> DEFINE f == [r \in Requests |-> Inflow(r, a)]
<1>2. Summable(f)
  BY <1>1, ConversionsAssumption DEF Summable
<1> HIDE DEF f
<1>3. SumOver(f) \in Int
  BY <1>2, SumType
<1> QED
  BY <1>1, <1>3 DEF NetInflow, f

LEMMA PrepareInv ==
  ASSUME IInv, NEW p \in Workers, Prepare(p)
  PROVE  IInv'
<1> DEFINE before == NetInflow(Terms(Cur(p)).to)
           y == [worker[p] EXCEPT !.step = "send", !.before = before]
<1>1. ~At(p, "idle") /\ ~At(p, "found")
  BY DEF Prepare, At
<1>2. Cur(p) \in Requests /\ worker[p] \in Place
  BY <1>1, AtWork
<1>3. before \in Int
  BY NetInflowType DEF IInv
<1>4. worker' = [worker EXCEPT ![p] = y]
  BY DEF Prepare
<1> HIDE DEF before
<1>5. y \in Place /\ y.step = "send" /\ y.r = Cur(p)
  BY <1>2, <1>3, StepsType DEF Place, Cur
<1>6. Moved(p, y)
  BY <1>4, <1>5, MovedTo DEF IInv
<1> HIDE DEF y
<1>7. conv[Cur(p)].status = "EXECUTING" /\ swap[Cur(p)] = "none"
  BY <1>1, AtWork DEF PlaceOk, At, Prepare
<1>8. PlaceOk(y, conv[Cur(p)], swap[Cur(p)], brought[Cur(p)], window[Cur(p)])
  BY <1>5, <1>7 DEF PlaceOk, Prepare
<1> QED
  BY <1>1, <1>5, <1>6, <1>8, GoesOn DEF Prepare

\* The steps that only go on.
LEMMA GoesInv ==
  ASSUME IInv, NEW p \in Workers,
         ApprovalPending(p) \/ SendReturns(p) \/ SeeMined(p) \/ StillPending(p) \/ Unanswered(p)
  PROVE  IInv'
<1>1. ~At(p, "idle") /\ ~At(p, "found")
  BY DEF ApprovalPending, SendReturns, SeeMined, StillPending, Unanswered, At
<1>2. /\ worker[p].r = Cur(p)
      /\ PlaceOk(worker[p], conv[Cur(p)], swap[Cur(p)], brought[Cur(p)], window[Cur(p)])
      /\ RowOk(Cur(p), conv[Cur(p)], swap[Cur(p)], brought[Cur(p)], window[Cur(p)], journal)
  BY <1>1, AtWork
<1>3. PICK st \in {"defer", "record", "read"} :
        /\ Goes(p, st)
        /\ \A y \in Place :
             y.step = st /\ y.r = Cur(p) =>
               PlaceOk(y, conv[Cur(p)], swap[Cur(p)], brought[Cur(p)], window[Cur(p)])
  <2>1. CASE ApprovalPending(p)
    BY <1>2, <2>1 DEF ApprovalPending, PlaceOk, At
  <2>2. CASE SendReturns(p)
    BY <1>2, <2>2 DEF SendReturns, PlaceOk, At, Seen
  <2>3. CASE SeeMined(p)
    BY <1>2, <2>3 DEF SeeMined, PlaceOk, At
  <2>4. CASE StillPending(p)
    BY <1>2, <2>4 DEF StillPending, PlaceOk, At
  <2>5. CASE Unanswered(p)
    BY <1>2, <2>5 DEF Unanswered, PlaceOk, At
  <2> QED
    BY <2>1, <2>2, <2>3, <2>4, <2>5
<1>4. PICK y \in Place : Moved(p, y) /\ y.step = st /\ y.r = Cur(p)
  BY <1>3, StepsType, GoesEffect DEF IInv
<1>5. UNCHANGED <<users, conv, journal, chain, window, orphan>> /\ (Fault \/ UNCHANGED faults)
  BY DEF ApprovalPending, SendReturns, SeeMined, StillPending, Unanswered
<1> QED
  BY <1>1, <1>3, <1>4, <1>5, GoesOn

LEMMA ResumeInv ==
  ASSUME IInv, NEW p \in Workers, Resume(p)
  PROVE  IInv'
<1> DEFINE y == [worker[p] EXCEPT !.step = "wait", !.before = conv[Cur(p)].before]
<1>1. ~At(p, "idle") /\ ~At(p, "found")
  BY DEF Resume, At
<1>2. Cur(p) \in Requests /\ worker[p] \in Place
  BY <1>1, AtWork
<1>3. conv[Cur(p)].before \in Int
  BY <1>2 DEF IInv, Types, Row
<1>4. worker' = [worker EXCEPT ![p] = y]
  BY DEF Resume
<1>5. y \in Place /\ y.step = "wait" /\ y.r = Cur(p)
  BY <1>2, <1>3, StepsType DEF Place, Cur
<1>6. Moved(p, y)
  BY <1>4, <1>5, MovedTo DEF IInv
<1> HIDE DEF y
<1>7. conv[Cur(p)].status = "EXECUTING" /\ conv[Cur(p)].hash
  BY <1>1, AtWork DEF PlaceOk, At, Resume
<1>8. ~Terms(Cur(p)).reserve
  BY <1>1, <1>7, AtWork DEF RowOk, Seen
<1>9. PlaceOk(y, conv[Cur(p)], swap[Cur(p)], brought[Cur(p)], window[Cur(p)])
  BY <1>5, <1>7, <1>8 DEF PlaceOk
<1> QED
  BY <1>1, <1>5, <1>6, <1>9, GoesOn DEF Resume

LEMMA SendInv ==
  ASSUME IInv, NEW p \in Workers, Send(p)
  PROVE  IInv'
<1>1. ~At(p, "idle") /\ ~At(p, "found")
  BY DEF Send, At
<1>2. /\ Cur(p) \in Requests
      /\ conv[Cur(p)].status = "EXECUTING" /\ swap[Cur(p)] = "none" /\ ~conv[Cur(p)].hash
      /\ ~Terms(Cur(p)).reserve
  BY <1>1, AtWork DEF PlaceOk, At, Send
<1>3. PICK y \in Place : Moved(p, y) /\ y.step = "sending" /\ y.r = Cur(p)
  BY StepsType, GoesEffect DEF IInv, Send
<1>4. /\ swap' \in [Requests -> Swaps] /\ swap'[Cur(p)] = "asked"
      /\ \A s \in Requests \ {Cur(p)} : swap'[s] = swap[s]
  BY <1>2 DEF Send, IInv, Types, Swaps
<1>5. Types'
  BY <1>3, <1>4 DEF Send, IInv, Types, Moved, users
<1>6. Entered(journal)' /\ Covered(journal)'
  BY DEF IInv, Entered, Covered, BalanceIn, Send
<1>7. RowOk(Cur(p), conv[Cur(p)], "asked", brought[Cur(p)], window[Cur(p)], journal)
  BY <1>1, <1>2, AtWork DEF RowOk
<1>8. PlaceOk(y, conv[Cur(p)], "asked", brought[Cur(p)], window[Cur(p)])
  BY <1>2, <1>3 DEF PlaceOk
<1> QED
  BY <1>1, <1>2, <1>3, <1>4, <1>5, <1>6, <1>7, <1>8, OwnStep DEF Moved, Send

LEMMA SendRefusedInv ==
  ASSUME IInv, NEW p \in Workers, SendRefused(p)
  PROVE  IInv'
<1>1. ~At(p, "idle") /\ ~At(p, "found")
  BY DEF SendRefused, At
<1>2. Cur(p) \in Requests /\ conv[Cur(p)].status = "EXECUTING" /\ ~conv[Cur(p)].hash
  BY <1>1, AtWork DEF PlaceOk, At, SendRefused
<1>3. PICK y \in Place : Moved(p, y) /\ y.step = "fail" /\ y.r = Cur(p) /\ y.release
  BY <1>2, ThrowsEffect DEF IInv, SendRefused
<1>4. /\ window' \in [Requests -> SUBSET Reasons] /\ window'[Cur(p)] = window[Cur(p)]
      /\ \A s \in Requests \ {Cur(p)} : window'[s] = window[s]
  <2>1. {} \in SUBSET Reasons /\ TRUE \in BOOLEAN /\ Throws(p, TRUE, {}) /\ Types
    BY DEF IInv, SendRefused
  <2>2. /\ window' \in [Requests -> SUBSET Reasons] /\ window'[Cur(p)] = window[Cur(p)] \cup {}
        /\ \A s \in Requests \ {Cur(p)} : window'[s] = window[s]
    BY <1>2, <2>1, ThrowsEffect
  <2> QED
    BY <2>2
<1>5. /\ swap' \in [Requests -> Swaps] /\ swap'[Cur(p)] = "none"
      /\ \A s \in Requests \ {Cur(p)} : swap'[s] = swap[s]
  BY <1>2 DEF SendRefused, IInv, Types, Swaps
<1>6. Types'
  BY <1>3, <1>4, <1>5 DEF SendRefused, IInv, Types, Moved, users
<1>7. Entered(journal)' /\ Covered(journal)'
  BY DEF IInv, Entered, Covered, BalanceIn, SendRefused
<1>8. RowOk(Cur(p), conv[Cur(p)], "none", brought[Cur(p)], window[Cur(p)], journal)
  BY <1>1, <1>2, AtWork DEF RowOk
<1>9. PlaceOk(y, conv[Cur(p)], "none", brought[Cur(p)], window[Cur(p)])
  BY <1>2, <1>3 DEF PlaceOk
<1> QED
  BY <1>1, <1>2, <1>3, <1>4, <1>5, <1>6, <1>7, <1>8, <1>9, OwnStep DEF Moved, SendRefused

LEMMA RecordHashInv ==
  ASSUME IInv, NEW p \in Workers, RecordHash(p)
  PROVE  IInv'
<1> DEFINE r == Cur(p)
           d == [conv[r] EXCEPT !.hash = TRUE, !.before = worker[p].before]
<1>1. ~At(p, "idle") /\ ~At(p, "found")
  BY DEF RecordHash, At
<1>2. /\ r \in Requests /\ conv[r].status = "EXECUTING" /\ swap[r] \in Seen /\ ~Terms(r).reserve
      /\ worker[p] \in Place
  BY <1>1, AtWork DEF PlaceOk, At, RecordHash
<1>3. PICK y \in Place : Moved(p, y) /\ y.step = "wait" /\ y.r = r
  BY StepsType, GoesEffect DEF IInv, RecordHash
<1>4. conv[r] \in Row
  BY <1>2 DEF IInv, Types
<1>5. d \in Row /\ d.status = "EXECUTING" /\ d.hash
  BY <1>2, <1>4 DEF Row, Place
<1>6. conv' = [conv EXCEPT ![r] = d]
  BY DEF RecordHash
<1> HIDE DEF d
<1>7. /\ conv' \in [Requests -> Row] /\ conv'[r] = d
      /\ \A s \in Requests \ {r} : conv'[s] = conv[s]
  BY <1>2, <1>5, <1>6 DEF IInv, Types
<1>8. Types'
  BY <1>3, <1>7 DEF RecordHash, IInv, Types, Moved, users, chain
<1>9. Entered(journal)' /\ Covered(journal)'
  BY DEF IInv, Entered, Covered, BalanceIn, RecordHash
<1>10. RowOk(r, d, swap[r], brought[r], window[r], journal)
  BY <1>1, <1>2, <1>5, AtWork DEF RowOk
<1>11. PlaceOk(y, d, swap[r], brought[r], window[r])
  BY <1>2, <1>3, <1>5 DEF PlaceOk
<1> QED
  BY <1>1, <1>2, <1>3, <1>5, <1>7, <1>8, <1>9, <1>10, <1>11, OwnStep DEF Moved, RecordHash, chain

LEMMA ReadOutputInv ==
  ASSUME IInv, NEW p \in Workers, ReadOutput(p)
  PROVE  IInv'
<1> DEFINE gross == Measured(Cur(p), worker[p].before)
           y == [worker[p] EXCEPT !.step = "settle", !.gross = gross]
<1>1. ~At(p, "idle") /\ ~At(p, "found")
  BY DEF ReadOutput, At
<1>2. /\ Cur(p) \in Requests /\ worker[p] \in Place
      /\ conv[Cur(p)].status = "EXECUTING" /\ swap[Cur(p)] = "mined"
  BY <1>1, AtWork DEF PlaceOk, At, ReadOutput
<1>3. CASE Reconciled(Cur(p), gross)
  <2>1. gross \in Int
    <3>1. NetInflow(Terms(Cur(p)).to) \in Int /\ worker[p].before \in Int /\ brought[Cur(p)] \in Int
      BY <1>2, NetInflowType DEF IInv, Types, Place
    <3> QED
      BY <3>1 DEF Measured
  <2>2. gross \in Gross
    BY <1>3, <2>1, GrossType DEF Reconciled
  <2>3. Terms(Cur(p)).to \notin Native => gross = brought[Cur(p)]
    BY DEF Measured
  <2>4. worker' = [worker EXCEPT ![p] = y] /\ UNCHANGED window
    BY <1>3 DEF ReadOutput
  <2> HIDE DEF gross
  <2>5. y \in Place /\ y.step = "settle" /\ y.r = Cur(p) /\ y.gross = gross
    BY <1>2, <2>1, StepsType DEF Place, Cur
  <2>6. Moved(p, y)
    BY <2>4, <2>5, MovedTo DEF IInv
  <2> HIDE DEF y
  <2>7. PlaceOk(y, conv[Cur(p)], swap[Cur(p)], brought[Cur(p)], window[Cur(p)])
    BY <1>2, <2>2, <2>3, <2>5 DEF PlaceOk
  <2> QED
    BY <1>1, <2>4, <2>5, <2>6, <2>7, GoesOn DEF ReadOutput
<1>4. CASE ~Reconciled(Cur(p), gross)
  <2>1. Throws(p, FALSE, {})
    BY <1>4 DEF ReadOutput
  <2> QED
    BY <1>1, <1>2, <2>1, ThrowsOn DEF ReadOutput
<1> QED
  BY <1>3, <1>4

\* The steps that only throw.
LEMMA ThrowsInv ==
  ASSUME IInv, NEW p \in Workers,
         \/ Unprepared(p) \/ ResumeThrows(p) \/ SendThrows(p) \/ RecordThrows(p)
         \/ UnexpectedSender(p) \/ SeeReverted(p) \/ ReadThrows(p) \/ SettleThrows(p)
  PROVE  IInv'
<1>1. ~At(p, "idle") /\ ~At(p, "found") /\ ~At(p, "fail")
  BY DEF Unprepared, ResumeThrows, SendThrows, RecordThrows, UnexpectedSender, SeeReverted,
         ReadThrows, SettleThrows, At
<1>2. /\ worker[p].r = Cur(p)
      /\ PlaceOk(worker[p], conv[Cur(p)], swap[Cur(p)], brought[Cur(p)], window[Cur(p)])
      /\ RowOk(Cur(p), conv[Cur(p)], swap[Cur(p)], brought[Cur(p)], window[Cur(p)], journal)
  BY <1>1, AtWork
<1>3. conv[Cur(p)].status = "EXECUTING"
  BY <1>1, <1>2 DEF PlaceOk, At
<1>4. PICK release \in BOOLEAN, why \in SUBSET Reasons :
        /\ Throws(p, release, why)
        /\ release => swap[Cur(p)] \in {"none", "reverted"} \/ why # {}
  <2>1. CASE Unprepared(p)
    BY <1>2, <2>1 DEF Unprepared, PlaceOk, At
  <2>2. CASE ResumeThrows(p)
    BY <2>2 DEF ResumeThrows, Reasons
  <2>3. CASE SendThrows(p)
    BY <2>3 DEF SendThrows, Reasons
  <2>4. CASE RecordThrows(p)
    BY <2>4 DEF RecordThrows, Reasons
  <2>5. CASE UnexpectedSender(p)
    BY <2>5 DEF UnexpectedSender
  <2>6. CASE SeeReverted(p)
    BY <2>6 DEF SeeReverted
  <2>7. CASE ReadThrows(p)
    BY <2>7 DEF ReadThrows, Reasons
  <2>8. CASE SettleThrows(p)
    BY <1>2, <2>8 DEF SettleThrows, Reasons, RowOk
  <2> QED
    BY <2>1, <2>2, <2>3, <2>4, <2>5, <2>6, <2>7, <2>8
<1>5. UNCHANGED <<users, conv, journal, chain, orphan>> /\ (Fault \/ UNCHANGED faults)
  BY DEF Unprepared, ResumeThrows, SendThrows, RecordThrows, UnexpectedSender, SeeReverted,
         ReadThrows, SettleThrows
<1> QED
  BY <1>1, <1>3, <1>4, <1>5, ThrowsOn

\* The transaction of settleConversion, whatever becomes of the process.
LEMMA SettleEffect ==
  ASSUME IInv, NEW p \in Workers, At(p, "settle"), SettleConversion(Cur(p), worker[p].gross)
  PROVE  /\ conv' \in [Requests -> Row] /\ conv'[Cur(p)].status = "FILLED"
         /\ conv'[Cur(p)].at = conv[Cur(p)].at
         /\ \A s \in Requests \ {Cur(p)} :
              /\ conv'[s] = conv[s]
              /\ \A op \in Ops : journal'[<<op, s>>] = journal[<<op, s>>]
         /\ Entered(journal)' /\ Covered(journal)'
         /\ RowOk(Cur(p), conv'[Cur(p)], swap[Cur(p)], brought[Cur(p)], window[Cur(p)], journal')
         /\ journal'[<<"trade", Cur(p)>>] = TradeEntries(Cur(p), worker[p].gross)
<1> DEFINE r == Cur(p)
           g == worker[p].gross
           d == [conv[r] EXCEPT !.status = "FILLED"]
<1>1. ~At(p, "idle") /\ ~At(p, "found")
  BY DEF At
<1>2. /\ r \in Requests /\ conv[r].status = "EXECUTING" /\ g \in Gross
      /\ ~Terms(r).reserve => swap[r] = "mined" /\ (Terms(r).to \notin Native => g = brought[r])
  BY <1>1, AtWork DEF PlaceOk, At
<1>3. RowOk(r, conv[r], swap[r], brought[r], window[r], journal)
  BY <1>1, AtWork
<1>4. /\ journal' = Record(journal, <<"trade", r>>, TradeEntries(r, g))
      /\ conv' = [conv EXCEPT ![r] = d]
  BY <1>2 DEF SettleConversion
<1>5. conv[r] \in Row /\ conv \in [Requests -> Row]
  BY <1>2 DEF IInv, Types
<1>6. d \in Row /\ d.status = "FILLED" /\ d.hash = conv[r].hash /\ d.at = conv[r].at
  BY <1>5 DEF Row, Status
<1> HIDE DEF d
<1>7. /\ conv' \in [Requests -> Row] /\ conv'[r] = d
      /\ \A s \in Requests \ {r} : conv'[s] = conv[s]
  BY <1>2, <1>4, <1>5, <1>6
<1>8. "trade" \in Ops /\ MayPost("trade", r, TradeEntries(r, g)) /\ Entered(journal) /\ Covered(journal)
  BY <1>2 DEF Ops, MayPost, IInv
<1>9. journal[<<"trade", r>>] = <<>>
  BY <1>2, <1>3 DEF RowOk
<1>10. /\ Entered(journal') /\ journal'[<<"trade", r>>] # <<>>
       /\ journal'[<<"trade", r>>] = TradeEntries(r, g)
       /\ \A o \in Ops, s \in Requests : o # "trade" \/ s # r => journal'[<<o, s>>] = journal[<<o, s>>]
  BY <1>2, <1>4, <1>8, <1>9, RecordKeys
<1>11. Covered(journal')
  <2>1. Covered(Record(journal, <<"trade", r>>, TradeEntries(r, g)))
    BY <1>2, <1>8, RecordCovered
  <2> QED
    BY <1>4, <2>1
<1>12. Entered(journal)' /\ Covered(journal)'
  BY <1>10, <1>11 DEF Entered, Covered, BalanceIn
<1>13. /\ journal'[<<"reserve", r>>] = journal[<<"reserve", r>>]
       /\ journal'[<<"release", r>>] = journal[<<"release", r>>]
  BY <1>2, <1>10 DEF Ops
<1>14. RowOk(r, d, swap[r], brought[r], window[r], journal')
  BY <1>2, <1>3, <1>6, <1>10, <1>13 DEF RowOk
<1> QED
  BY <1>6, <1>7, <1>10, <1>12, <1>14

LEMMA SettleInv ==
  ASSUME IInv, NEW p \in Workers, Settle(p)
  PROVE  IInv'
<1>1. ~At(p, "idle") /\ ~At(p, "found") /\ At(p, "settle")
  BY DEF Settle, At
<1>2. Cur(p) \in Requests
  BY <1>1, AtWork
<1>3. Moved(p, Idle)
  BY EndsEffect DEF IInv, Settle
<1>4. /\ conv' \in [Requests -> Row] /\ conv'[Cur(p)].status = "FILLED"
      /\ \A s \in Requests \ {Cur(p)} :
           /\ conv'[s] = conv[s]
           /\ \A op \in Ops : journal'[<<op, s>>] = journal[<<op, s>>]
      /\ Entered(journal)' /\ Covered(journal)'
      /\ RowOk(Cur(p), conv'[Cur(p)], swap[Cur(p)], brought[Cur(p)], window[Cur(p)], journal')
  BY <1>1, SettleEffect DEF Settle
<1>5. Types'
  BY <1>3, <1>4 DEF Settle, IInv, Types, Moved, users, chain
<1> QED
  BY <1>1, <1>2, <1>3, <1>4, <1>5, OwnStep DEF Moved, Settle, chain

LEMMA SettleReplyLostInv ==
  ASSUME IInv, NEW p \in Workers, SettleReplyLost(p)
  PROVE  IInv'
<1>1. ~At(p, "idle") /\ ~At(p, "found") /\ At(p, "settle")
  BY DEF SettleReplyLost, At
<1>2. Cur(p) \in Requests
  BY <1>1, AtWork
<1>3. PICK y \in Place : Moved(p, y) /\ y.step = "fail" /\ y.r = Cur(p) /\ y.release
  BY <1>2, ThrowsEffect DEF IInv, SettleReplyLost
<1>4. /\ window' \in [Requests -> SUBSET Reasons] /\ window'[Cur(p)] = window[Cur(p)]
      /\ \A s \in Requests \ {Cur(p)} : window'[s] = window[s]
  <2>1. {} \in SUBSET Reasons /\ TRUE \in BOOLEAN /\ Throws(p, TRUE, {}) /\ Types
    BY DEF IInv, SettleReplyLost
  <2>2. /\ window' \in [Requests -> SUBSET Reasons] /\ window'[Cur(p)] = window[Cur(p)] \cup {}
        /\ \A s \in Requests \ {Cur(p)} : window'[s] = window[s]
    BY <1>2, <2>1, ThrowsEffect
  <2> QED
    BY <2>2
<1>5. /\ conv' \in [Requests -> Row] /\ conv'[Cur(p)].status = "FILLED"
      /\ \A s \in Requests \ {Cur(p)} :
           /\ conv'[s] = conv[s]
           /\ \A op \in Ops : journal'[<<op, s>>] = journal[<<op, s>>]
      /\ Entered(journal)' /\ Covered(journal)'
      /\ RowOk(Cur(p), conv'[Cur(p)], swap[Cur(p)], brought[Cur(p)], window[Cur(p)], journal')
  BY <1>1, SettleEffect DEF SettleReplyLost
<1>6. Types'
  BY <1>3, <1>4, <1>5, FaultType DEF SettleReplyLost, IInv, Types, Moved, users, chain
<1>7. PlaceOk(y, conv'[Cur(p)], swap[Cur(p)], brought[Cur(p)], window[Cur(p)])
  BY <1>3, <1>5 DEF PlaceOk
<1> QED
  BY <1>1, <1>2, <1>3, <1>4, <1>5, <1>6, <1>7, OwnStep DEF Moved, SettleReplyLost, chain

LEMMA FailConversionInv ==
  ASSUME IInv, NEW p \in Workers, FailConversion(p)
  PROVE  IInv'
<1> DEFINE r == Cur(p)
           d == [conv[r] EXCEPT !.status = "FAILED"]
<1>1. ~At(p, "idle") /\ ~At(p, "found")
  BY DEF FailConversion, At
<1>2. /\ r \in Requests
      /\ \/ conv[r].status = "FILLED"
         \/ /\ conv[r].status = "EXECUTING"
            /\ worker[p].release => swap[r] \in {"none", "reverted"} \/ window[r] # {}
      /\ RowOk(r, conv[r], swap[r], brought[r], window[r], journal)
  BY <1>1, AtWork DEF PlaceOk, At, FailConversion
<1>3. Moved(p, Idle)
  BY EndsEffect DEF IInv, FailConversion
<1>4. CASE Closed(r)
  <2>1. UNCHANGED <<conv, journal>> /\ conv[r].status = "FILLED"
    BY <1>4 DEF FailConversion, Closed
  <2>2. Types'
    BY <1>3, <2>1 DEF FailConversion, IInv, Types, Moved, users, chain
  <2>3. Entered(journal)' /\ Covered(journal)'
    BY <2>1 DEF IInv, Entered, Covered, BalanceIn
  <2> QED
    BY <1>1, <1>2, <1>3, <2>1, <2>2, <2>3, OwnStep DEF Moved, FailConversion, chain
<1>5. CASE ~Closed(r)
  <2>1. /\ conv[r].status = "EXECUTING"
        /\ worker[p].release => swap[r] \in {"none", "reverted"} \/ window[r] # {}
    BY <1>2, <1>5 DEF Closed
  <2>2. /\ journal' = IF worker[p].release THEN Record(journal, <<"release", r>>, ReleaseEntries(r))
                      ELSE journal
        /\ conv' = [conv EXCEPT ![r] = d]
    BY <1>5 DEF FailConversion
  <2>3. conv[r] \in Row /\ conv \in [Requests -> Row]
    BY <1>2 DEF IInv, Types
  <2>4. d \in Row /\ d.status = "FAILED" /\ d.hash = conv[r].hash
    BY <2>3 DEF Row, Status
  <2> HIDE DEF d
  <2>5. /\ conv' \in [Requests -> Row] /\ conv'[r] = d
        /\ \A s \in Requests \ {r} : conv'[s] = conv[s]
    BY <1>2, <2>2, <2>3, <2>4
  <2>6. "release" \in Ops /\ MayPost("release", r, ReleaseEntries(r)) /\ Entered(journal) /\ Covered(journal)
    BY DEF Ops, MayPost, IInv
  <2>7. /\ Entered(journal')
        /\ \A o \in Ops, s \in Requests : o # "release" \/ s # r => journal'[<<o, s>>] = journal[<<o, s>>]
        /\ ~worker[p].release => journal' = journal
    BY <1>2, <2>2, <2>6, RecordKeys
  <2>8. Covered(journal')
    <3>1. Covered(Record(journal, <<"release", r>>, ReleaseEntries(r)))
      BY <1>2, <2>6, RecordCovered
    <3> QED
      BY <2>2, <2>6, <3>1
  <2>9. Entered(journal)' /\ Covered(journal)'
    BY <2>7, <2>8 DEF Entered, Covered, BalanceIn
  <2>10. Types'
    BY <1>3, <2>5 DEF FailConversion, IInv, Types, Moved, users, chain
  <2>11. /\ journal'[<<"reserve", r>>] = journal[<<"reserve", r>>]
         /\ journal'[<<"trade", r>>] = journal[<<"trade", r>>]
    BY <1>2, <2>7 DEF Ops
  <2>12. journal'[<<"release", r>>] # <<>> => swap[r] \in {"none", "reverted"} \/ window[r] # {}
    BY <1>2, <2>1, <2>7 DEF RowOk
  <2>13. RowOk(r, d, swap[r], brought[r], window[r], journal')
    BY <1>2, <2>1, <2>4, <2>11, <2>12 DEF RowOk
  <2> QED
    BY <1>1, <1>2, <1>3, <2>4, <2>5, <2>7, <2>9, <2>10, <2>13, OwnStep DEF Moved, FailConversion, chain
<1> QED
  BY <1>4, <1>5

LEMMA DeferInv ==
  ASSUME IInv, NEW p \in Workers, Defer(p)
  PROVE  IInv'
<1> DEFINE r == Cur(p)
           d == [conv[r] EXCEPT !.status = "PENDING"]
<1>1. ~At(p, "idle") /\ ~At(p, "found")
  BY DEF Defer, At
<1>2. /\ r \in Requests /\ conv[r].status = "EXECUTING" /\ (conv[r].hash \/ swap[r] = "none")
      /\ RowOk(r, conv[r], swap[r], brought[r], window[r], journal)
  BY <1>1, AtWork DEF PlaceOk, At, Defer
<1>3. Moved(p, Idle)
  BY EndsEffect DEF IInv, Defer
<1>4. conv[r] \in Row /\ conv \in [Requests -> Row]
  BY <1>2 DEF IInv, Types
<1>5. d \in Row /\ d.status = "PENDING" /\ d.hash = conv[r].hash
  BY <1>4 DEF Row, Status
<1>6. conv' = [conv EXCEPT ![r] = d]
  BY DEF Defer
<1> HIDE DEF d
<1>7. /\ conv' \in [Requests -> Row] /\ conv'[r] = d
      /\ \A s \in Requests \ {r} : conv'[s] = conv[s]
  BY <1>2, <1>4, <1>5, <1>6
<1>8. Types'
  BY <1>3, <1>7 DEF Defer, IInv, Types, Moved, users, chain
<1>9. Entered(journal)' /\ Covered(journal)'
  BY DEF IInv, Entered, Covered, BalanceIn, Defer
<1>10. RowOk(r, d, swap[r], brought[r], window[r], journal)
  BY <1>2, <1>5 DEF RowOk
<1> QED
  BY <1>1, <1>2, <1>3, <1>5, <1>7, <1>8, <1>9, <1>10, OwnStep DEF Moved, Defer, chain

LEMMA ClaimedInv ==
  ASSUME IInv, NEW p \in Workers, Claim(p), Claimable(Cur(p))
  PROVE  IInv'
<1> DEFINE r == Cur(p)
           d == [conv[r] EXCEPT !.status = "EXECUTING"]
<1>1. ~At(p, "idle") /\ conv[r].status = "PENDING"
  BY DEF Claim, At, Claimable
<1>2. r \in Requests /\ RowOk(r, conv[r], swap[r], brought[r], window[r], journal)
  BY <1>1, AtWork
<1>3. PICK y \in Place : Moved(p, y) /\ y.step = "start" /\ y.r = r
  BY StepsType, GoesEffect DEF IInv, Claim
<1>4. conv[r] \in Row /\ conv \in [Requests -> Row]
  BY <1>2 DEF IInv, Types
<1>5. d \in Row /\ d.status = "EXECUTING" /\ d.hash = conv[r].hash
  BY <1>4 DEF Row, Status
<1>6. conv' = [conv EXCEPT ![r] = d]
  BY DEF Claim
<1> HIDE DEF d
<1>7. /\ conv' \in [Requests -> Row] /\ conv'[r] = d
      /\ \A s \in Requests \ {r} : conv'[s] = conv[s]
  BY <1>2, <1>4, <1>5, <1>6
<1>8. Types'
  BY <1>3, <1>7 DEF Claim, IInv, Types, Moved, users, chain
<1>9. Entered(journal)' /\ Covered(journal)'
  BY DEF IInv, Entered, Covered, BalanceIn, Claim
<1>10. RowOk(r, d, swap[r], brought[r], window[r], journal)
  BY <1>1, <1>2, <1>5 DEF RowOk
<1>11. PlaceOk(y, d, swap[r], brought[r], window[r])
  BY <1>1, <1>2, <1>3, <1>5 DEF PlaceOk, RowOk
<1> QED
  BY <1>1, <1>2, <1>3, <1>5, <1>7, <1>8, <1>9, <1>10, <1>11, OwnStep DEF Moved, Claim, chain

\* A process that has no conversion before the step and none after it.
LEMMA Unheld ==
  ASSUME IInv, NEW p \in Workers, At(p, "idle") \/ At(p, "found"), NEW y \in Place, Moved(p, y),
         y = Idle \/ (y.step = "found" /\ y.r \in Rows),
         UNCHANGED <<users, conv, journal, chain, window, orphan>>, Fault \/ UNCHANGED faults
  PROVE  IInv'
<1>1. Types'
  BY FaultType DEF IInv, Types, Moved, users, chain
<1>2. Entered(journal)' /\ Covered(journal)'
  BY DEF IInv, Entered, Covered, BalanceIn
<1>3. RowsOk'
  <2> SUFFICES ASSUME NEW s \in Requests
               PROVE  RowOk(s, conv'[s], swap'[s], brought'[s], window'[s], journal')
    BY DEF RowsOk
  <2>1. RowOk(s, conv[s], swap[s], brought[s], window[s], journal)
    BY DEF IInv, RowsOk
  <2> QED
    BY <2>1 DEF chain
<1>4. PlacesOk'
  <2> SUFFICES ASSUME NEW q \in Workers, worker'[q] # Idle
               PROVE  /\ worker'[q].r \in Requests
                      /\ PlaceOk(worker'[q], conv'[worker'[q].r], swap'[worker'[q].r],
                                 brought'[worker'[q].r], window'[worker'[q].r])
    BY DEF PlacesOk, Cur
  <2>1. CASE q = p
    <3>1. worker'[q] = y /\ y.step = "found" /\ y.r \in Requests /\ conv'[y.r].status # "ABSENT"
      BY <2>1 DEF Moved, Rows
    <3> QED
      BY <3>1 DEF PlaceOk
  <2>2. CASE q # p
    <3>1. worker'[q] = worker[q] /\ worker[q] # Idle
      BY <2>2 DEF Moved
    <3>2. /\ Cur(q) \in Requests
          /\ PlaceOk(worker[q], conv[Cur(q)], swap[Cur(q)], brought[Cur(q)], window[Cur(q)])
      BY <3>1 DEF IInv, PlacesOk
    <3> QED
      BY <3>1, <3>2 DEF Cur, chain
  <2> QED
    BY <2>1, <2>2
<1>5. \A s \in Requests : ~Busy(p, s) /\ ~Busy(p, s)'
  <2>1. worker[p] = Idle \/ At(p, "found")
    BY AtWork DEF IInv, PlacesOk, PlaceOk, At
  <2>2. worker'[p] = y /\ (worker'[p] = Idle \/ worker'[p].step = "found")
    BY DEF Moved
  <2> QED
    BY <2>1, <2>2, TermsType DEF Busy, Cur, At, Idle
<1>6. \A q \in Workers \ {p}, s \in Requests : Busy(q, s)' <=> Busy(q, s)
  BY DEF Busy, Cur, At, Moved
<1>7. Unique'
  BY <1>5, <1>6 DEF IInv, Unique
<1>8. Attended'
  <2> SUFFICES ASSUME NEW s \in Requests, conv[s].status = "EXECUTING", s \notin orphan
               PROVE  \E q \in Workers : Busy(q, s)'
    BY DEF Attended
  <2>1. PICK q \in Workers : Busy(q, s)
    BY DEF IInv, Attended
  <2> QED
    BY <1>5, <1>6, <2>1
<1>9. OneConversion'
  <2>1. Rows' = Rows
    BY DEF Rows
  <2> QED
    BY <2>1 DEF IInv, OneConversion, SameClient
<1> QED
  BY <1>1, <1>2, <1>3, <1>4, <1>7, <1>8, <1>9 DEF IInv

LEMMA OldestFound ==
  ASSUME Types, Pending # {}
  PROVE  OldestPending \in Pending /\ \A s \in Pending : conv[OldestPending].at <= conv[s].at
<1> DEFINE N == {conv[s].at : s \in Pending}
<1>1. N \in SUBSET Nat /\ N # {}
  <2>1. \A s \in Pending : conv[s].at \in Nat
    BY DEF Pending, Types, Row
  <2> QED
    BY <2>1
<1>2. PICK n \in N : \A m \in N : n <= m
  BY <1>1, LeastNumber
<1>3. \E r \in Pending : \A s \in Pending : conv[r].at <= conv[s].at
  BY <1>2
<1> QED
  BY <1>3 DEF OldestPending

LEMMA FindInv ==
  ASSUME IInv, NEW p \in Workers, Find(p)
  PROVE  IInv'
<1> DEFINE o == OldestPending
           y == [Idle EXCEPT !.step = "found", !.r = o]
<1>1. Pending # {} /\ Types
  BY DEF Find, IInv
<1>2. OldestPending \in Pending
  BY <1>1, OldestFound
<1>3. OldestPending \in Rows /\ OldestPending \in Requests
  BY <1>2 DEF Pending, Rows
<1>4. worker' = [worker EXCEPT ![p] = y]
  BY DEF Find
<1> HIDE DEF o
<1>5. y \in Place /\ y.step = "found" /\ y.r \in Rows
  <2>1. Idle \in Place /\ "found" \in Steps
    BY DEF Idle, Place, Steps
  <2>2. o \in Rows /\ o \in Requests
    BY <1>3 DEF o
  <2> QED
    BY <2>1, <2>2 DEF Place
<1> HIDE DEF y
<1>6. Moved(p, y)
  BY <1>4, <1>5, MovedTo DEF IInv
<1> QED
  BY <1>5, <1>6, Unheld DEF Find

LEMMA ClaimInv ==
  ASSUME IInv, NEW p \in Workers, Claim(p)
  PROVE  IInv'
<1>1. CASE ~Claimable(Cur(p))
  <2>1. Ends(p) /\ UNCHANGED conv
    BY <1>1 DEF Claim
  <2>2. Moved(p, Idle)
    BY <2>1, EndsEffect DEF IInv
  <2>3. Idle \in Place
    BY DEF Idle, Place, Steps
  <2> QED
    BY <2>1, <2>2, <2>3, Unheld DEF Claim
<1> QED
  BY <1>1, ClaimedInv

LEMMA AbandonInv ==
  ASSUME IInv, NEW p \in Workers, Abandon(p)
  PROVE  IInv'
<1>0. Idle \in Place
  BY DEF Idle, Place, Steps
<1>1. Moved(p, Idle)
  BY EndsEffect DEF IInv, Abandon
<1>2. CASE At(p, "found")
  <2>1. UNCHANGED orphan
    BY <1>2 DEF Abandon
  <2> QED
    BY <1>0, <1>1, <1>2, <2>1, Unheld DEF Abandon
<1>3. CASE ~At(p, "found")
  <2>1. /\ Cur(p) \in Requests /\ conv[Cur(p)].status # "ABSENT"
        /\ RowOk(Cur(p), conv[Cur(p)], swap[Cur(p)], brought[Cur(p)], window[Cur(p)], journal)
    BY AtWork DEF Abandon
  <2>2. /\ orphan \subseteq orphan' /\ orphan' \subseteq Requests
        /\ conv[Cur(p)].status = "EXECUTING" => Cur(p) \in orphan'
    BY <1>3, <2>1 DEF Abandon, IInv, Types
  <2>3. Types'
    BY <1>1, <2>2, FaultType DEF Abandon, IInv, Types, Moved, users, chain
  <2>4. Entered(journal)' /\ Covered(journal)'
    BY DEF IInv, Entered, Covered, BalanceIn, Abandon
  <2> QED
    BY <1>1, <1>3, <2>1, <2>2, <2>3, <2>4, OwnStep DEF Moved, Abandon, chain
<1> QED
  BY <1>2, <1>3

-----------------------------------------------------------------------------
(* The endpoints and the chain *)

LEMMA RequestsInv ==
  ASSUME IInv, \/ \E q \in Quotes : CreateQuote(q) \/ Expire(q)
               \/ \E r \in Requests : LookUp(r) \/ Refuse(r)
  PROVE  IInv'
<1>1. UNCHANGED <<conv, journal, worker, swap, brought, window, orphan, faults>>
  BY DEF CreateQuote, Expire, LookUp, Refuse, chain
<1>2. /\ quote' \in [Quotes -> {"ABSENT", "ACTIVE", "CONSUMED"}]
      /\ expired' \subseteq Quotes /\ calls' \subseteq Requests
  BY DEF CreateQuote, Expire, LookUp, Refuse, IInv, Types
<1>3. Types'
  BY <1>1, <1>2 DEF IInv, Types
<1> QED
  BY <1>1, <1>3
     DEF IInv, Entered, Covered, BalanceIn, RowsOk, PlacesOk, Unique, Attended, OneConversion,
         Rows, SameClient, Busy, Cur, At

LEMMA ExecuteInv ==
  ASSUME IInv, NEW r \in Requests, Execute(r)
  PROVE  IInv'
<1> DEFINE n == Cardinality(Rows) + 1
           d == [Absent EXCEPT !.status = "PENDING", !.at = n]
<1>1. r \notin Rows /\ conv[r].status = "ABSENT"
  BY DEF Execute, Insertable, Rows, IInv, OneConversion
<1>2. n \in Nat
  <2>1. IsFiniteSet(Rows)
    <3>1. Rows \subseteq Requests /\ IsFiniteSet(Requests)
      BY ConversionsAssumption DEF Rows
    <3> QED
      BY <3>1, FS_Subset
  <2> QED
    BY <2>1, FS_CardinalityType
<1>3. conv' = [conv EXCEPT ![r] = d] /\ conv \in [Requests -> Row]
  BY DEF Execute, IInv, Types
<1> HIDE DEF n
<1>4. d \in Row /\ d.status = "PENDING" /\ ~d.hash
  <2>1. Absent \in Row /\ ~Absent.hash /\ "PENDING" \in Status
    BY DEF Absent, Row, Status
  <2> QED
    BY <1>2, <2>1 DEF Row
<1> HIDE DEF d
<1>5. /\ conv' \in [Requests -> Row] /\ conv'[r] = d
      /\ \A s \in Requests \ {r} : conv'[s] = conv[s]
  BY <1>3, <1>4
<1>6. RowOk(r, conv[r], swap[r], brought[r], window[r], journal)
  BY DEF IInv, RowsOk
<1>7. "reserve" \in Ops /\ MayPost("reserve", r, ReserveEntries(r)) /\ Entered(journal) /\ Covered(journal)
  BY DEF Ops, MayPost, IInv
<1>8. journal' = Record(journal, <<"reserve", r>>, ReserveEntries(r))
  BY DEF Execute
<1>9. /\ Entered(journal') /\ journal'[<<"reserve", r>>] # <<>>
      /\ \A o \in Ops, s \in Requests : o # "reserve" \/ s # r => journal'[<<o, s>>] = journal[<<o, s>>]
  BY <1>7, <1>8, RecordKeys
<1>10. Covered(journal')
  <2>1. BalanceIn(journal, Terms(r).user, Terms(r).from) >= Terms(r).amount
    BY DEF Execute, Affordable, SpotBalance, BalanceIn
  <2>2. Covered(Record(journal, <<"reserve", r>>, ReserveEntries(r)))
    BY <1>7, <2>1, RecordCovered
  <2> QED
    BY <1>8, <2>2
<1>11. Entered(journal)' /\ Covered(journal)'
  BY <1>9, <1>10 DEF Entered, Covered, BalanceIn
<1>12. Types'
  <2>1. quote' \in [Quotes -> {"ABSENT", "ACTIVE", "CONSUMED"}] /\ calls' \subseteq Requests
    BY DEF Execute, IInv, Types
  <2> QED
    BY <1>5, <2>1 DEF Execute, IInv, Types, chain
<1>13. RowsOk'
  <2> SUFFICES ASSUME NEW s \in Requests
               PROVE  RowOk(s, conv'[s], swap[s], brought[s], window[s], journal')
    BY DEF RowsOk, Execute, chain
  <2>1. CASE s = r
    <3>1. /\ journal'[<<"trade", r>>] = <<>> /\ journal'[<<"release", r>>] = <<>> /\ swap[r] = "none"
      BY <1>1, <1>6, <1>9 DEF RowOk, Ops
    <3> QED
      BY <1>4, <1>5, <1>9, <2>1, <3>1 DEF RowOk
  <2>2. CASE s # r
    <3>1. RowOk(s, conv[s], swap[s], brought[s], window[s], journal)
      BY DEF IInv, RowsOk
    <3>2. conv'[s] = conv[s] /\ \A op \in Ops : journal'[<<op, s>>] = journal[<<op, s>>]
      BY <1>5, <1>9, <2>2
    <3> QED
      BY <3>1, <3>2 DEF RowOk, Ops
  <2> QED
    BY <2>1, <2>2
<1>14. \A p \in Workers : worker[p] # Idle => Cur(p) \in Requests \ {r}
  BY <1>1, AtWork DEF IInv, PlacesOk, PlaceOk
<1>15. PlacesOk'
  <2> SUFFICES ASSUME NEW p \in Workers, worker[p] # Idle
               PROVE  /\ Cur(p) \in Requests
                      /\ PlaceOk(worker[p], conv'[Cur(p)], swap[Cur(p)], brought[Cur(p)], window[Cur(p)])
    BY DEF PlacesOk, Cur, Execute, chain
  <2>1. /\ Cur(p) \in Requests
        /\ PlaceOk(worker[p], conv[Cur(p)], swap[Cur(p)], brought[Cur(p)], window[Cur(p)])
    BY DEF IInv, PlacesOk
  <2>2. conv'[Cur(p)] = conv[Cur(p)]
    BY <1>5, <1>14
  <2> QED
    BY <2>1, <2>2
<1>16. Unique' /\ Attended'
  <2>1. \A p \in Workers, s \in Requests : Busy(p, s)' <=> Busy(p, s)
    BY DEF Busy, Cur, At, Execute
  <2>2. \A s \in Requests : conv'[s].status = "EXECUTING" => conv[s].status = "EXECUTING"
    BY <1>4, <1>5
  <2>3. orphan' = orphan
    BY DEF Execute
  <2>4. Unique'
    BY <2>1 DEF IInv, Unique
  <2>5. Attended'
    <3> SUFFICES ASSUME NEW s \in Requests, conv'[s].status = "EXECUTING", s \notin orphan'
                 PROVE  \E q \in Workers : Busy(q, s)'
      BY DEF Attended
    <3>1. PICK q \in Workers : Busy(q, s)
      BY <2>2, <2>3 DEF IInv, Attended
    <3> QED
      BY <2>1, <3>1
  <2> QED
    BY <2>4, <2>5
<1>17. OneConversion'
  <2>1. Rows' = Rows \cup {r}
    BY <1>4, <1>5 DEF Rows
  <2>2. \A s \in Rows : ~SameClient(r, s) /\ ~SameClient(s, r) /\ QuoteOf[s] # QuoteOf[r]
    BY DEF Execute, Insertable, SameClient
  <2> QED
    BY <2>1, <2>2 DEF IInv, OneConversion, SameClient
<1> QED
  BY <1>11, <1>12, <1>13, <1>15, <1>16, <1>17 DEF IInv

LEMMA ChainInv ==
  ASSUME IInv, Chain
  PROVE  IInv'
<1>1. PICK r \in Requests :
        /\ \/ swap[r] = "asked" /\ swap' = [swap EXCEPT ![r] = "accepted"] /\ UNCHANGED brought
           \/ swap[r] = "accepted" /\ swap' = [swap EXCEPT ![r] = "reverted"] /\ UNCHANGED brought
           \/ /\ swap[r] = "accepted" /\ swap' = [swap EXCEPT ![r] = "mined"]
              /\ \E n \in Outputs : brought' = [brought EXCEPT ![r] = n]
        /\ UNCHANGED <<users, conv, journal, worker, window, orphan, faults>>
  BY DEF Chain, Accept, Revert, Mine, OnChain
<1>2. /\ swap[r] \in {"asked", "accepted"}
      /\ swap'[r] \in Seen
      /\ swap[r] = "asked" => swap'[r] = "accepted"
      /\ swap' \in [Requests -> Swaps] /\ brought' \in [Requests -> Nat]
      /\ \A s \in Requests \ {r} : swap'[s] = swap[s] /\ brought'[s] = brought[s]
  BY SMTT(30), <1>1, ConversionsAssumption DEF IInv, Types, Swaps, Seen
<1>3. Types'
  BY <1>1, <1>2 DEF IInv, Types, users
<1>4. Entered(journal)' /\ Covered(journal)'
  BY <1>1 DEF IInv, Entered, Covered, BalanceIn
<1>5. RowsOk'
  <2> SUFFICES ASSUME NEW s \in Requests
               PROVE  RowOk(s, conv[s], swap'[s], brought'[s], window[s], journal)
    BY <1>1 DEF RowsOk
  <2>1. RowOk(s, conv[s], swap[s], brought[s], window[s], journal)
    BY DEF IInv, RowsOk
  <2>2. CASE s = r
    BY <1>2, <2>1, <2>2 DEF RowOk, Seen
  <2>3. CASE s # r
    BY <1>2, <2>1, <2>3
  <2> QED
    BY <2>2, <2>3
<1>6. PlacesOk'
  <2> SUFFICES ASSUME NEW p \in Workers, worker[p] # Idle
               PROVE  /\ Cur(p) \in Requests
                      /\ PlaceOk(worker[p], conv[Cur(p)], swap'[Cur(p)], brought'[Cur(p)], window[Cur(p)])
    BY <1>1 DEF PlacesOk, Cur
  <2>1. /\ Cur(p) \in Requests
        /\ PlaceOk(worker[p], conv[Cur(p)], swap[Cur(p)], brought[Cur(p)], window[Cur(p)])
        /\ RowOk(Cur(p), conv[Cur(p)], swap[Cur(p)], brought[Cur(p)], window[Cur(p)], journal)
    BY DEF IInv, PlacesOk, RowsOk
  <2>2. CASE Cur(p) # r
    BY <1>2, <2>1, <2>2
  <2>3. CASE Cur(p) = r
    <3>1. ~Terms(r).reserve
      BY <1>2, <2>1, <2>3 DEF RowOk
    <3> QED
      BY <1>2, <2>1, <2>3, <3>1 DEF PlaceOk, Seen, Cur
  <2> QED
    BY <2>2, <2>3
<1>7. Unique' /\ Attended' /\ OneConversion'
  BY <1>1 DEF IInv, Unique, Attended, OneConversion, Rows, SameClient, Busy, Cur, At
<1> QED
  BY <1>3, <1>4, <1>5, <1>6, <1>7 DEF IInv

-----------------------------------------------------------------------------
(* Every step *)

LEMMA NextInv == IInv /\ [Next]_vars => IInv'
<1> SUFFICES ASSUME IInv, [Next]_vars
             PROVE  IInv'
  OBVIOUS
<1>1. CASE \/ \E q \in Quotes : CreateQuote(q) \/ Expire(q)
           \/ \E r \in Requests : LookUp(r) \/ Refuse(r)
  BY <1>1, RequestsInv
<1>2. ASSUME NEW r \in Requests, Execute(r)
      PROVE  IInv'
  BY <1>2, ExecuteInv
<1>3. ASSUME NEW p \in Workers, Process(p) \/ Failure(p)
      PROVE  IInv'
  <2>1. CASE Find(p) \/ Claim(p) \/ Abandon(p)
    BY <2>1, FindInv, ClaimInv, AbandonInv
  <2>2. CASE ServeFromReserve(p) \/ Prepare(p) \/ Resume(p) \/ Send(p) \/ RecordHash(p) \/ ReadOutput(p)
    BY <2>2, ServeFromReserveInv, PrepareInv, ResumeInv, SendInv, RecordHashInv, ReadOutputInv
  <2>3. CASE ApprovalPending(p) \/ SendReturns(p) \/ SeeMined(p) \/ StillPending(p) \/ Unanswered(p)
    BY <2>3, GoesInv
  <2>4. CASE \/ Unprepared(p) \/ ResumeThrows(p) \/ SendThrows(p) \/ RecordThrows(p)
             \/ UnexpectedSender(p) \/ SeeReverted(p) \/ ReadThrows(p) \/ SettleThrows(p)
    BY <2>4, ThrowsInv
  <2>5. CASE SendRefused(p) \/ Settle(p) \/ SettleReplyLost(p) \/ FailConversion(p) \/ Defer(p)
    BY <2>5, SendRefusedInv, SettleInv, SettleReplyLostInv, FailConversionInv, DeferInv
  <2> QED
    BY <1>3, <2>1, <2>2, <2>3, <2>4, <2>5 DEF Process, Failure
<1>4. CASE Chain
  BY <1>4, ChainInv
<1>5. CASE UNCHANGED vars
  <2>1. UNCHANGED <<quote, expired, conv, journal, calls, worker, swap, brought, window, orphan, faults>>
    BY <1>5 DEF vars
  <2> QED
    BY <2>1
       DEF IInv, Types, Entered, Covered, BalanceIn, RowsOk, PlacesOk, Unique, Attended,
           OneConversion, Rows, SameClient, Busy, Cur, At
<1> QED
  BY <1>1, <1>2, <1>3, <1>4, <1>5 DEF Next, Endpoint

LEMMA Invariance == Spec => []IInv
  BY InitInv, NextInv, PTL DEF Spec

\* Whoever executes, processes and fails, rows, places and histories have their types, and
\* every entry posted names an account there is and a positive amount.
THEOREM TypeCorrect == Spec => []TypeOK
<1>1. IInv => TypeOK
  <2> SUFFICES ASSUME IInv, NEW r \in Requests, NEW op \in Ops
               PROVE  \A i \in DOMAIN journal[<<op, r>>] : journal[<<op, r>>][i] \in Entry
    <3>1. \A k \in Keys : \E op \in Ops, r \in Requests : k = <<op, r>>
      BY DEF Keys, Ops
    <3>2. ASSUME \A r \in Requests, op \in Ops :
                   \A i \in DOMAIN journal[<<op, r>>] : journal[<<op, r>>][i] \in Entry
          PROVE  \A k \in Keys : \A i \in DOMAIN journal[k] : journal[k][i] \in Entry
      BY <3>1, <3>2
    <3>3. IInv => DOMAIN journal = Keys /\ Types
      BY DEF IInv, Entered
    <3> QED
      BY <3>2, <3>3 DEF TypeOK, Types, Row, Place, Swaps, Reasons
  <2>1. /\ Terms(r).user \in Users /\ Terms(r).from \in Assets /\ Terms(r).to \in Assets
        /\ Terms(r).amount \in Nat \ {0}
    BY TermsType DEF OfferType
  <2>2. \A account \in {Spot(Terms(r).user, Terms(r).from), Spot(Terms(r).user, Terms(r).to),
                        Clearing(Terms(r).from), Clearing(Terms(r).to), Fees(Terms(r).to)} :
          \A n \in Nat \ {0} : Debit(account, n) \in Entry /\ Credit(account, n) \in Entry
    BY <2>1 DEF Entry, Debit, Credit, Spot, Clearing, Fees
  <2>3. \A i \in DOMAIN ReserveEntries(r) : ReserveEntries(r)[i] \in Entry
    BY <2>1, <2>2 DEF ReserveEntries
  <2>4. \A i \in DOMAIN ReleaseEntries(r) : ReleaseEntries(r)[i] \in Entry
    BY <2>1, <2>2 DEF ReleaseEntries
  <2>5. ASSUME NEW g \in Gross
        PROVE  \A i \in DOMAIN TradeEntries(r, g) : TradeEntries(r, g)[i] \in Entry
    <3> DEFINE a == Debit(Clearing(Terms(r).to), g)
               b == Credit(Spot(Terms(r).user, Terms(r).to), g - FeeOf(g))
               c == Credit(Fees(Terms(r).to), FeeOf(g))
    <3>1. g \in Nat \ {0} /\ g - FeeOf(g) \in Nat \ {0}
      BY DEF Gross
    <3>2. a \in Entry /\ b \in Entry
      BY <2>2, <3>1
    <3>3. FeeOf(g) > 0 => c \in Entry
      BY <2>2 DEF Gross
    <3>4. TradeEntries(r, g) = IF FeeOf(g) > 0 THEN <<a, b, c>> ELSE <<a, b>>
      BY OptionalEntry DEF TradeEntries
    <3> HIDE DEF a, b, c
    <3> QED
      BY <3>2, <3>3, <3>4
  <2>6. \A i \in DOMAIN <<>> : <<>>[i] \in Entry
    OBVIOUS
  <2> QED
    BY <2>3, <2>4, <2>5, <2>6 DEF IInv, Entered, Ops
<1> QED
  BY <1>1, Invariance, PTL

-----------------------------------------------------------------------------
(* One at a time *)

\* Whatever the processes do, a conversion under way has one of them, unless its
\* attempt was cut short; a quote and a client conversion id make one conversion
\* each, and executions that race never overdraw a balance.
THEOREM OneAtATimeAlways == Spec => []OneAtATime
<1>1. IInv => OneAtATime
  <2> SUFFICES ASSUME IInv
               PROVE  OneAtATime
    OBVIOUS
  <2>1. AttendedOnce
    <3> SUFFICES ASSUME NEW r \in Requests
                 PROVE  /\ Cardinality(Processing(r)) <= 1
                        /\ conv[r].status = "EXECUTING" /\ r \notin orphan => Processing(r) # {}
      BY DEF AttendedOnce
    <3>1. \A p \in Workers : p \in Processing(r) <=> Busy(p, r)
      BY DEF Processing, Busy
    <3>2. Cardinality(Processing(r)) <= 1
      <4>1. CASE Processing(r) = {}
        BY <4>1, FS_EmptySet
      <4>2. CASE Processing(r) # {}
        <5>1. PICK p \in Processing(r) : TRUE
          BY <4>2
        <5>2. Processing(r) = {p}
          BY <3>1, <5>1 DEF Processing, IInv, Unique
        <5> QED
          BY <5>2, FS_Singleton
      <4> QED
        BY <4>1, <4>2
    <3>3. conv[r].status = "EXECUTING" /\ r \notin orphan => Processing(r) # {}
      BY <3>1 DEF IInv, Attended
    <3> QED
      BY <3>2, <3>3
  <2>2. SpotNonNegative
    BY DEF SpotNonNegative, SpotBalance, IInv, Covered, BalanceIn
  <2> QED
    BY <2>1, <2>2 DEF OneAtATime, IInv
<1> QED
  BY <1>1, Invariance, PTL

-----------------------------------------------------------------------------
(* The promise kept *)

Stage(held, back, spent) ==
  IF spent THEN (IF back THEN "both" ELSE "spent")
  ELSE IF back THEN "returned" ELSE IF held THEN "held" ELSE "none"

LEMMA StageIs ==
  \A r \in Requests :
    /\ StageOf(r) = Stage(Posted("reserve", r), Posted("release", r), Spent(r))
    /\ StageOf(r)' = Stage(Posted("reserve", r)', Posted("release", r)', Spent(r)')
  BY DEF StageOf, Stage

\* A step changes what has become of one conversion at most.
Leaves(s) ==
  /\ swap'[s] = swap[s] /\ window'[s] = window[s]
  /\ \A op \in Ops : journal'[<<op, s>>] = journal[<<op, s>>]

Same(A, B) == A <=> B

\* The ways in which it does: nothing, the reserve, a payment, a return.
Turns(r) ==
  LET held  == Same(Posted("reserve", r)', Posted("reserve", r))
      back  == Same(Posted("release", r)', Posted("release", r))
      spent == Same(Spent(r)', Spent(r))
  IN  \/ held /\ back /\ spent
      \/ ~Posted("reserve", r) /\ Posted("reserve", r)' /\ back /\ spent
      \/ held /\ back /\ Spent(r)'
      \/ held /\ spent /\ Posted("release", r)'

StepOf(r) ==
  /\ \A s \in Requests \ {r} : Leaves(s)
  /\ Turns(r)
  /\ window[r] \subseteq window'[r]
  /\ window'[r] # window[r] => conv[r].status # "ABSENT"

Quiet == UNCHANGED <<journal, swap, window>>

LEMMA ChainTurns ==
  ASSUME IInv, Chain
  PROVE  \E r \in Requests : StepOf(r)
<1>1. PICK r \in Requests :
        /\ swap[r] \in {"asked", "accepted"}
        /\ \E to \in Swaps : swap' = [swap EXCEPT ![r] = to]
        /\ UNCHANGED <<journal, window>>
  BY DEF Chain, Accept, Revert, Mine, OnChain, Swaps
<1>2. \A s \in Requests \ {r} : swap'[s] = swap[s]
  BY <1>1 DEF IInv, Types
<1>3. \A op \in Ops : Posted(op, r)' <=> Posted(op, r)
  BY <1>1 DEF Posted
<1>4. Turns(r)
  BY <1>1, <1>3 DEF Turns, Same, Spent, Ops
<1> QED
  BY <1>1, <1>2, <1>4 DEF StepOf, Leaves

LEMMA ThrowsTurns ==
  ASSUME IInv, NEW p \in Workers, ~At(p, "idle"), NEW r \in Requests, r = Cur(p),
         NEW release \in BOOLEAN, NEW why \in SUBSET Reasons, Throws(p, release, why),
         UNCHANGED <<journal, swap>>
  PROVE  StepOf(r)
<1>1. conv[r].status # "ABSENT"
  BY AtWork
<1>2. /\ window'[r] = window[r] \cup why
      /\ \A s \in Requests \ {r} : window'[s] = window[s]
  BY ThrowsEffect DEF IInv
<1>3. Turns(r)
  BY DEF Turns, Same, Spent, Posted
<1> QED
  BY <1>1, <1>2, <1>3 DEF StepOf, Leaves

LEMMA SettleTurns ==
  ASSUME IInv, NEW p \in Workers, At(p, "settle"), NEW r \in Requests, r = Cur(p),
         SettleConversion(Cur(p), worker[p].gross),
         UNCHANGED <<swap, window>>
  PROVE  StepOf(r)
<1>0. ~At(p, "idle")
  BY DEF At
<1>2. /\ conv'[r].status = "FILLED"
      /\ \A s \in Requests \ {r} : \A op \in Ops : journal'[<<op, s>>] = journal[<<op, s>>]
      /\ RowOk(r, conv'[r], swap[r], brought[r], window[r], journal')
  BY SettleEffect
<1>3. /\ journal'[<<"trade", r>>] # <<>> /\ journal'[<<"release", r>>] = <<>>
      /\ journal'[<<"reserve", r>>] # <<>>
  BY <1>2 DEF RowOk
<1>4. RowOk(r, conv[r], swap[r], brought[r], window[r], journal)
  BY <1>0, AtWork
<1>5. journal[<<"release", r>>] = <<>> /\ journal[<<"reserve", r>>] # <<>>
  <2>1. conv[r].status = "EXECUTING"
    BY <1>0, AtWork DEF PlaceOk, At
  <2> QED
    BY <1>4, <2>1 DEF RowOk
<1>6. Turns(r)
  BY <1>3, <1>5 DEF Turns, Same, Spent, Posted
<1> QED
  BY <1>2, <1>6 DEF StepOf, Leaves

LEMMA FailTurns ==
  ASSUME IInv, NEW p \in Workers, FailConversion(p), NEW r \in Requests, r = Cur(p)
  PROVE  Quiet \/ StepOf(r)
<1>0. ~At(p, "idle")
  BY DEF At, FailConversion
<1>2. UNCHANGED <<swap, window>>
  BY DEF FailConversion, chain
<1>3. CASE UNCHANGED journal
  BY <1>2, <1>3 DEF Quiet
<1>4. CASE ~UNCHANGED journal
  <2>1. journal' = Record(journal, <<"release", r>>, ReleaseEntries(r))
    BY <1>4 DEF FailConversion
  <2>2. "release" \in Ops /\ MayPost("release", r, ReleaseEntries(r)) /\ Entered(journal)
    BY DEF Ops, MayPost, IInv
  <2>3. /\ journal'[<<"release", r>>] # <<>>
        /\ \A o \in Ops, s \in Requests : o # "release" \/ s # r => journal'[<<o, s>>] = journal[<<o, s>>]
    BY <2>1, <2>2, RecordKeys
  <2>4. /\ journal'[<<"reserve", r>>] = journal[<<"reserve", r>>]
        /\ journal'[<<"trade", r>>] = journal[<<"trade", r>>]
    BY <2>3 DEF Ops
  <2>5. Turns(r)
    BY <1>2, <2>3, <2>4 DEF Turns, Same, Spent, Posted
  <2> QED
    BY <1>2, <2>3, <2>5 DEF StepOf, Leaves
<1> QED
  BY <1>3, <1>4

LEMMA ExecuteTurns ==
  ASSUME IInv, NEW r \in Requests, Execute(r)
  PROVE  StepOf(r)
<1>1. r \notin Rows /\ conv[r].status = "ABSENT"
  BY DEF Execute, Insertable, Rows, IInv, OneConversion
<1>2. journal[<<"reserve", r>>] = <<>>
  BY <1>1 DEF IInv, RowsOk, RowOk, Ops
<1>3. UNCHANGED <<swap, window>>
  BY DEF Execute, chain
<1>4. journal' = Record(journal, <<"reserve", r>>, ReserveEntries(r))
  BY DEF Execute
<1>5. "reserve" \in Ops /\ MayPost("reserve", r, ReserveEntries(r)) /\ Entered(journal)
  BY DEF Ops, MayPost, IInv
<1>6. /\ journal'[<<"reserve", r>>] # <<>>
      /\ \A o \in Ops, s \in Requests : o # "reserve" \/ s # r => journal'[<<o, s>>] = journal[<<o, s>>]
  BY <1>4, <1>5, RecordKeys
<1>7. /\ journal'[<<"release", r>>] = journal[<<"release", r>>]
      /\ journal'[<<"trade", r>>] = journal[<<"trade", r>>]
  BY <1>6 DEF Ops
<1>8. Turns(r)
  BY <1>2, <1>3, <1>6, <1>7 DEF Turns, Same, Spent, Posted
<1> QED
  BY <1>3, <1>6, <1>8 DEF StepOf, Leaves

LEMMA SendTurns ==
  ASSUME IInv, NEW p \in Workers, Send(p) \/ SendRefused(p),
         NEW r \in Requests, r = Cur(p)
  PROVE  StepOf(r)
<1>1. ~At(p, "idle")
  BY DEF Send, SendRefused, At
<1>2. conv[r].status # "ABSENT"
  BY <1>1, AtWork
<1>3. /\ window'[r] = window[r]
      /\ \A s \in Requests \ {r} : window'[s] = window[s]
  <2>1. CASE Send(p)
    BY <2>1 DEF Send
  <2>2. CASE SendRefused(p)
    <3>1. {} \in SUBSET Reasons /\ TRUE \in BOOLEAN /\ Throws(p, TRUE, {}) /\ Types
      BY <2>2 DEF IInv, SendRefused
    <3>2. /\ window'[r] = window[r] \cup {}
          /\ \A s \in Requests \ {r} : window'[s] = window[s]
      BY <1>2, <3>1, ThrowsEffect
    <3> QED
      BY <3>2
  <2> QED
    BY <2>1, <2>2
<1>4. swap[r] # "mined" /\ swap'[r] # "mined" /\ \A s \in Requests \ {r} : swap'[s] = swap[s]
  <2>1. CASE Send(p)
    <3>1. swap[r] = "none"
      BY <1>1, <2>1, AtWork DEF PlaceOk, At, Send
    <3> QED
      BY <1>2, <2>1, <3>1 DEF Send, IInv, Types
  <2>2. CASE SendRefused(p)
    BY <1>2, <2>2 DEF SendRefused, IInv, Types
  <2> QED
    BY <2>1, <2>2
<1>5. UNCHANGED journal
  BY DEF Send, SendRefused
<1>6. Turns(r)
  BY <1>4, <1>5 DEF Turns, Same, Spent, Posted
<1> QED
  BY <1>2, <1>3, <1>4, <1>5, <1>6 DEF StepOf, Leaves

LEMMA NextTurns ==
  ASSUME IInv, Next
  PROVE  Quiet \/ \E r \in Requests : StepOf(r)
<1>1. CASE \/ \E q \in Quotes : CreateQuote(q) \/ Expire(q)
           \/ \E r \in Requests : LookUp(r) \/ Refuse(r)
  BY <1>1 DEF Quiet, CreateQuote, Expire, LookUp, Refuse, chain
<1>2. ASSUME NEW r \in Requests, Execute(r)
      PROVE  StepOf(r)
  BY <1>2, ExecuteTurns
<1>3. ASSUME NEW p \in Workers, Process(p) \/ Failure(p)
      PROVE  Quiet \/ \E r \in Requests : StepOf(r)
  <2>0. ~At(p, "idle") => Cur(p) \in Requests
    BY AtWork
  <2>1. CASE Find(p) \/ Claim(p) \/ Abandon(p) \/ RecordHash(p) \/ Defer(p)
    BY <2>1 DEF Quiet, Find, Claim, Abandon, RecordHash, Defer, chain
  <2>2. CASE ServeFromReserve(p) \/ Prepare(p) \/ Resume(p)
    BY <2>2 DEF Quiet, ServeFromReserve, Prepare, Resume, chain
  <2>3. CASE ApprovalPending(p) \/ SendReturns(p) \/ SeeMined(p) \/ StillPending(p) \/ Unanswered(p)
    BY <2>3 DEF Quiet, ApprovalPending, SendReturns, SeeMined, StillPending, Unanswered, chain
  <2>4. CASE Send(p) \/ SendRefused(p)
    BY <2>0, <2>4, SendTurns DEF Send, SendRefused, At
  <2>5. CASE \/ Unprepared(p) \/ ResumeThrows(p) \/ SendThrows(p) \/ RecordThrows(p)
             \/ UnexpectedSender(p) \/ SeeReverted(p) \/ ReadThrows(p) \/ SettleThrows(p)
    <3>1. UNCHANGED <<journal, swap>> /\ ~At(p, "idle")
      BY <2>5
         DEF Unprepared, ResumeThrows, SendThrows, RecordThrows, UnexpectedSender, SeeReverted,
             ReadThrows, SettleThrows, chain, At
    <3>2. \E release \in BOOLEAN, why \in SUBSET Reasons : Throws(p, release, why)
      BY <2>5
         DEF Unprepared, ResumeThrows, SendThrows, RecordThrows, UnexpectedSender, SeeReverted,
             ReadThrows, SettleThrows, Reasons
    <3> QED
      BY <2>0, <3>1, <3>2, ThrowsTurns
  <2>6. CASE ReadOutput(p)
    <3>1. UNCHANGED <<journal, swap>> /\ ~At(p, "idle")
      BY <2>6 DEF ReadOutput, chain, At
    <3>2. Throws(p, FALSE, {}) \/ UNCHANGED window
      BY <2>6 DEF ReadOutput
    <3> QED
      BY <2>0, <3>1, <3>2, ThrowsTurns DEF Quiet
  <2>7. CASE Settle(p)
    BY <2>0, <2>7, SettleTurns DEF Settle, chain, At
  <2>8. CASE SettleReplyLost(p)
    <3>1. /\ At(p, "settle") /\ SettleConversion(Cur(p), worker[p].gross)
          /\ Throws(p, TRUE, {}) /\ UNCHANGED swap /\ Cur(p) \in Requests
      BY <2>0, <2>8 DEF SettleReplyLost, chain, At
    <3>2. UNCHANGED window
      <4>1. window' = [window EXCEPT ![Cur(p)] = @ \cup {}]
        BY <3>1 DEF Throws
      <4>2. window[Cur(p)] \cup {} = window[Cur(p)] /\ window \in [Requests -> SUBSET Reasons]
        BY DEF IInv, Types
      <4> QED
        BY <4>1, <4>2
    <3> QED
      BY <3>1, <3>2, SettleTurns
  <2>9. CASE FailConversion(p)
    BY <2>0, <2>9, FailTurns DEF FailConversion, At
  <2> QED
    BY <1>3, <2>1, <2>2, <2>3, <2>4, <2>5, <2>6, <2>7, <2>8, <2>9 DEF Process, Failure
<1>4. CASE Chain
  BY <1>4, ChainTurns
<1> QED
  BY <1>1, <1>2, <1>3, <1>4 DEF Next, Endpoint

LEMMA StageLeft ==
  ASSUME NEW s \in Requests, Leaves(s)
  PROVE  StageOf(s)' = StageOf(s)
<1>1. \A op \in Ops : Posted(op, s)' <=> Posted(op, s)
  BY DEF Leaves, Posted
<1>2. Spent(s)' <=> Spent(s)
  BY <1>1 DEF Leaves, Spent, Ops
<1> QED
  BY <1>1, <1>2, StageIs DEF Stage, Ops

LEMMA StepKeepsPromise ==
  ASSUME IInv, IInv', NEW r \in Requests, StepOf(r)
  PROVE  [Promise!Next]_(Promise!evars)
<1>0. PICK a, b : a = StageOf(r) /\ b = StageOf(r)'
  OBVIOUS
<1>1. [s \in Requests |-> StageOf(s)]' = [[s \in Requests |-> StageOf(s)] EXCEPT ![r] = b]
  BY <1>0, StageLeft DEF StepOf
<1>2. {s \in Requests : window[s] # {}}' \in {{s \in Requests : window[s] # {}},
                                              {s \in Requests : window[s] # {}} \cup {r}}
  BY DEF StepOf, Leaves
<1>3. /\ RowOk(r, conv[r], swap[r], brought[r], window[r], journal)
      /\ RowOk(r, conv'[r], swap'[r], brought'[r], window'[r], journal')
  BY DEF IInv, RowsOk
<1>4. b = "both" => window'[r] # {}
  <2>1. b = "both" => Posted("release", r)' /\ Spent(r)'
    BY <1>0, StageIs DEF Stage
  <2> QED
    BY <1>3, <2>1 DEF RowOk, Posted, Spent
<1>5. /\ Posted("release", r) \/ Spent(r) => Posted("reserve", r)
      /\ Posted("release", r)' \/ Spent(r)' => Posted("reserve", r)'
  BY <1>3 DEF RowOk, Posted, Spent, Ops
<1>6. conv[r].status # "ABSENT" => a # "none"
  <2>1. conv[r].status # "ABSENT" => Posted("reserve", r)
    BY <1>3 DEF RowOk, Posted
  <2> QED
    BY <1>0, <2>1, StageIs DEF Stage
<1>7. \/ a = b
      \/ a = "none" /\ b = "held"
      \/ a = "held" /\ b \in {"spent", "returned"}
      \/ a \in {"spent", "returned"} /\ b = "both"
  <2>1. /\ a = Stage(Posted("reserve", r), Posted("release", r), Spent(r))
        /\ b = Stage(Posted("reserve", r)', Posted("release", r)', Spent(r)')
    BY <1>0, StageIs
  <2>2. Turns(r)
    BY DEF StepOf
  <2>3. PICK h, k, c, h2, k2, c2 \in BOOLEAN :
          /\ h = Posted("reserve", r) /\ k = Posted("release", r) /\ c = Spent(r)
          /\ h2 = Posted("reserve", r)' /\ k2 = Posted("release", r)' /\ c2 = Spent(r)'
    BY DEF Posted, Spent
  <2>4. \/ h2 = h /\ k2 = k /\ c2 = c
        \/ ~h /\ h2 /\ k2 = k /\ c2 = c
        \/ h2 = h /\ k2 = k /\ c2
        \/ h2 = h /\ c2 = c /\ k2
    BY <2>2, <2>3, Zenon DEF Turns, Same
  <2>5. a = Stage(h, k, c) /\ b = Stage(h2, k2, c2)
    BY <2>1, <2>3
  <2>6. (k \/ c => h) /\ (k2 \/ c2 => h2)
    BY <1>5, <2>3
  <2> QED
    BY <2>4, <2>5, <2>6 DEF Stage
<1>8. a = b => Promise!Contest(r) \/ window' = window
  <2>1. ASSUME a = b, a = "none"
        PROVE  window' = window
    <3>1. \A s \in Requests : window'[s] = window[s]
      BY <1>6, <2>1 DEF StepOf, Leaves
    <3> QED
      BY <3>1 DEF IInv, Types
  <2>2. ASSUME a = b, a # "none"
        PROVE  Promise!Contest(r)
    <3>1. [s \in Requests |-> StageOf(s)]' = [s \in Requests |-> StageOf(s)]
      BY <1>0, <2>2, StageLeft DEF StepOf
    <3> QED
      BY <1>0, <2>2, <3>1 DEF Promise!Contest
  <2> QED
    BY <2>1, <2>2
<1>9. CASE a = b
  <2>1. [s \in Requests |-> StageOf(s)]' = [s \in Requests |-> StageOf(s)]
    BY <1>0, <1>9, StageLeft DEF StepOf
  <2>2. window' = window => UNCHANGED Promise!evars
    BY <2>1 DEF Promise!evars
  <2> QED
    BY <1>2, <1>8, <1>9, <2>2 DEF Promise!Next
<1>10. CASE a # b
  <2>1. Promise!Hold(r) \/ Promise!Spend(r) \/ Promise!Return(r)
    BY <1>0, <1>1, <1>4, <1>7, <1>10
       DEF Promise!Hold, Promise!Spend, Promise!Return, Promise!Moves
  <2> QED
    BY <1>2, <2>1 DEF Promise!Next
<1> QED
  BY <1>9, <1>10

\* The convert service implements Escrow: what a user gives is swapped once or
\* given back once, and both only after an error that hid a swap that was sent.
THEOREM KeepsThePromise == Spec => KeepsPromise
<1>1. Init => Promise!Init
  <2> SUFFICES ASSUME Init
               PROVE  Promise!Init
    OBVIOUS
  <2>1. \A r \in Requests : ~Posted("reserve", r) /\ ~Posted("release", r) /\ ~Spent(r)
    BY KeysFinite DEF Init, Posted, Spent, Ops
  <2>2. \A r \in Requests : StageOf(r) = "none"
    BY <2>1, StageIs DEF Stage
  <2> QED
    BY <2>2 DEF Promise!Init, Init
<1>2. IInv /\ IInv' /\ [Next]_vars => [Promise!Next]_(Promise!evars)
  <2> SUFFICES ASSUME IInv, IInv', [Next]_vars
               PROVE  [Promise!Next]_(Promise!evars)
    OBVIOUS
  <2>1. CASE Quiet \/ UNCHANGED vars
    <3>1. Quiet
      BY <2>1 DEF Quiet, vars
    <3>2. \A s \in Requests : Leaves(s)
      BY <3>1 DEF Quiet, Leaves
    <3>3. \A s \in Requests : StageOf(s)' = StageOf(s)
      BY <3>2, StageLeft
    <3> QED
      BY <3>1, <3>3 DEF Promise!evars, Quiet
  <2>2. CASE \E r \in Requests : StepOf(r)
    BY <2>2, StepKeepsPromise
  <2> QED
    BY <2>1, <2>2, NextTurns
<1> QED
  BY <1>1, <1>2, Invariance, PTL DEF Spec, KeepsPromise, Promise!Spec

-----------------------------------------------------------------------------
(* What is credited is what was brought *)

\* The service runs in one process (the api container of compose.production.yml).
OneProcess == \A p, q \in Workers : p = q

Lossless == \A r \in Requests : ~Lost(r)

\* A swap of the conversion is being made or may still be mined.
Underway(r) ==
  conv[r].status = "EXECUTING" \/ (conv[r].status = "PENDING" /\ conv[r].hash)

Live == {"asked", "accepted"}

\* The wallet has gained what the swap of r brought since it held before.
Since(r, before) == NetInflow(Terms(r).to) = before + Inflow(r, Terms(r).to)

\* The ages of conversions.
Ordered ==
  /\ \A r \in Rows : conv[r].at \in 1..Cardinality(Rows)
  /\ \A r, s \in Rows : conv[r].at = conv[s].at => r = s

OldestOf(r) == \A s \in Requests : conv[s].status = "PENDING" => conv[r].at <= conv[s].at

RowsAlone ==
  \A r \in Requests :
    /\ swap[r] \in Live => Underway(r)
    /\ Underway(r) => OldestOf(r) /\ \A s \in Requests : Underway(s) => s = r
    /\ Underway(r) /\ conv[r].hash => Since(r, conv[r].before)
    /\ conv[r].status = "FILLED" /\ ~Terms(r).reserve =>
         journal[<<"trade", r>>] = TradeEntries(r, brought[r])

\* A process at x.
AloneAt(x) ==
  /\ x.step = "found" => conv[x.r].status = "PENDING" /\ OldestOf(x.r)
  /\ x.step \in {"send", "sending", "record", "wait", "read"} => Since(x.r, x.before)
  /\ x.step = "settle" /\ ~Terms(x.r).reserve => x.gross = brought[x.r]
  /\ x.step = "fail" => swap[x.r] \notin Live

PlacesAlone == \A p \in Workers : AloneAt(worker[p])

\* One process that loses sight of no swap makes one swap at a time, the oldest first.
Alone == OneProcess /\ Lossless => RowsAlone /\ PlacesAlone

LEMMA RowsFinite == IsFiniteSet(Rows) /\ Cardinality(Rows) \in Nat
<1>1. Rows \subseteq Requests /\ IsFiniteSet(Requests)
  BY ConversionsAssumption DEF Rows
<1>2. IsFiniteSet(Rows)
  BY <1>1, FS_Subset
<1> QED
  BY <1>2, FS_CardinalityType

LEMMA AtType ==
  ASSUME Types, NEW r \in Requests
  PROVE  conv[r].at \in Nat /\ conv[r].status \in Status
  BY DEF Types, Row

\* A conversion keeps its age.
AgesKept == \A r \in Requests :
  conv'[r].at = conv[r].at /\ (conv'[r].status = "ABSENT" <=> conv[r].status = "ABSENT")

LEMMA AgesKeptByOthers ==
  ASSUME IInv, Next, \A r \in Requests : ~Execute(r)
  PROVE  AgesKept
<1> SUFFICES ASSUME NEW r \in Requests
             PROVE  conv'[r].at = conv[r].at /\ (conv'[r].status = "ABSENT" <=> conv[r].status = "ABSENT")
  BY DEF AgesKept
<1>0. conv \in [Requests -> Row] /\ conv[r] \in Row
  BY DEF IInv, Types
<1>1. CASE UNCHANGED conv
  BY <1>1
<1>2. ASSUME NEW p \in Workers,
             \/ Claim(p) \/ RecordHash(p) \/ Settle(p) \/ SettleReplyLost(p)
             \/ FailConversion(p) \/ Defer(p),
             ~UNCHANGED conv
      PROVE  conv'[r].at = conv[r].at /\ (conv'[r].status = "ABSENT" <=> conv[r].status = "ABSENT")
  <2>1. ~At(p, "idle")
    BY <1>2 DEF Claim, RecordHash, Settle, SettleReplyLost, FailConversion, Defer, At
  <2>2. conv[Cur(p)].status # "ABSENT" /\ Cur(p) \in Requests /\ conv[Cur(p)] \in Row
    BY <2>1, AtWork DEF IInv, Types
  <2>3. \/ \E st \in Status \ {"ABSENT"} : conv' = [conv EXCEPT ![Cur(p)].status = st]
        \/ conv' = [conv EXCEPT ![Cur(p)].hash = TRUE, ![Cur(p)].before = worker[p].before]
    BY <1>2
       DEF Claim, RecordHash, Settle, SettleReplyLost, FailConversion, Defer, SettleConversion, Status
  <2>4. CASE \E st \in Status \ {"ABSENT"} : conv' = [conv EXCEPT ![Cur(p)].status = st]
    BY <1>0, <2>2, <2>4 DEF Row
  <2>5. CASE conv' = [conv EXCEPT ![Cur(p)].hash = TRUE, ![Cur(p)].before = worker[p].before]
    BY <1>0, <2>2, <2>5 DEF Row
  <2> QED
    BY <2>3, <2>4, <2>5
<1>3. CASE \/ \E q \in Quotes : CreateQuote(q) \/ Expire(q)
           \/ \E s \in Requests : LookUp(s) \/ Refuse(s)
  BY <1>1, <1>3 DEF CreateQuote, Expire, LookUp, Refuse
<1>4. CASE Chain
  BY <1>1, <1>4 DEF Chain, Accept, Revert, Mine, OnChain
<1>5. ASSUME NEW p \in Workers, Process(p) \/ Failure(p)
      PROVE  conv'[r].at = conv[r].at /\ (conv'[r].status = "ABSENT" <=> conv[r].status = "ABSENT")
  <2>1. CASE \/ Find(p) \/ ServeFromReserve(p) \/ Prepare(p) \/ Unprepared(p) \/ ApprovalPending(p)
             \/ Resume(p) \/ Send(p) \/ SendReturns(p) \/ SendRefused(p) \/ SeeMined(p)
             \/ SeeReverted(p) \/ StillPending(p) \/ ReadOutput(p)
    BY <1>1, <2>1
       DEF Find, ServeFromReserve, Prepare, Unprepared, ApprovalPending, Resume, Send, SendReturns,
           SendRefused, SeeMined, SeeReverted, StillPending, ReadOutput
  <2>2. CASE \/ ResumeThrows(p) \/ SendThrows(p) \/ RecordThrows(p) \/ UnexpectedSender(p)
             \/ Unanswered(p) \/ ReadThrows(p) \/ SettleThrows(p) \/ Abandon(p)
    BY <1>1, <2>2
       DEF ResumeThrows, SendThrows, RecordThrows, UnexpectedSender, Unanswered, ReadThrows,
           SettleThrows, Abandon
  <2> QED
    BY <1>1, <1>2, <1>5, <2>1, <2>2 DEF Process, Failure
<1> QED
  BY <1>3, <1>4, <1>5 DEF Next, Endpoint

LEMMA ExecuteAges ==
  ASSUME IInv, NEW r \in Requests, Execute(r)
  PROVE  /\ r \notin Rows /\ Rows' = Rows \cup {r}
         /\ Cardinality(Rows') = Cardinality(Rows) + 1
         /\ conv'[r].at = Cardinality(Rows) + 1 /\ conv'[r].status = "PENDING" /\ ~conv'[r].hash
         /\ \A s \in Requests \ {r} : conv'[s] = conv[s]
<1> DEFINE n == Cardinality(Rows) + 1
           d == [Absent EXCEPT !.status = "PENDING", !.at = n]
<1>1. r \notin Rows
  BY DEF Execute, Insertable
<1>2. conv' = [conv EXCEPT ![r] = d] /\ conv \in [Requests -> Row]
  BY DEF Execute, IInv, Types
<1>3. n \in Nat
  BY RowsFinite
<1> HIDE DEF n
<1>4. d.at = n /\ d.status = "PENDING" /\ ~d.hash
  BY DEF Absent
<1> HIDE DEF d
<1>5. conv'[r] = d /\ \A s \in Requests \ {r} : conv'[s] = conv[s]
  BY <1>2
<1>6. Rows' = Rows \cup {r}
  BY <1>4, <1>5 DEF Rows
<1>7. Cardinality(Rows') = Cardinality(Rows) + 1
  BY <1>1, <1>6, RowsFinite, FS_AddElement
<1> QED
  BY <1>1, <1>4, <1>5, <1>6, <1>7 DEF n

LEMMA OrderedInv ==
  ASSUME IInv, Ordered, Next
  PROVE  Ordered'
<1>1. CASE \A r \in Requests : ~Execute(r)
  <2>1. AgesKept
    BY <1>1, AgesKeptByOthers
  <2>2. Rows' = Rows
    BY <2>1 DEF Rows, AgesKept
  <2>3. \A r \in Rows : r \in Requests
    BY DEF Rows
  <2> QED
    BY <2>1, <2>2, <2>3 DEF Ordered, AgesKept
<1>2. ASSUME NEW r \in Requests, Execute(r)
      PROVE  Ordered'
  <2>1. /\ r \notin Rows /\ Rows' = Rows \cup {r}
        /\ Cardinality(Rows') = Cardinality(Rows) + 1
        /\ conv'[r].at = Cardinality(Rows) + 1
        /\ \A s \in Requests \ {r} : conv'[s] = conv[s]
    BY <1>2, ExecuteAges
  <2>2. \A s \in Rows : conv'[s].at = conv[s].at /\ conv[s].at \in 1..Cardinality(Rows)
    BY <2>1 DEF Ordered, Rows
  <2>3. PICK n \in Nat : n = Cardinality(Rows)
    BY RowsFinite
  <2>4. \A s \in Rows' : conv'[s].at \in 1..(n + 1)
    BY <2>1, <2>2, <2>3
  <2>5. \A s, t \in Rows' : conv'[s].at = conv'[t].at => s = t
    BY <2>1, <2>2, <2>3 DEF Ordered
  <2> QED
    BY <2>1, <2>3, <2>4, <2>5 DEF Ordered
<1> QED
  BY <1>1, <1>2

\* What is lost stays lost.
LEMMA LosslessBefore ==
  ASSUME IInv, Next, Lossless'
  PROVE  /\ Lossless
         /\ \A r \in Requests : window[r] = {} /\ window'[r] = {} /\ r \notin orphan /\ r \notin orphan'
<1>1. \A r \in Requests : window[r] \subseteq window'[r]
  <2>1. CASE Quiet
    BY <2>1 DEF Quiet
  <2>2. ASSUME NEW r \in Requests, StepOf(r)
        PROVE  \A s \in Requests : window[s] \subseteq window'[s]
    BY <2>2 DEF StepOf, Leaves
  <2> QED
    BY <2>1, <2>2, NextTurns
<1>2. orphan \subseteq orphan'
  <2>1. CASE Endpoint \/ Chain
    BY <2>1
       DEF Endpoint, CreateQuote, Expire, LookUp, Execute, Refuse, Chain, Accept, Revert, Mine, OnChain
  <2>2. ASSUME NEW p \in Workers, Process(p)
        PROVE  orphan \subseteq orphan'
    BY <2>2
       DEF Process, Find, Claim, ServeFromReserve, Prepare, Unprepared, ApprovalPending, Resume, Send,
           SendReturns, SendRefused, RecordHash, SeeMined, SeeReverted, StillPending, ReadOutput,
           Settle, FailConversion, Defer
  <2>3. ASSUME NEW p \in Workers, Failure(p)
        PROVE  orphan \subseteq orphan'
    BY <2>3
       DEF Failure, ResumeThrows, SendThrows, RecordThrows, UnexpectedSender, Unanswered, ReadThrows,
           SettleThrows, SettleReplyLost, Abandon
  <2> QED
    BY <2>1, <2>2, <2>3 DEF Next
<1>3. \A r \in Requests : window'[r] = {} /\ r \notin orphan'
  BY DEF Lossless, Lost
<1> QED
  BY <1>1, <1>2, <1>3 DEF Lossless, Lost

\* The wallet gains and pays when a swap is mined.
LEMMA InflowKept ==
  ASSUME UNCHANGED brought, \A r \in Requests : swap'[r] = "mined" <=> swap[r] = "mined", NEW a
  PROVE  NetInflow(a)' = NetInflow(a) /\ \A r \in Requests : Inflow(r, a)' = Inflow(r, a)
<1>1. \A r \in Requests : Inflow(r, a)' = Inflow(r, a)
  BY DEF Inflow
<1>2. [r \in Requests |-> Inflow(r, a)]' = [r \in Requests |-> Inflow(r, a)]
  BY <1>1
<1> QED
  BY <1>1, <1>2 DEF NetInflow

\* The process goes on and the rows stay what they are.
LEMMA PlacedAlone ==
  ASSUME OneProcess, RowsAlone, NEW p \in Workers, NEW y \in Place, Moved(p, y), AloneAt(y),
         UNCHANGED <<conv, journal, chain>>
  PROVE  RowsAlone' /\ PlacesAlone'
<1>1. \A a : NetInflow(a)' = NetInflow(a) /\ \A r \in Requests : Inflow(r, a)' = Inflow(r, a)
  BY DEF NetInflow, Inflow, chain
<1>2. RowsAlone'
  BY <1>1 DEF RowsAlone, Underway, OldestOf, Since, chain
<1>3. \A q \in Workers : worker'[q] = y
  BY DEF OneProcess, Moved
<1>4. PlacesAlone'
  BY <1>3 DEF PlacesAlone, AloneAt, OldestOf, Since, chain, NetInflow, Inflow
<1> QED
  BY <1>2, <1>4

LEMMA IdleAlone == Idle \in Place /\ AloneAt(Idle)
<1>1. Idle \in Place /\ Idle.step = "idle"
  BY DEF Idle, Place, Steps
<1> HIDE DEF Idle
<1> QED
  BY <1>1 DEF AloneAt

\* Nobody else's conversion is under way.
LEMMA OnlyHis ==
  ASSUME IInv, OneProcess, RowsAlone, NEW p \in Workers, ~At(p, "idle"), ~At(p, "found"),
         conv[Cur(p)].status = "EXECUTING"
  PROVE  Underway(Cur(p)) /\ \A s \in Requests : Underway(s) => s = Cur(p)
<1>1. Cur(p) \in Requests
  BY AtWork
<1> QED
  BY <1>1 DEF RowsAlone, Underway

\* Steps that leave the rows, the journal and the chain alone.
LEMMA GoesAlone ==
  ASSUME IInv, OneProcess, Lossless, RowsAlone, PlacesAlone, NEW p \in Workers,
         \/ ApprovalPending(p) \/ SendReturns(p) \/ SeeMined(p) \/ StillPending(p) \/ Unanswered(p)
  PROVE  RowsAlone' /\ PlacesAlone'
<1>1. PICK st \in {"defer", "record", "read"} :
        /\ Goes(p, st)
        /\ st \in {"record", "read"} => worker[p].step \in {"sending", "wait"}
  BY DEF ApprovalPending, SendReturns, SeeMined, StillPending, Unanswered, At
<1>2. PICK y \in Place : /\ Moved(p, y) /\ y.step = st /\ y.r = Cur(p)
                         /\ y.before = worker[p].before
  BY <1>1, StepsType, GoesEffect DEF IInv
<1>3. AloneAt(y)
  BY <1>1, <1>2 DEF PlacesAlone, AloneAt, Cur
<1>4. UNCHANGED <<conv, journal, chain>>
  BY DEF ApprovalPending, SendReturns, SeeMined, StillPending, Unanswered
<1> QED
  BY <1>2, <1>3, <1>4, PlacedAlone

LEMMA ServeFromReserveAlone ==
  ASSUME IInv, OneProcess, Lossless, RowsAlone, PlacesAlone, NEW p \in Workers, ServeFromReserve(p)
  PROVE  RowsAlone' /\ PlacesAlone'
<1> DEFINE y == [worker[p] EXCEPT !.step = "settle", !.gross = Terms(Cur(p)).gross]
<1>1. Cur(p) \in Requests /\ worker[p] \in Place
  BY AtWork DEF ServeFromReserve, At
<1>2. Terms(Cur(p)).gross \in Int
  BY <1>1, TermsType
<1>3. y \in Place /\ y.step = "settle" /\ y.r = Cur(p)
  BY <1>1, <1>2, StepsType DEF Place, Cur
<1>4. Moved(p, y)
  BY <1>3, MovedTo DEF IInv, ServeFromReserve
<1> HIDE DEF y
<1>5. AloneAt(y)
  BY <1>3 DEF AloneAt, ServeFromReserve
<1> QED
  BY <1>3, <1>4, <1>5, PlacedAlone DEF ServeFromReserve

LEMMA PrepareAlone ==
  ASSUME IInv, OneProcess, Lossless, RowsAlone, PlacesAlone, NEW p \in Workers, Prepare(p)
  PROVE  RowsAlone' /\ PlacesAlone'
<1> DEFINE before == NetInflow(Terms(Cur(p)).to)
           y == [worker[p] EXCEPT !.step = "send", !.before = before]
<1>1. Cur(p) \in Requests /\ worker[p] \in Place /\ swap[Cur(p)] = "none"
  BY AtWork DEF Prepare, At, PlaceOk
<1>2. before \in Int
  BY NetInflowType DEF IInv
<1>3. worker' = [worker EXCEPT ![p] = y]
  BY DEF Prepare
<1>4. before = NetInflow(Terms(Cur(p)).to)
  OBVIOUS
<1> HIDE DEF before
<1>5. y \in Place /\ y.step = "send" /\ y.r = Cur(p) /\ y.before = before
  BY <1>1, <1>2, StepsType DEF Place, Cur
<1>6. Moved(p, y)
  BY <1>3, <1>5, MovedTo DEF IInv
<1> HIDE DEF y
<1>7. Inflow(Cur(p), Terms(Cur(p)).to) = 0
  BY <1>1 DEF Inflow
<1>8. Since(y.r, y.before)
  BY <1>2, <1>4, <1>5, <1>7 DEF Since
<1>9. AloneAt(y)
  BY <1>5, <1>8 DEF AloneAt
<1> QED
  BY <1>5, <1>6, <1>9, PlacedAlone DEF Prepare

LEMMA ResumeAlone ==
  ASSUME IInv, OneProcess, Lossless, RowsAlone, PlacesAlone, NEW p \in Workers, Resume(p)
  PROVE  RowsAlone' /\ PlacesAlone'
<1> DEFINE y == [worker[p] EXCEPT !.step = "wait", !.before = conv[Cur(p)].before]
<1>1. Cur(p) \in Requests /\ worker[p] \in Place /\ conv[Cur(p)].status = "EXECUTING" /\ conv[Cur(p)].hash
  BY AtWork DEF Resume, At, PlaceOk
<1>2. conv[Cur(p)].before \in Int
  BY <1>1 DEF IInv, Types, Row
<1>3. y \in Place /\ y.step = "wait" /\ y.r = Cur(p) /\ y.before = conv[Cur(p)].before
  BY <1>1, <1>2, StepsType DEF Place, Cur
<1>4. Moved(p, y)
  BY <1>3, MovedTo DEF IInv, Resume
<1> HIDE DEF y
<1>5. Since(y.r, y.before)
  BY <1>1, <1>3 DEF RowsAlone, Underway
<1>6. AloneAt(y)
  BY <1>3, <1>5 DEF AloneAt
<1> QED
  BY <1>3, <1>4, <1>6, PlacedAlone DEF Resume

LEMMA ThrowsAlone ==
  ASSUME IInv, OneProcess, RowsAlone, NEW p \in Workers, Cur(p) \in Requests, NEW release \in BOOLEAN,
         NEW why \in SUBSET Reasons, Throws(p, release, why), swap[Cur(p)] \notin Live,
         UNCHANGED <<conv, journal, chain>>
  PROVE  RowsAlone' /\ PlacesAlone'
<1>1. PICK y \in Place : Moved(p, y) /\ y.step = "fail" /\ y.r = Cur(p)
  BY ThrowsEffect DEF IInv
<1>2. AloneAt(y)
  BY <1>1 DEF AloneAt
<1> QED
  BY <1>1, <1>2, PlacedAlone

LEMMA ReadOutputAlone ==
  ASSUME IInv, OneProcess, Lossless, RowsAlone, PlacesAlone, NEW p \in Workers, ReadOutput(p)
  PROVE  RowsAlone' /\ PlacesAlone'
<1> DEFINE gross == Measured(Cur(p), worker[p].before)
           y == [worker[p] EXCEPT !.step = "settle", !.gross = gross]
<1>1. /\ Cur(p) \in Requests /\ worker[p] \in Place /\ worker[p].r = Cur(p)
      /\ swap[Cur(p)] = "mined" /\ worker[p].step = "read"
  BY AtWork DEF ReadOutput, At, PlaceOk
<1>2. UNCHANGED <<conv, journal, chain>>
  BY DEF ReadOutput
<1>3. CASE Reconciled(Cur(p), gross)
  <2>1. gross = brought[Cur(p)]
    <3>1. NetInflow(Terms(Cur(p)).to) = worker[p].before + Inflow(Cur(p), Terms(Cur(p)).to)
      BY <1>1 DEF PlacesAlone, AloneAt, Since
    <3>2. Inflow(Cur(p), Terms(Cur(p)).to) = brought[Cur(p)]
      BY <1>1 DEF Inflow
    <3>3. worker[p].before \in Int /\ brought[Cur(p)] \in Int
      BY <1>1 DEF Place, IInv, Types
    <3> QED
      BY <3>1, <3>2, <3>3 DEF Measured
  <2>2. worker' = [worker EXCEPT ![p] = y]
    BY <1>3 DEF ReadOutput
  <2>3. gross \in Int
    BY <1>1, <2>1 DEF IInv, Types
  <2> HIDE DEF gross
  <2>4. y \in Place /\ y.step = "settle" /\ y.r = Cur(p) /\ y.gross = gross
    BY <1>1, <2>3, StepsType DEF Place, Cur
  <2>5. Moved(p, y)
    BY <2>2, <2>4, MovedTo DEF IInv
  <2> HIDE DEF y
  <2>6. AloneAt(y)
    BY <2>1, <2>4 DEF AloneAt
  <2> QED
    BY <1>2, <2>4, <2>5, <2>6, PlacedAlone
<1>4. CASE ~Reconciled(Cur(p), gross)
  <2>1. Throws(p, FALSE, {})
    BY <1>4 DEF ReadOutput
  <2>2. swap[Cur(p)] \notin Live
    BY <1>1 DEF Live
  <2> QED
    BY <1>1, <1>2, <2>1, <2>2, ThrowsAlone
<1> QED
  BY <1>3, <1>4

\* Of the errors only those are left after which nothing is unknown.
LEMMA ErrorsAlone ==
  ASSUME IInv, OneProcess, RowsAlone, PlacesAlone, NEW p \in Workers,
         \A r \in Requests : window[r] = {} /\ window'[r] = {},
         \/ Unprepared(p) \/ ResumeThrows(p) \/ SendThrows(p) \/ RecordThrows(p)
         \/ UnexpectedSender(p) \/ SeeReverted(p) \/ ReadThrows(p) \/ SettleThrows(p)
  PROVE  RowsAlone' /\ PlacesAlone'
<1>1. ~At(p, "idle") /\ UNCHANGED <<conv, journal, chain>>
  BY DEF Unprepared, ResumeThrows, SendThrows, RecordThrows, UnexpectedSender, SeeReverted,
         ReadThrows, SettleThrows, At
<1>2. /\ Cur(p) \in Requests /\ worker[p].r = Cur(p)
      /\ PlaceOk(worker[p], conv[Cur(p)], swap[Cur(p)], brought[Cur(p)], window[Cur(p)])
      /\ RowOk(Cur(p), conv[Cur(p)], swap[Cur(p)], brought[Cur(p)], window[Cur(p)], journal)
  BY <1>1, AtWork
<1>3. ASSUME NEW why, Throws(p, TRUE, why), why \in SUBSET Reasons
      PROVE  why = {}
  <2>1. window'[Cur(p)] = window[Cur(p)] \cup why
    BY <1>2, <1>3, ThrowsEffect DEF IInv
  <2> QED
    BY <1>2, <2>1
<1>4. /\ \E release \in BOOLEAN, why \in SUBSET Reasons : Throws(p, release, why)
      /\ swap[Cur(p)] \notin Live
  <2>1. CASE Unprepared(p)
    BY <1>2, <2>1 DEF Unprepared, PlaceOk, At, Live
  <2>2. CASE ResumeThrows(p)
    BY <1>3, <2>2 DEF ResumeThrows, Reasons
  <2>3. CASE SendThrows(p)
    BY <1>3, <2>3 DEF SendThrows, Reasons
  <2>4. CASE RecordThrows(p)
    BY <1>3, <2>4 DEF RecordThrows, Reasons
  <2>5. CASE UnexpectedSender(p)
    BY <1>2, <2>5 DEF UnexpectedSender, PlaceOk, At, Live
  <2>6. CASE SeeReverted(p)
    BY <2>6 DEF SeeReverted, Live
  <2>7. CASE ReadThrows(p)
    BY <1>3, <2>7 DEF ReadThrows, Reasons
  <2>8. CASE SettleThrows(p)
    <3>1. Throws(p, TRUE, IF Terms(Cur(p)).reserve THEN {} ELSE {"late"})
      BY <2>8 DEF SettleThrows
    <3>2. Terms(Cur(p)).reserve
      BY <1>3, <3>1 DEF Reasons
    <3> QED
      BY <1>2, <3>1, <3>2 DEF RowOk, Live
  <2> QED
    BY <2>1, <2>2, <2>3, <2>4, <2>5, <2>6, <2>7, <2>8
<1> QED
  BY <1>1, <1>2, <1>4, ThrowsAlone

LEMMA FindAlone ==
  ASSUME IInv, OneProcess, RowsAlone, NEW p \in Workers, Find(p)
  PROVE  RowsAlone' /\ PlacesAlone'
<1> DEFINE o == OldestPending
           y == [Idle EXCEPT !.step = "found", !.r = o]
<1>1. Pending # {} /\ Types
  BY DEF Find, IInv
<1>2. o \in Pending /\ \A s \in Pending : conv[o].at <= conv[s].at
  BY <1>1, OldestFound
<1>3. o \in Requests /\ conv[o].status = "PENDING" /\ OldestOf(o)
  BY <1>2 DEF Pending, OldestOf
<1>4. worker' = [worker EXCEPT ![p] = y]
  BY DEF Find
<1> HIDE DEF o
<1>5. y \in Place /\ y.step = "found" /\ y.r = o
  <2>1. Idle \in Place /\ "found" \in Steps
    BY DEF Idle, Place, Steps
  <2> QED
    BY <1>3, <2>1 DEF Place
<1> HIDE DEF y
<1>6. Moved(p, y) /\ AloneAt(y)
  BY <1>3, <1>4, <1>5, MovedTo DEF IInv, AloneAt
<1> QED
  BY <1>5, <1>6, PlacedAlone DEF Find

LEMMA AbandonAlone ==
  ASSUME IInv, OneProcess, RowsAlone, NEW p \in Workers, Ends(p), UNCHANGED <<conv, journal, chain>>
  PROVE  RowsAlone' /\ PlacesAlone'
  BY IdleAlone, EndsEffect, PlacedAlone DEF IInv

\* A step of the process that changes the row of its conversion.
LEMMA HisRowAlone ==
  ASSUME IInv, Types', OneProcess, RowsAlone, NEW p \in Workers, ~At(p, "idle"), ~At(p, "found"),
         NEW r \in Requests, r = Cur(p), conv[r].status = "EXECUTING",
         UNCHANGED brought, swap'[r] = "mined" <=> swap[r] = "mined",
         \A s \in Requests \ {r} : /\ conv'[s] = conv[s] /\ swap'[s] = swap[s]
                                   /\ journal'[<<"trade", s>>] = journal[<<"trade", s>>],
         conv'[r].at = conv[r].at,
         swap'[r] \in Live => Underway(r)',
         Underway(r)' /\ conv'[r].hash => Since(r, conv'[r].before),
         conv'[r].status = "FILLED" /\ ~Terms(r).reserve =>
           journal'[<<"trade", r>>] = TradeEntries(r, brought[r]),
         NEW y \in Place, Moved(p, y), y.step \notin {"found", "settle"},
         y.step \in {"send", "sending", "record", "wait", "read"} => y.r = r /\ Since(r, y.before),
         y.step = "fail" => y.r = r /\ swap'[r] \notin Live
  PROVE  RowsAlone' /\ PlacesAlone'
<1>1. \A a : NetInflow(a)' = NetInflow(a) /\ \A s \in Requests : Inflow(s, a)' = Inflow(s, a)
  <2>1. \A s \in Requests : swap'[s] = "mined" <=> swap[s] = "mined"
    OBVIOUS
  <2> QED
    BY <2>1, InflowKept
<1>2. /\ OldestOf(r)
      /\ \A s \in Requests \ {r} : ~Underway(s) /\ ~Underway(s)'
  <2>1. Underway(r) /\ \A s \in Requests : Underway(s) => s = r
    BY OnlyHis
  <2>2. \A s \in Requests \ {r} : Underway(s)' <=> Underway(s)
    BY DEF Underway
  <2> QED
    BY <2>1, <2>2 DEF RowsAlone
<1>3. OldestOf(r)'
  <2> SUFFICES ASSUME NEW s \in Requests, conv'[s].status = "PENDING"
               PROVE  conv'[r].at <= conv'[s].at
    BY DEF OldestOf
  <2>1. CASE s = r
    <3>1. conv'[r].at \in Nat
      BY DEF Types, Row
    <3> QED
      BY <2>1, <3>1
  <2>2. CASE s # r
    BY <1>2, <2>2 DEF OldestOf
  <2> QED
    BY <2>1, <2>2
<1>4. ASSUME NEW s \in Requests \ {r}
      PROVE  /\ swap'[s] \notin Live
             /\ conv'[s].status = "FILLED" /\ ~Terms(s).reserve =>
                  journal'[<<"trade", s>>] = TradeEntries(s, brought'[s])
  BY <1>2 DEF RowsAlone
<1>5. Underway(r)' /\ conv'[r].hash => Since(r, conv[r].before)'
  BY <1>1 DEF Since
<1>6. RowsAlone'
  BY <1>2, <1>3, <1>4, <1>5 DEF RowsAlone
<1>7. PlacesAlone'
  <2> SUFFICES ASSUME NEW q \in Workers
               PROVE  AloneAt(worker[q])'
    BY DEF PlacesAlone
  <2>1. worker'[q] = y
    BY DEF OneProcess, Moved
  <2>2. y.step \in {"send", "sending", "record", "wait", "read"} =>
          NetInflow(Terms(y.r).to)' = y.before + Inflow(y.r, Terms(y.r).to)'
    BY <1>1 DEF Since
  <2> QED
    BY <2>1, <2>2 DEF AloneAt, Since
<1> QED
  BY <1>6, <1>7

LEMMA RecordHashAlone ==
  ASSUME IInv, IInv', OneProcess, RowsAlone, PlacesAlone, NEW p \in Workers, RecordHash(p)
  PROVE  RowsAlone' /\ PlacesAlone'
<1>0. PICK r : r = Cur(p)
  OBVIOUS
<1>1. /\ ~At(p, "idle") /\ ~At(p, "found") /\ r \in Requests /\ conv[r].status = "EXECUTING"
      /\ worker[p] \in Place /\ worker[p].step = "record"
  BY <1>0, AtWork DEF RecordHash, At, PlaceOk
<1>2. PICK y \in Place : Moved(p, y) /\ y.step = "wait" /\ y.r = r /\ y.before = worker[p].before
  BY <1>0, StepsType, GoesEffect DEF IInv, RecordHash
<1>3. conv \in [Requests -> Row] /\ conv[r] \in Row
  BY <1>1 DEF IInv, Types
<1>4. /\ conv'[r].at = conv[r].at /\ conv'[r].status = "EXECUTING" /\ conv'[r].before = worker[p].before
      /\ \A s \in Requests \ {r} : conv'[s] = conv[s]
  BY <1>0, <1>1, <1>3 DEF RecordHash, Row
<1>5. Since(r, worker[p].before)
  BY <1>0, <1>1 DEF PlacesAlone, AloneAt, Cur
<1>6. Underway(r)'
  BY <1>4 DEF Underway
<1>7. UNCHANGED <<journal, swap, brought>>
  BY DEF RecordHash, chain
<1> QED
  BY <1>0, <1>1, <1>2, <1>4, <1>5, <1>6, <1>7, HisRowAlone DEF IInv

LEMMA SendAlone ==
  ASSUME IInv, IInv', OneProcess, RowsAlone, PlacesAlone, NEW p \in Workers, Send(p)
  PROVE  RowsAlone' /\ PlacesAlone'
<1>0. PICK r : r = Cur(p)
  OBVIOUS
<1>1. /\ ~At(p, "idle") /\ ~At(p, "found") /\ r \in Requests /\ conv[r].status = "EXECUTING"
      /\ worker[p].step = "send" /\ swap[r] = "none" /\ ~conv[r].hash
  BY <1>0, AtWork DEF Send, At, PlaceOk
<1>2. PICK y \in Place : Moved(p, y) /\ y.step = "sending" /\ y.r = r /\ y.before = worker[p].before
  BY <1>0, StepsType, GoesEffect DEF IInv, Send
<1>3. swap'[r] = "asked" /\ \A s \in Requests \ {r} : swap'[s] = swap[s]
  BY <1>0, <1>1 DEF Send, IInv, Types
<1>4. Since(r, worker[p].before)
  BY <1>0, <1>1 DEF PlacesAlone, AloneAt, Cur
<1>5. UNCHANGED <<conv, journal, brought>>
  BY DEF Send
<1>6. Underway(r)'
  BY <1>1, <1>5 DEF Underway
<1> QED
  BY <1>0, <1>1, <1>2, <1>3, <1>4, <1>5, <1>6, HisRowAlone DEF IInv

LEMMA SendRefusedAlone ==
  ASSUME IInv, IInv', OneProcess, RowsAlone, PlacesAlone, NEW p \in Workers, SendRefused(p)
  PROVE  RowsAlone' /\ PlacesAlone'
<1>0. PICK r : r = Cur(p)
  OBVIOUS
<1>1. /\ ~At(p, "idle") /\ ~At(p, "found") /\ r \in Requests /\ conv[r].status = "EXECUTING"
      /\ ~conv[r].hash
  BY <1>0, AtWork DEF SendRefused, At, PlaceOk
<1>2. PICK y \in Place : Moved(p, y) /\ y.step = "fail" /\ y.r = r
  BY <1>0, <1>1, ThrowsEffect DEF IInv, SendRefused
<1>3. swap[r] = "asked" /\ swap'[r] = "none" /\ \A s \in Requests \ {r} : swap'[s] = swap[s]
  BY <1>0, <1>1 DEF SendRefused, IInv, Types
<1>4. UNCHANGED <<conv, journal, brought>>
  BY DEF SendRefused
<1>5. swap'[r] \notin Live
  BY <1>3 DEF Live
<1> QED
  BY <1>0, <1>1, <1>2, <1>3, <1>4, <1>5, HisRowAlone DEF IInv

LEMMA SettleAlone ==
  ASSUME IInv, IInv', OneProcess, RowsAlone, PlacesAlone, NEW p \in Workers,
         Settle(p) \/ SettleReplyLost(p)
  PROVE  RowsAlone' /\ PlacesAlone'
<1>0. PICK r : r = Cur(p)
  OBVIOUS
<1>1. /\ ~At(p, "idle") /\ ~At(p, "found") /\ r \in Requests /\ conv[r].status = "EXECUTING"
      /\ worker[p].step = "settle" /\ worker[p].r = r
      /\ ~Terms(r).reserve => swap[r] = "mined"
  BY <1>0, AtWork DEF Settle, SettleReplyLost, At, PlaceOk
<1>2. swap[r] \notin Live
  <2>1. Terms(r).reserve => swap[r] = "none"
    BY <1>1 DEF IInv, RowsOk, RowOk
  <2> QED
    BY <1>1, <2>1 DEF Live
<1>3. PICK y \in Place : Moved(p, y) /\ (y.step = "idle" \/ (y.step = "fail" /\ y.r = r))
  <2>1. CASE Settle(p)
    <3>1. Moved(p, Idle)
      BY <2>1, EndsEffect DEF IInv, Settle
    <3>2. Idle \in Place /\ Idle.step = "idle"
      BY DEF Idle, Place, Steps
    <3> QED
      BY <3>1, <3>2
  <2>2. CASE SettleReplyLost(p)
    BY <1>0, <1>1, <2>2, ThrowsEffect DEF IInv, SettleReplyLost
  <2> QED
    BY <2>1, <2>2
<1>4. At(p, "settle") /\ SettleConversion(Cur(p), worker[p].gross) /\ UNCHANGED <<swap, brought>>
  BY DEF Settle, SettleReplyLost, chain
<1>5. /\ conv'[r].status = "FILLED" /\ conv'[r].at = conv[r].at
      /\ \A s \in Requests \ {r} : /\ conv'[s] = conv[s]
                                   /\ \A op \in Ops : journal'[<<op, s>>] = journal[<<op, s>>]
      /\ journal'[<<"trade", r>>] = TradeEntries(r, worker[p].gross)
  BY <1>0, <1>4, SettleEffect
<1>6. ~Terms(r).reserve => worker[p].gross = brought[r]
  BY <1>1 DEF PlacesAlone, AloneAt
<1>7. ~Underway(r)'
  BY <1>5 DEF Underway
<1>8. \A s \in Requests \ {r} : journal'[<<"trade", s>>] = journal[<<"trade", s>>]
  BY <1>5 DEF Ops
<1> QED
  BY <1>0, <1>1, <1>2, <1>3, <1>4, <1>5, <1>6, <1>7, <1>8, HisRowAlone DEF IInv

LEMMA FailConversionAlone ==
  ASSUME IInv, IInv', OneProcess, RowsAlone, PlacesAlone, NEW p \in Workers, FailConversion(p)
  PROVE  RowsAlone' /\ PlacesAlone'
<1>0. PICK r : r = Cur(p)
  OBVIOUS
<1>1. /\ ~At(p, "idle") /\ ~At(p, "found") /\ r \in Requests /\ conv[r].status \in {"EXECUTING", "FILLED"}
      /\ worker[p].step = "fail" /\ worker[p].r = r
  BY <1>0, AtWork DEF FailConversion, At, PlaceOk
<1>2. swap[r] \notin Live
  BY <1>1 DEF PlacesAlone, AloneAt
<1>3. Moved(p, Idle) /\ UNCHANGED <<swap, brought>>
  BY EndsEffect DEF IInv, FailConversion, chain
<1>4. CASE conv[r].status = "FILLED"
  <2>1. UNCHANGED <<conv, journal>>
    BY <1>0, <1>4 DEF FailConversion, Closed
  <2> QED
    BY <1>3, <2>1, IdleAlone, PlacedAlone DEF chain
<1>5. CASE conv[r].status = "EXECUTING"
  <2>1. /\ conv' = [conv EXCEPT ![r].status = "FAILED"]
        /\ \/ UNCHANGED journal
           \/ journal' = Record(journal, <<"release", r>>, ReleaseEntries(r))
    BY <1>0, <1>5 DEF FailConversion, Closed
  <2>2. conv \in [Requests -> Row] /\ conv[r] \in Row
    BY <1>1 DEF IInv, Types
  <2>3. /\ conv'[r].status = "FAILED" /\ conv'[r].at = conv[r].at
        /\ \A s \in Requests \ {r} : conv'[s] = conv[s]
    BY <1>1, <2>1, <2>2 DEF Row
  <2>4. \A s \in Requests : journal'[<<"trade", s>>] = journal[<<"trade", s>>]
    <3>1. "release" \in Ops /\ "trade" \in Ops /\ MayPost("release", r, ReleaseEntries(r)) /\ Entered(journal)
      BY DEF Ops, MayPost, IInv
    <3>2. \A s \in Requests :
            Record(journal, <<"release", r>>, ReleaseEntries(r))[<<"trade", s>>] = journal[<<"trade", s>>]
      BY <1>1, <3>1, RecordKeys
    <3> QED
      BY <2>1, <3>2
  <2>5. ~Underway(r)'
    BY <2>3 DEF Underway
  <2>6. Idle \in Place /\ Idle.step = "idle"
    BY DEF Idle, Place, Steps
  <2> QED
    BY <1>0, <1>1, <1>2, <1>3, <1>5, <2>3, <2>4, <2>5, <2>6, HisRowAlone DEF IInv
<1> QED
  BY <1>1, <1>4, <1>5

LEMMA DeferAlone ==
  ASSUME IInv, IInv', OneProcess, RowsAlone, PlacesAlone, NEW p \in Workers, Defer(p)
  PROVE  RowsAlone' /\ PlacesAlone'
<1>0. PICK r : r = Cur(p)
  OBVIOUS
<1>1. /\ ~At(p, "idle") /\ ~At(p, "found") /\ r \in Requests /\ conv[r].status = "EXECUTING"
      /\ conv[r].hash \/ swap[r] = "none"
  BY <1>0, AtWork DEF Defer, At, PlaceOk
<1>2. Moved(p, Idle) /\ UNCHANGED <<swap, brought, journal>>
  BY EndsEffect DEF IInv, Defer, chain
<1>3. conv \in [Requests -> Row] /\ conv[r] \in Row
  BY <1>1 DEF IInv, Types
<1>4. /\ conv'[r].status = "PENDING" /\ conv'[r].at = conv[r].at
      /\ conv'[r].hash = conv[r].hash /\ conv'[r].before = conv[r].before
      /\ \A s \in Requests \ {r} : conv'[s] = conv[s]
  BY <1>0, <1>1, <1>3 DEF Defer, Row
<1>5. conv[r].hash => Since(r, conv'[r].before)
  BY <1>1, <1>4 DEF RowsAlone, Underway
<1>6. swap'[r] \in Live => Underway(r)'
  BY <1>1, <1>2, <1>4 DEF Underway, Live
<1>7. Idle \in Place /\ Idle.step = "idle"
  BY DEF Idle, Place, Steps
<1> QED
  BY <1>0, <1>1, <1>2, <1>4, <1>5, <1>6, <1>7, HisRowAlone DEF IInv

\* Nothing is under way when the only process has nothing claimed.
LEMMA ClaimAlone ==
  ASSUME IInv, IInv', Ordered, OneProcess, Lossless, RowsAlone, PlacesAlone, NEW p \in Workers, Claim(p)
  PROVE  RowsAlone' /\ PlacesAlone'
<1>0. PICK r : r = Cur(p)
  OBVIOUS
<1>1. /\ r \in Requests /\ conv[r].status = "PENDING" /\ OldestOf(r)
  BY <1>0, AtWork DEF Claim, At, PlacesAlone, AloneAt, Cur
<1>2. PICK y \in Place : Moved(p, y) /\ y.step = "start"
  BY <1>0, <1>1, StepsType, GoesEffect DEF IInv, Claim, Claimable
<1>3. conv \in [Requests -> Row] /\ conv[r] \in Row
  BY <1>1 DEF IInv, Types
<1>4. /\ conv'[r].status = "EXECUTING" /\ conv'[r].at = conv[r].at
      /\ conv'[r].hash = conv[r].hash /\ conv'[r].before = conv[r].before
      /\ \A s \in Requests \ {r} : conv'[s] = conv[s]
  BY <1>0, <1>1, <1>3 DEF Claim, Claimable, Row
<1>5. UNCHANGED <<journal, swap, brought>>
  BY DEF Claim, chain
<1>6. ASSUME NEW s \in Requests \ {r}
      PROVE  ~Underway(s)
  <2> SUFFICES ASSUME Underway(s)
               PROVE  FALSE
    OBVIOUS
  <2>1. CASE conv[s].status = "EXECUTING"
    <3>1. PICK q \in Workers : Busy(q, s)
      BY <2>1 DEF IInv, Attended, Lossless, Lost
    <3> QED
      BY <1>0, <3>1 DEF OneProcess, Busy, Claim
  <2>2. CASE conv[s].status = "PENDING"
    <3>1. conv[s].at <= conv[r].at /\ conv[r].at <= conv[s].at
      BY <1>1, <2>2 DEF RowsAlone, OldestOf
    <3>2. conv[s].at \in Nat /\ conv[r].at \in Nat
      BY <1>1 DEF IInv, Types, Row
    <3>3. s \in Rows /\ r \in Rows
      BY <1>1, <2>2 DEF Rows
    <3> QED
      BY <3>1, <3>2, <3>3 DEF Ordered
  <2> QED
    BY <2>1, <2>2 DEF Underway
<1>7. \A s \in Requests \ {r} : ~Underway(s)'
  BY <1>4, <1>6 DEF Underway
<1>8. Underway(r)' /\ OldestOf(r)'
  BY <1>1, <1>4 DEF Underway, OldestOf
<1>9. \A a : NetInflow(a)' = NetInflow(a) /\ \A s \in Requests : Inflow(s, a)' = Inflow(s, a)
  BY <1>5, InflowKept
<1>10. conv[r].hash => Since(r, conv[r].before)'
  <2>1. conv[r].hash => Since(r, conv[r].before)
    BY <1>1 DEF RowsAlone, Underway
  <2> QED
    BY <1>1, <1>4, <1>9, <2>1 DEF Since
<1>11. RowsAlone'
  <2> SUFFICES ASSUME NEW s \in Requests
               PROVE  /\ swap'[s] \in Live => Underway(s)'
                      /\ Underway(s)' => OldestOf(s)' /\ \A t \in Requests : Underway(t)' => t = s
                      /\ Underway(s)' /\ conv'[s].hash => Since(s, conv[s].before)'
                      /\ conv'[s].status = "FILLED" /\ ~Terms(s).reserve =>
                           journal'[<<"trade", s>>] = TradeEntries(s, brought'[s])
    BY DEF RowsAlone
  <2>1. CASE s = r
    BY <1>4, <1>7, <1>8, <1>10, <2>1
  <2>2. CASE s # r
    BY <1>4, <1>5, <1>6, <1>7, <2>2 DEF RowsAlone
  <2> QED
    BY <2>1, <2>2
<1>12. PlacesAlone'
  <2>1. \A q \in Workers : worker'[q] = y
    BY <1>2 DEF OneProcess, Moved
  <2> QED
    BY <1>2, <2>1 DEF PlacesAlone, AloneAt
<1> QED
  BY <1>11, <1>12

LEMMA RequestsAlone ==
  ASSUME RowsAlone, PlacesAlone,
         \/ \E q \in Quotes : CreateQuote(q) \/ Expire(q)
         \/ \E r \in Requests : LookUp(r) \/ Refuse(r)
  PROVE  RowsAlone' /\ PlacesAlone'
<1>1. UNCHANGED <<conv, journal, worker, swap, brought>>
  BY DEF CreateQuote, Expire, LookUp, Refuse, chain
<1> QED
  BY <1>1 DEF RowsAlone, PlacesAlone, AloneAt, Underway, OldestOf, Since, NetInflow, Inflow

LEMMA ExecuteAlone ==
  ASSUME IInv, IInv', Ordered, OneProcess, RowsAlone, PlacesAlone, NEW r \in Requests, Execute(r)
  PROVE  RowsAlone' /\ PlacesAlone'
<1>1. /\ r \notin Rows /\ conv'[r].at = Cardinality(Rows) + 1
      /\ conv'[r].status = "PENDING" /\ ~conv'[r].hash
      /\ \A s \in Requests \ {r} : conv'[s] = conv[s]
  BY ExecuteAges
<1>2. UNCHANGED <<worker, swap, brought>>
  BY DEF Execute, chain
<1>3. \A s \in Requests \ {r} : journal'[<<"trade", s>>] = journal[<<"trade", s>>]
  <2>1. "reserve" \in Ops /\ "trade" \in Ops /\ MayPost("reserve", r, ReserveEntries(r)) /\ Entered(journal)
    BY DEF Ops, MayPost, IInv
  <2>2. \A s \in Requests :
          Record(journal, <<"reserve", r>>, ReserveEntries(r))[<<"trade", s>>] = journal[<<"trade", s>>]
    BY <2>1, RecordKeys
  <2> QED
    BY <2>2 DEF Execute
<1>4. conv[r].status = "ABSENT" /\ swap[r] = "none"
  BY <1>1 DEF Rows, IInv, RowsOk, RowOk
<1>5. ASSUME NEW s \in Requests \ {r}, conv[s].status # "ABSENT", OldestOf(s)
      PROVE  OldestOf(s)'
  <2>1. s \in Rows
    BY <1>5 DEF Rows
  <2>2. PICK n \in Nat : n = Cardinality(Rows)
    BY RowsFinite
  <2>3. conv[s].at \in 1..n
    BY <2>1, <2>2 DEF Ordered
  <2>4. conv'[s].at <= conv'[r].at
    BY <1>1, <2>2, <2>3
  <2> QED
    BY <1>1, <1>5, <2>4 DEF OldestOf
<1>6. ~Underway(r) /\ ~Underway(r)' /\ \A s \in Requests \ {r} : Underway(s)' <=> Underway(s)
  BY <1>1, <1>4 DEF Underway
<1>7. \A a : NetInflow(a)' = NetInflow(a) /\ \A s \in Requests : Inflow(s, a)' = Inflow(s, a)
  BY <1>2, InflowKept
<1>8. RowsAlone'
  <2> SUFFICES ASSUME NEW s \in Requests
               PROVE  /\ swap'[s] \in Live => Underway(s)'
                      /\ Underway(s)' => OldestOf(s)' /\ \A t \in Requests : Underway(t)' => t = s
                      /\ Underway(s)' /\ conv'[s].hash => Since(s, conv[s].before)'
                      /\ conv'[s].status = "FILLED" /\ ~Terms(s).reserve =>
                           journal'[<<"trade", s>>] = TradeEntries(s, brought'[s])
    BY DEF RowsAlone
  <2>1. CASE s = r
    BY <1>1, <1>2, <1>4, <1>6, <2>1 DEF Live
  <2>2. CASE s # r
    <3>1. Underway(s)' => OldestOf(s)' /\ \A t \in Requests : Underway(t)' => t = s
      <4>1. Underway(s) => conv[s].status # "ABSENT"
        BY DEF Underway
      <4> QED
        BY <1>5, <1>6, <2>2, <4>1 DEF RowsAlone
    <3>2. Underway(s)' /\ conv'[s].hash => Since(s, conv[s].before)'
      BY <1>1, <1>6, <1>7, <2>2 DEF RowsAlone, Since
    <3> QED
      BY <1>1, <1>2, <1>3, <1>6, <2>2, <3>1, <3>2 DEF RowsAlone
  <2> QED
    BY <2>1, <2>2
<1>9. PlacesAlone'
  <2> SUFFICES ASSUME NEW p \in Workers
               PROVE  AloneAt(worker[p])'
    BY DEF PlacesAlone
  <2>1. AloneAt(worker[p]) /\ worker'[p] = worker[p]
    BY <1>2 DEF PlacesAlone
  <2>2. worker[p].step = "found" => conv'[worker[p].r].status = "PENDING" /\ OldestOf(worker[p].r)'
    <3> SUFFICES ASSUME worker[p].step = "found"
                 PROVE  conv'[worker[p].r].status = "PENDING" /\ OldestOf(worker[p].r)'
      OBVIOUS
    <3>1. PICK s : s = worker[p].r
      OBVIOUS
    <3>2. s \in Requests /\ conv[s].status = "PENDING" /\ OldestOf(s)
      BY <2>1, <3>1, AtWork DEF AloneAt, At, Cur
    <3>3. s # r
      BY <1>4, <3>2
    <3>4. OldestOf(s)' /\ conv'[s].status = "PENDING"
      BY <1>1, <1>5, <3>2, <3>3
    <3> QED
      BY <1>2, <3>1, <3>4
  <2>3. worker[p].step \in {"send", "sending", "record", "wait", "read"} => Since(worker[p].r, worker[p].before)'
    <3> SUFFICES ASSUME worker[p].step \in {"send", "sending", "record", "wait", "read"}
                 PROVE  Since(worker[p].r, worker[p].before)'
      OBVIOUS
    <3>1. Cur(p) \in Requests /\ Since(worker[p].r, worker[p].before)
      BY <2>1, AtWork DEF AloneAt, At
    <3> QED
      BY <1>2, <1>7, <3>1 DEF Since, Cur
  <2> QED
    BY <1>2, <2>1, <2>2, <2>3 DEF AloneAt
<1> QED
  BY <1>8, <1>9

LEMMA ChainGains ==
  ASSUME Types, Types', NEW r \in Requests,
         \A s \in Requests \ {r} : swap'[s] = swap[s] /\ brought'[s] = brought[s],
         NEW a
  PROVE  NetInflow(a)' = NetInflow(a) + (Inflow(r, a)' - Inflow(r, a))
<1> DEFINE f == [s \in Requests |-> Inflow(s, a)]
           g == [s \in Requests |-> Inflow(s, a)']
<1>1. \A s \in Requests : Inflow(s, a) \in Int
  BY NetInflowType
<1>2. \A s \in Requests : Inflow(s, a)' \in Int
  <2> SUFFICES ASSUME NEW s \in Requests
               PROVE  Inflow(s, a)' \in Int
    OBVIOUS
  <2>1. brought'[s] \in Int /\ 0 - Terms(s).amount \in Int
    BY TermsType DEF Types
  <2> QED
    BY <2>1 DEF Inflow
<1>3. Summable(f) /\ Summable(g) /\ DOMAIN f = Requests /\ DOMAIN g = Requests
  BY <1>1, <1>2, ConversionsAssumption DEF Summable
<1>4. \A s \in Requests \ {r} : g[s] = f[s]
  BY DEF Inflow
<1>5. f[r] = Inflow(r, a) /\ g[r] = Inflow(r, a)'
  OBVIOUS
<1>6. NetInflow(a) = SumOver(f) /\ NetInflow(a)' = SumOver(g)
  BY DEF NetInflow
<1> HIDE DEF f, g
<1>7. SumOver(g) = SumOver(f) + (g[r] - f[r])
  BY <1>3, <1>4, SumChange
<1> QED
  BY <1>5, <1>6, <1>7

LEMMA ChainAlone ==
  ASSUME IInv, IInv', OneProcess, RowsAlone, PlacesAlone, Chain
  PROVE  RowsAlone' /\ PlacesAlone'
<1>1. PICK r \in Requests :
        /\ \/ swap[r] = "asked" /\ swap' = [swap EXCEPT ![r] = "accepted"] /\ UNCHANGED brought
           \/ swap[r] = "accepted" /\ swap' = [swap EXCEPT ![r] = "reverted"] /\ UNCHANGED brought
           \/ /\ swap[r] = "accepted" /\ swap' = [swap EXCEPT ![r] = "mined"]
              /\ \E n \in Outputs : brought' = [brought EXCEPT ![r] = n]
        /\ UNCHANGED <<users, conv, journal, worker, window, orphan, faults>>
  BY DEF Chain, Accept, Revert, Mine, OnChain
<1>2. /\ swap[r] \in Live
      /\ \A s \in Requests \ {r} : swap'[s] = swap[s] /\ brought'[s] = brought[s]
  BY <1>1 DEF IInv, Types, Live
<1>3. Underway(r) /\ \A s \in Requests : Underway(s) => s = r
  BY <1>2 DEF RowsAlone
<1>4. ASSUME NEW b \in Int, Since(r, b)
      PROVE  Since(r, b)'
  <2>1. NetInflow(Terms(r).to)'
          = NetInflow(Terms(r).to) + (Inflow(r, Terms(r).to)' - Inflow(r, Terms(r).to))
    BY <1>2, ChainGains DEF IInv
  <2>2. Inflow(r, Terms(r).to) \in Int
    BY NetInflowType DEF IInv
  <2>3. Inflow(r, Terms(r).to)' \in Int
    <3>1. brought'[r] \in Int /\ 0 - Terms(r).amount \in Int
      BY TermsType DEF IInv, Types
    <3> QED
      BY <3>1 DEF Inflow
  <2> QED
    BY <1>4, <2>1, <2>2, <2>3 DEF Since
<1>5. RowsAlone'
  <2> SUFFICES ASSUME NEW s \in Requests
               PROVE  /\ swap'[s] \in Live => Underway(s)'
                      /\ Underway(s)' => OldestOf(s)' /\ \A t \in Requests : Underway(t)' => t = s
                      /\ Underway(s)' /\ conv'[s].hash => Since(s, conv[s].before)'
                      /\ conv'[s].status = "FILLED" /\ ~Terms(s).reserve =>
                           journal'[<<"trade", s>>] = TradeEntries(s, brought'[s])
    BY DEF RowsAlone
  <2>1. \A t \in Requests : Underway(t)' <=> Underway(t)
    BY <1>1 DEF Underway
  <2>2. OldestOf(s)' <=> OldestOf(s)
    BY <1>1 DEF OldestOf
  <2>3. CASE s = r
    <3>1. conv[r].hash => Since(r, conv[r].before)'
      <4>1. conv[r].before \in Int
        BY DEF IInv, Types, Row
      <4>2. conv[r].hash => Since(r, conv[r].before)
        BY <1>3 DEF RowsAlone
      <4>3. PICK b \in Int : b = conv[r].before
        BY <4>1
      <4>4. conv[r].hash => Since(r, b)'
        BY <1>4, <4>2, <4>3
      <4> QED
        BY <1>1, <4>3, <4>4 DEF Since
    <3>2. conv[r].status # "FILLED"
      BY <1>3 DEF Underway
    <3> QED
      BY <1>1, <1>3, <2>1, <2>2, <2>3, <3>1, <3>2 DEF RowsAlone
  <2>4. CASE s # r
    <3>1. ~Underway(s)
      BY <1>3, <2>4
    <3> QED
      BY <1>1, <1>2, <2>1, <2>4, <3>1 DEF RowsAlone
  <2> QED
    BY <2>3, <2>4
<1>6. PlacesAlone'
  <2> SUFFICES ASSUME NEW p \in Workers
               PROVE  AloneAt(worker[p])'
    BY DEF PlacesAlone
  <2>1. AloneAt(worker[p]) /\ worker'[p] = worker[p]
    BY <1>1 DEF PlacesAlone
  <2>2. worker[p].step = "found" => conv'[worker[p].r].status = "PENDING" /\ OldestOf(worker[p].r)'
    BY <1>1, <2>1 DEF AloneAt, OldestOf
  <2>3. worker[p].step \in {"send", "sending", "record", "wait", "read"} => Since(worker[p].r, worker[p].before)'
    <3> SUFFICES ASSUME worker[p].step \in {"send", "sending", "record", "wait", "read"}
                 PROVE  Since(worker[p].r, worker[p].before)'
      OBVIOUS
    <3>1. /\ Cur(p) \in Requests /\ Since(worker[p].r, worker[p].before) /\ worker[p] \in Place
          /\ conv[Cur(p)].status = "EXECUTING"
      BY <2>1, AtWork DEF AloneAt, At, PlaceOk
    <3>2. worker[p].r = r
      BY <1>3, <3>1 DEF Underway, Cur
    <3>3. PICK b \in Int : b = worker[p].before
      BY <3>1 DEF Place
    <3>4. Since(r, b)'
      BY <1>4, <3>1, <3>2, <3>3
    <3> QED
      BY <1>1, <3>2, <3>3, <3>4 DEF Since
  <2>4. worker[p].step = "settle" /\ ~Terms(worker[p].r).reserve => worker[p].gross = brought'[worker[p].r]
    <3> SUFFICES ASSUME worker[p].step = "settle", ~Terms(worker[p].r).reserve
                 PROVE  worker[p].gross = brought'[worker[p].r]
      OBVIOUS
    <3>1. Cur(p) \in Requests /\ worker[p].r = Cur(p) /\ swap[Cur(p)] = "mined"
      BY AtWork DEF At, PlaceOk
    <3>2. Cur(p) # r
      BY <1>2, <3>1 DEF Live
    <3> QED
      BY <1>2, <2>1, <3>1, <3>2 DEF AloneAt
  <2>5. worker[p].step = "fail" => swap'[worker[p].r] \notin Live
    <3> SUFFICES ASSUME worker[p].step = "fail"
                 PROVE  swap'[worker[p].r] \notin Live
      OBVIOUS
    <3>1. Cur(p) \in Requests /\ worker[p].r = Cur(p) /\ swap[Cur(p)] \notin Live
      BY <2>1, AtWork DEF At, AloneAt
    <3>2. Cur(p) # r
      BY <1>2, <3>1
    <3> QED
      BY <1>2, <3>1, <3>2
  <2> QED
    BY <2>1, <2>2, <2>3, <2>4, <2>5 DEF AloneAt
<1> QED
  BY <1>5, <1>6

\* At most one swap is under way, and the wallet's gain since it was prepared is its own.
LEMMA AloneInv ==
  ASSUME IInv, IInv', Ordered, Alone, Next
  PROVE  Alone'
<1> SUFFICES ASSUME OneProcess, Lossless'
             PROVE  RowsAlone' /\ PlacesAlone'
  BY DEF Alone, OneProcess
<1>1. /\ Lossless
      /\ \A r \in Requests : window[r] = {} /\ window'[r] = {} /\ r \notin orphan /\ r \notin orphan'
  BY LosslessBefore
<1>2. RowsAlone /\ PlacesAlone
  BY <1>1 DEF Alone
<1>3. CASE \/ \E q \in Quotes : CreateQuote(q) \/ Expire(q)
           \/ \E r \in Requests : LookUp(r) \/ Refuse(r)
  BY <1>2, <1>3, RequestsAlone
<1>4. ASSUME NEW r \in Requests, Execute(r)
      PROVE  RowsAlone' /\ PlacesAlone'
  BY <1>2, <1>4, ExecuteAlone
<1>5. ASSUME NEW p \in Workers, Process(p) \/ Failure(p)
      PROVE  RowsAlone' /\ PlacesAlone'
  <2>1. CASE Find(p) \/ Claim(p)
    BY <1>1, <1>2, <2>1, FindAlone, ClaimAlone
  <2>2. CASE Abandon(p)
    <3>1. Ends(p) /\ UNCHANGED <<conv, journal, chain>>
      BY <2>2 DEF Abandon
    <3> QED
      BY <1>2, <3>1, AbandonAlone
  <2>3. CASE ServeFromReserve(p) \/ Prepare(p) \/ Resume(p) \/ ReadOutput(p)
    BY <1>1, <1>2, <2>3, ServeFromReserveAlone, PrepareAlone, ResumeAlone, ReadOutputAlone
  <2>4. CASE Send(p) \/ RecordHash(p) \/ SendRefused(p) \/ FailConversion(p) \/ Defer(p)
    BY <1>2, <2>4, SendAlone, RecordHashAlone, SendRefusedAlone, FailConversionAlone, DeferAlone
  <2>5. CASE Settle(p) \/ SettleReplyLost(p)
    BY <1>2, <2>5, SettleAlone
  <2>6. CASE ApprovalPending(p) \/ SendReturns(p) \/ SeeMined(p) \/ StillPending(p) \/ Unanswered(p)
    BY <1>1, <1>2, <2>6, GoesAlone
  <2>7. CASE \/ Unprepared(p) \/ ResumeThrows(p) \/ SendThrows(p) \/ RecordThrows(p)
             \/ UnexpectedSender(p) \/ SeeReverted(p) \/ ReadThrows(p) \/ SettleThrows(p)
    BY <1>1, <1>2, <2>7, ErrorsAlone
  <2> QED
    BY <1>5, <2>1, <2>2, <2>3, <2>4, <2>5, <2>6, <2>7 DEF Process, Failure
<1>6. CASE Chain
  BY <1>2, <1>6, ChainAlone
<1> QED
  BY <1>3, <1>4, <1>5, <1>6 DEF Next, Endpoint

\* What is mined has brought something.
Delivered == \A r \in Requests : swap[r] = "mined" => brought[r] \in Nat \ {0}

LEMMA DeliveredInv ==
  ASSUME Types, Delivered, Next
  PROVE  Delivered'
<1>1. ASSUME UNCHANGED brought, \A r \in Requests : swap'[r] = "mined" => swap[r] = "mined"
      PROVE  Delivered'
  BY <1>1 DEF Delivered
<1>2. CASE Endpoint
  BY <1>1, <1>2 DEF Endpoint, CreateQuote, Expire, LookUp, Execute, Refuse, chain
<1>3. ASSUME NEW p \in Workers, Process(p) \/ Failure(p)
      PROVE  Delivered'
  <2>1. CASE Send(p)
    BY <1>1, <2>1 DEF Send, Types
  <2>2. CASE SendRefused(p)
    BY <1>1, <2>2 DEF SendRefused, Types
  <2>3. CASE UNCHANGED <<swap, brought>>
    BY <1>1, <2>3
  <2>4. ASSUME Process(p), ~Send(p), ~SendRefused(p)
        PROVE  UNCHANGED <<swap, brought>>
    BY <2>4
       DEF Process, Find, Claim, ServeFromReserve, Prepare, Unprepared, ApprovalPending, Resume,
           SendReturns, RecordHash, SeeMined, SeeReverted, StillPending, ReadOutput, Settle,
           FailConversion, Defer, chain
  <2>5. ASSUME Failure(p)
        PROVE  UNCHANGED <<swap, brought>>
    BY <2>5
       DEF Failure, ResumeThrows, SendThrows, RecordThrows, UnexpectedSender, Unanswered, ReadThrows,
           SettleThrows, SettleReplyLost, Abandon, chain
  <2> QED
    BY <1>3, <2>1, <2>2, <2>3, <2>4, <2>5
<1>4. ASSUME NEW r \in Requests, Accept(r) \/ Revert(r) \/ \E output \in Outputs : Mine(r, output)
      PROVE  Delivered'
  <2>1. CASE Accept(r) \/ Revert(r)
    BY <1>1, <2>1 DEF Accept, Revert, OnChain, Types
  <2>2. ASSUME NEW output \in Outputs, Mine(r, output)
        PROVE  Delivered'
    <3>1. output \in Nat \ {0}
      BY ConversionsAssumption
    <3> QED
      BY <2>2, <3>1 DEF Mine, OnChain, Types, Delivered
  <2> QED
    BY <1>4, <2>1, <2>2
<1> QED
  BY <1>2, <1>3, <1>4 DEF Next, Chain

History == Ordered /\ Alone /\ Delivered

LEMMA HistoryInit == Init => History
<1> SUFFICES ASSUME Init
             PROVE  History
  OBVIOUS
<1>1. \A r \in Requests : conv[r] = Absent /\ swap[r] = "none"
  BY DEF Init
<1>2. Ordered
  BY <1>1 DEF Ordered, Rows, Absent
<1>3. RowsAlone
  BY <1>1 DEF RowsAlone, Underway, Live, Absent
<1>4. PlacesAlone
  BY DEF PlacesAlone, AloneAt, Init, Idle
<1>5. Delivered
  BY <1>1 DEF Delivered
<1> QED
  BY <1>2, <1>3, <1>4, <1>5 DEF History, Alone

LEMMA HistoryInv == IInv /\ IInv' /\ History /\ [Next]_vars => History'
<1> SUFFICES ASSUME IInv, IInv', History, [Next]_vars
             PROVE  History'
  OBVIOUS
<1>1. CASE Next
  BY <1>1, OrderedInv, AloneInv, DeliveredInv DEF History, IInv
<1>2. CASE UNCHANGED vars
  <2>1. UNCHANGED <<conv, journal, worker, swap, brought, window, orphan>>
    BY <1>2 DEF vars
  <2>2. Rows' = Rows
    BY <2>1 DEF Rows
  <2>3. Ordered'
    BY <2>1, <2>2 DEF History, Ordered
  <2>4. Delivered'
    BY <2>1 DEF History, Delivered
  <2>5. Alone'
    BY <2>1
       DEF History, Alone, OneProcess, Lossless, Lost, RowsAlone, PlacesAlone, AloneAt,
           Underway, OldestOf, Since, NetInflow, Inflow
  <2> QED
    BY <2>3, <2>4, <2>5 DEF History
<1> QED
  BY <1>1, <1>2

LEMMA HistoryInvariance == Spec => [](IInv /\ History)
  BY InitInv, NextInv, HistoryInit, HistoryInv, PTL DEF Spec

LEMMA WhatIsCredited ==
  ASSUME IInv, Delivered, NEW r \in Requests, swap[r] = "mined",
         journal[<<"trade", r>>] = TradeEntries(r, brought[r])
  PROVE  Credited(r) = brought[r]
<1>1. PICK g \in Gross : g = brought[r]
  BY GrossType DEF Delivered
<1>2. NetOf(TradeEntries(r, g), Clearing(Terms(r).to)) = -g
  BY TradeNets
<1>3. g \in Int
  BY DEF Gross
<1> QED
  BY <1>1, <1>2, <1>3 DEF Credited

\* With one process, which is how the service is deployed, or where no coin is
\* bought: what a user is credited is what the swap of his conversion brought,
\* whatever fails and whenever; of a coin only until a swap is lost sight of.
THEOREM OutputBackedAlways ==
  ASSUME OneProcess \/ \A q \in Quotes : Offer[q].to \notin Native
  PROVE  Spec => []OutputBacked
<1>1. IInv /\ History => OutputBacked
  <2> SUFFICES ASSUME IInv, History, NEW r \in Requests,
                      conv[r].status = "FILLED", ~Terms(r).reserve
               PROVE  /\ swap[r] = "mined"
                      /\ \/ Credited(r) = brought[r]
                         \/ Terms(r).to \in Native /\ \E s \in Requests : Lost(s)
    BY DEF OutputBacked
  <2>1. /\ swap[r] = "mined"
        /\ Terms(r).to \notin Native => journal[<<"trade", r>>] = TradeEntries(r, brought[r])
    BY DEF IInv, RowsOk, RowOk
  <2>2. CASE Terms(r).to \notin Native
    BY <2>1, <2>2, WhatIsCredited DEF History
  <2>3. CASE Terms(r).to \in Native /\ Lossless
    <3>1. OneProcess
      BY <2>3, ConversionsAssumption DEF Terms
    <3>2. journal[<<"trade", r>>] = TradeEntries(r, brought[r])
      BY <2>3, <3>1 DEF History, Alone, RowsAlone
    <3> QED
      BY <2>1, <3>2, WhatIsCredited DEF History
  <2>4. CASE Terms(r).to \in Native /\ ~Lossless
    BY <2>1, <2>4 DEF Lossless
  <2> QED
    BY <2>2, <2>3, <2>4
<1> QED
  BY <1>1, HistoryInvariance, PTL

=============================================================================
