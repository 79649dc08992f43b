--------------------------- MODULE SpotOrders_proof ---------------------------
(***************************************************************************)
(* Theorems about SpotOrders: any orders, users, order books, fee rates,    *)
(* balances, batch size and number of faults.                               *)
(***************************************************************************)
EXTENDS SpotOrders, Ledger_proof

-----------------------------------------------------------------------------
(* Fees, entries and the ledger *)

LEMMA FeeType ==
  ASSUME NEW notional \in Nat, NEW r \in Nat
  PROVE  FeeOf(notional, r) \in Nat
<1>1. notional * r \in Nat
  OBVIOUS
<1>2. RateBase \in Nat \ {0}
  BY SpotOrdersAssumption
<1> QED
  BY <1>1, <1>2 DEF FeeOf

\* At a positive price every order costs something.
LEMMA CostType ==
  ASSUME NEW o \in Orders, NEW price \in Nat \ {0}, NEW r \in Nat
  PROVE  /\ CostAt(o, price, r) \in Nat \ {0}
         /\ Size[o] * price \in Nat \ {0}
         /\ Size[o] \in Nat \ {0}
<1>1. Size[o] \in Nat \ {0}
  BY SpotOrdersAssumption
<1>2. Size[o] * price \in Nat \ {0}
  BY <1>1
<1>3. FeeOf(Size[o] * price, r) \in Nat
  BY <1>2, FeeType
<1> QED
  BY <1>1, <1>2, <1>3 DEF CostAt

LEMMA EntryType ==
  ASSUME NEW o \in Orders, NEW asset \in Assets, NEW amount \in Nat \ {0},
         NEW account \in {Spot(o, asset), Clearing(asset), BBook(asset), Fees}
  PROVE  Debit(account, amount) \in Entry /\ Credit(account, amount) \in Entry
<1>1. Owner[o] \in Users
  BY SpotOrdersAssumption
<1>2. account \in {"USER_SPOT"} \X Users \X Assets
                    \cup {"PROVIDER_CLEARING", "PLATFORM_BBOOK", "PLATFORM_FEES"}
                           \X {"platform"} \X Assets
  BY <1>1 DEF Spot, Clearing, BBook, Fees, Assets
<1> QED
  BY <1>2 DEF Debit, Credit, Entry

LEMMA PaidInType == \A o \in Orders : PaidIn(o) \in Assets
  BY DEF PaidIn, Assets

LEMMA ReserveEntriesType ==
  ASSUME NEW o \in Orders, NEW amount \in Nat \ {0}
  PROVE  /\ ReserveEntries(o, amount) \in Seq(Entry) \ {<<>>}
         /\ ReleaseEntries(o, amount) \in Seq(Entry) \ {<<>>}
<1>1. /\ Debit(Spot(o, PaidIn(o)), amount) \in Entry
      /\ Credit(Clearing(PaidIn(o)), amount) \in Entry
      /\ Debit(Clearing(PaidIn(o)), amount) \in Entry
      /\ Credit(Spot(o, PaidIn(o)), amount) \in Entry
  BY PaidInType, EntryType
<1> QED
  BY <1>1 DEF ReserveEntries, ReleaseEntries

LEMMA TradeEntriesType ==
  ASSUME NEW o \in Orders, NEW price \in Nat \ {0},
         NEW from \in {Spot(o, PaidIn(o)), Clearing(PaidIn(o))}
  PROVE  TradeEntries(o, from, price) \in Seq(Entry) \ {<<>>}
<1>1. Size[o] \in Nat \ {0} /\ Size[o] * price \in Nat \ {0} /\ PaidIn(o) \in Assets
  BY CostType, PaidInType, 0 \in Nat
<1>2. \A amount \in Nat \ {0}, asset \in Assets :
        /\ Debit(from, amount) \in Entry
        /\ Debit(BBook(asset), amount) \in Entry /\ Credit(BBook(asset), amount) \in Entry
        /\ Credit(Spot(o, asset), amount) \in Entry
  BY <1>1, EntryType
<1>3. "base" \in Assets /\ "quote" \in Assets
  BY DEF Assets
<1> QED
  BY <1>1, <1>2, <1>3 DEF TradeEntries

LEMMA FeeEntriesType ==
  ASSUME NEW o \in Orders, NEW fee \in Nat, NEW from \in {Spot(o, "quote"), Clearing("quote")}
  PROVE  FeeEntries(from, fee) \in Seq(Entry)
<1>1. "quote" \in Assets
  BY DEF Assets
<1>2. CASE fee > 0
  <2>1. Debit(from, fee) \in Entry /\ Credit(Fees, fee) \in Entry
    BY <1>1, <1>2, EntryType
  <2> QED
    BY <1>2, <2>1 DEF FeeEntries
<1>3. CASE ~(fee > 0)
  BY <1>3 DEF FeeEntries
<1> QED
  BY <1>2, <1>3

LEMMA UnusedEntriesType ==
  ASSUME NEW o \in Orders, NEW amount \in Nat
  PROVE  UnusedEntries(o, amount) \in Seq(Entry)
<1>1. CASE amount > 0
  BY <1>1, ReserveEntriesType DEF UnusedEntries
<1>2. CASE ~(amount > 0)
  BY <1>2 DEF UnusedEntries
<1> QED
  BY <1>1, <1>2

\* A journal, and what postTransaction makes of it.
Entries == Seq(Entry)

Empty(entries) == entries = <<>>

Journal(j) == DOMAIN j = Keys /\ \A k \in Keys : j[k] \in Entries

LEMMA RecordType ==
  ASSUME NEW j, Journal(j), NEW key \in Keys, NEW entries \in Entries
  PROVE  /\ Journal(Record(j, key, entries))
         /\ \A k \in Keys \ {key} : Record(j, key, entries)[k] = j[k]
         /\ ~Empty(entries) => ~Empty(Record(j, key, entries)[key])
         /\ ~Empty(j[key]) => Record(j, key, entries)[key] = j[key]
  BY DEF Record, Journal, Empty

\* The keys of o that a fill may write, and what it does to a journal.
FillKeys(o) == {<<op, o>> : op \in {"trade", "fee", "unused"}}

Filled(j, next, o) ==
  /\ Journal(next)
  /\ ~Empty(next[<<"trade", o>>])
  /\ \A k \in Keys \ FillKeys(o) : next[k] = j[k]

\* The ledger transactions of a fill: the trade and the fee, and a buyer's
\* remainder.
TradeAndFee(j, o, trade, fees) ==
  Record(Record(j, <<"trade", o>>, trade), <<"fee", o>>, fees)

WithRemainder(j, o, trade, fees, unused) ==
  Record(TradeAndFee(j, o, trade, fees), <<"unused", o>>, unused)

LEMMA TradeAndFeeRecorded ==
  ASSUME NEW j, Journal(j), NEW o \in Orders,
         NEW trade \in Entries, ~Empty(trade), NEW fees \in Entries
  PROVE  Filled(j, TradeAndFee(j, o, trade, fees), o)
<1> DEFINE traded == Record(j, <<"trade", o>>, trade)
<1>1. /\ <<"trade", o>> \in Keys /\ <<"fee", o>> \in Keys /\ <<"trade", o>> # <<"fee", o>>
      /\ <<"trade", o>> \in FillKeys(o) /\ <<"fee", o>> \in FillKeys(o)
  BY DEF Keys, FillKeys
<1>2. /\ Journal(traded) /\ ~Empty(traded[<<"trade", o>>])
      /\ \A k \in Keys \ {<<"trade", o>>} : traded[k] = j[k]
  BY <1>1, RecordType
<1> HIDE DEF traded
<1>3. /\ Journal(Record(traded, <<"fee", o>>, fees))
      /\ \A k \in Keys \ {<<"fee", o>>} : Record(traded, <<"fee", o>>, fees)[k] = traded[k]
  BY <1>1, <1>2, RecordType
<1>4. Filled(j, Record(traded, <<"fee", o>>, fees), o)
  BY <1>1, <1>2, <1>3 DEF Filled
<1> QED
  BY <1>4 DEF TradeAndFee, traded

LEMMA WithRemainderRecorded ==
  ASSUME NEW j, Journal(j), NEW o \in Orders,
         NEW trade \in Entries, ~Empty(trade), NEW fees \in Entries, NEW unused \in Entries
  PROVE  Filled(j, WithRemainder(j, o, trade, fees, unused), o)
<1>1. /\ <<"trade", o>> \in Keys /\ <<"unused", o>> \in Keys /\ <<"trade", o>> # <<"unused", o>>
      /\ <<"trade", o>> \in FillKeys(o) /\ <<"unused", o>> \in FillKeys(o)
  BY DEF Keys, FillKeys
<1>2. PICK next : next = TradeAndFee(j, o, trade, fees)
  OBVIOUS
<1>3. Filled(j, next, o)
  BY <1>2, TradeAndFeeRecorded
<1>4. /\ Journal(Record(next, <<"unused", o>>, unused))
      /\ \A k \in Keys \ {<<"unused", o>>} : Record(next, <<"unused", o>>, unused)[k] = next[k]
  BY <1>1, <1>3, RecordType DEF Filled
<1>5. Filled(j, Record(next, <<"unused", o>>, unused), o)
  BY <1>1, <1>3, <1>4 DEF Filled
<1> QED
  BY <1>2, <1>5 DEF WithRemainder

-----------------------------------------------------------------------------
(* The inductive invariant *)

Ops == {"reserve", "release", "trade"}

\* At the limit of o, or better.
WithinLimit(o, price) == IF Side[o] = "BUY" THEN price <= Limit[o] ELSE price >= Limit[o]

Row == [status : Status, reserved : Nat, price : Nat, at : Nat]

\* TypeOK, with a journal of sequences and finitely many rows.
Typed ==
  /\ order \in [Orders -> Row]
  /\ Journal(journal)
  /\ calls \subseteq [op : {"create", "cancel"}, o : Orders, price : Nat, rate : Nat]
  /\ matcher \in [step : {"idle", "loop", "fill"}, todo : SUBSET Orders,
                  o : Orders \cup {None}, price : Nat]
  /\ book \in Books
  /\ rate \in Rates
  /\ stale \subseteq Orders
  /\ faults \in 0..MaxFaults
  /\ IsFiniteSet(Rows)

\* A request under way is the only one for its order, which has no row yet; a
\* cancellation under way has read a limit order.
CallsInv ==
  \A c \in calls :
    /\ c.op = "create" => /\ order[c.o].status = "ABSENT"
                          /\ c.price > 0
                          /\ \A d \in calls : d.op = "create" /\ d.o = c.o => d = c
    /\ c.op = "cancel" => order[c.o].status # "ABSENT" /\ ~IsMarket(c.o)

\* The matcher holds limit orders that have a row, and a price they accept.
MatcherInv ==
  /\ \A o \in matcher.todo : order[o].status # "ABSENT" /\ ~IsMarket(o)
  /\ matcher.step = "loop" => matcher.todo # {}
  /\ matcher.step = "fill" =>
       /\ matcher.o \in Orders
       /\ order[matcher.o].status # "ABSENT" /\ ~IsMarket(matcher.o)
       /\ matcher.price > 0 /\ WithinLimit(matcher.o, matcher.price)

\* What the ledger holds under the keys of an order, by its status.
OrderInv(o) ==
  /\ order[o].status = "ABSENT" => o \notin stale /\ \A op \in Ops : ~Posted(op, o)
  /\ IsMarket(o) => /\ order[o].status \in {"ABSENT", "FILLED"}
                    /\ ~Posted("reserve", o) /\ ~Posted("release", o)
  /\ ~IsMarket(o) /\ order[o].status # "ABSENT" => Posted("reserve", o) /\ order[o].reserved > 0
  /\ order[o].status = "FILLED" => Posted("trade", o)
  /\ order[o].status = "OPEN" => ~Posted("trade", o)
  /\ Posted("release", o) <=> order[o].status = "CANCELLED"
  /\ Posted("trade", o) /\ Posted("release", o) => o \in stale
  /\ order[o].status = "FILLED" /\ ~IsMarket(o) => WithinLimit(o, order[o].price)

IInv == Typed /\ CallsInv /\ MatcherInv /\ ClientIdOnce /\ \A o \in Orders : OrderInv(o)

LEMMA TypedType == Typed => TypeOK
  BY DEF Typed, TypeOK, Journal, Row, Entries

-----------------------------------------------------------------------------
(* What a step leaves alone *)

Same(v) ==
  /\ order'[v] = order[v]
  /\ \A op \in Ops : journal'[<<op, v>>] = journal[<<op, v>>]
  /\ v \in stale' <=> v \in stale

LEMMA SameOrder ==
  ASSUME NEW v \in Orders, OrderInv(v), Same(v)
  PROVE  OrderInv(v)'
<1>1. \A op \in Ops : Posted(op, v)' <=> Posted(op, v)
  BY DEF Same, Posted
<1>2. /\ Posted("reserve", v)' <=> Posted("reserve", v)
      /\ Posted("release", v)' <=> Posted("release", v)
      /\ Posted("trade", v)' <=> Posted("trade", v)
  BY <1>1 DEF Ops
<1> QED
  BY <1>1, <1>2 DEF OrderInv, Same, IsMarket, WithinLimit

\* Steps that write neither rows nor the ledger.
LEMMA QuietInv ==
  ASSUME IInv, UNCHANGED <<order, journal, stale>>
  PROVE  /\ Journal(journal)' /\ order' \in [Orders -> Row] /\ IsFiniteSet(Rows)'
         /\ ClientIdOnce'
         /\ \A o \in Orders : OrderInv(o)'
<1>1. \A v \in Orders : OrderInv(v)'
  BY SameOrder DEF IInv, Same
<1>2. Rows' = Rows
  BY DEF Rows
<1> QED
  BY <1>1, <1>2 DEF IInv, Typed, Journal, ClientIdOnce

\* Rows are never deleted, so what is known of an order under way stays known.
LEMMA CallsKept ==
  ASSUME IInv, calls' \subseteq calls,
         \A c \in calls' : c.op = "create" => order'[c.o].status = order[c.o].status,
         \A o \in Orders : order[o].status # "ABSENT" => order'[o].status # "ABSENT"
  PROVE  CallsInv'
  BY DEF IInv, Typed, CallsInv, IsMarket

LEMMA MatcherKept ==
  ASSUME IInv, UNCHANGED matcher,
         \A o \in Orders : order[o].status # "ABSENT" => order'[o].status # "ABSENT"
  PROVE  MatcherInv'
<1>1. matcher.todo \subseteq Orders
  BY DEF IInv, Typed
<1> QED
  BY <1>1 DEF IInv, MatcherInv, IsMarket, WithinLimit

\* The matcher goes on with orders it already had, or with none.
LEMMA GoOnInv ==
  ASSUME IInv, NEW rest, rest \subseteq matcher.todo, GoOn(rest),
         \A o \in Orders : order[o].status # "ABSENT" => order'[o].status # "ABSENT"
  PROVE  /\ MatcherInv'
         /\ matcher' \in [step : {"idle", "loop", "fill"}, todo : SUBSET Orders,
                          o : Orders \cup {None}, price : Nat]
<1>1. matcher.todo \subseteq Orders
  BY DEF IInv, Typed
<1>2. CASE rest = {}
  BY <1>2 DEF GoOn, Idle, MatcherInv
<1>3. CASE rest # {}
  <2>1. matcher' = [step |-> "loop", todo |-> rest, o |-> None, price |-> 0]
    BY <1>3 DEF GoOn, Idle
  <2> QED
    BY <1>1, <1>3, <2>1 DEF IInv, MatcherInv, IsMarket
<1> QED
  BY <1>2, <1>3

-----------------------------------------------------------------------------
(* The four steps that write an order *)

LEMMA AbsentType == Absent \in Row
  BY DEF Absent, Row, Status

\* A new row: its order had none, no key of it was posted, no other row has its
\* client order id.
LEMMA InsertEffect ==
  ASSUME IInv, NEW c \in calls, NEW row \in Row, row.status # "ABSENT", Insert(c, row)
  PROVE  /\ c.o \in Orders /\ order[c.o].status = "ABSENT" /\ c.price > 0
         /\ order' \in [Orders -> Row]
         /\ order'[c.o].status = row.status
         /\ order'[c.o].reserved = row.reserved
         /\ order'[c.o].price = row.price
         /\ \A v \in Orders \ {c.o} : order'[v] = order[v]
         /\ IsFiniteSet(Rows)' /\ ClientIdOnce'
         /\ CallsInv' /\ MatcherInv'
         /\ UNCHANGED <<matcher, book, rate, stale, faults>> /\ calls' \subseteq calls
<1> DEFINE o   == c.o
           new == [row EXCEPT !.at = Cardinality(Rows) + 1]
<1>1. /\ c \in [op : {"create", "cancel"}, o : Orders, price : Nat, rate : Nat]
      /\ c.op = "create"
  BY DEF Insert, IInv, Typed
<1>2. o \in Orders /\ order[o].status = "ABSENT" /\ c.price > 0
  BY <1>1 DEF IInv, CallsInv
<1>3. /\ new \in Row
      /\ new.status = row.status /\ new.reserved = row.reserved /\ new.price = row.price
  <2>1. Cardinality(Rows) \in Nat
    BY FS_CardinalityType DEF IInv, Typed
  <2> QED
    BY <2>1 DEF Row
<1>4. order' = [order EXCEPT ![o] = new]
  BY DEF Insert
<1> HIDE DEF new
<1>5. /\ order' \in [Orders -> Row]
      /\ order'[o] = new
      /\ \A v \in Orders \ {o} : order'[v] = order[v]
  BY <1>2, <1>3, <1>4 DEF IInv, Typed
<1>6. Rows' = Rows \cup {o}
  BY <1>2, <1>3, <1>5 DEF Rows
<1>7. IsFiniteSet(Rows)'
  BY <1>6, FS_AddElement DEF IInv, Typed
<1>8. ClientIdOnce'
  <2>1. \A other \in Rows : ~(Owner[other] = Owner[o] /\ ClientId[other] = ClientId[o])
    BY DEF Insert, Insertable, Unique
  <2> QED
    BY <1>6, <2>1 DEF IInv, ClientIdOnce
<1>9. calls' = calls \ {c} /\ UNCHANGED <<matcher, book, rate, stale, faults>>
  BY DEF Insert
<1>10. \A v \in Orders : order[v].status # "ABSENT" => order'[v].status # "ABSENT"
  BY <1>2, <1>5
<1>11. \A d \in calls' : d.op = "create" => order'[d.o].status = order[d.o].status
  <2>1. \A d \in calls' : d.op = "create" => d.o # o /\ d.o \in Orders
    BY <1>1, <1>9 DEF IInv, CallsInv, Typed
  <2> QED
    BY <1>5, <2>1
<1>12. CallsInv' /\ MatcherInv'
  BY <1>9, <1>10, <1>11, CallsKept, MatcherKept
<1> QED
  BY <1>2, <1>3, <1>5, <1>7, <1>8, <1>9, <1>12

LEMMA CreateLimitEffect ==
  ASSUME IInv, NEW c \in calls, CreateLimit(c)
  PROVE  /\ IInv'
         /\ order[c.o].status = "ABSENT" /\ ~IsMarket(c.o)
         /\ \A v \in Orders \ {c.o} : Same(v)
         /\ order'[c.o].status = "OPEN" /\ order'[c.o].reserved = Needed(c) /\ UNCHANGED stale
<1> DEFINE o == c.o
<1> DEFINE row == [Absent EXCEPT !.status = "OPEN", !.reserved = Needed(c)]
<1>1. /\ c \in [op : {"create", "cancel"}, o : Orders, price : Nat, rate : Nat]
      /\ ~IsMarket(o)
      /\ Limit[o] \in Nat \ {0}
  BY SpotOrdersAssumption DEF CreateLimit, IInv, Typed, IsMarket
<1>2. Needed(c) \in Nat \ {0}
  BY <1>1, CostType DEF Needed
<1>3. row \in Row /\ row.status = "OPEN" /\ row.reserved = Needed(c)
  BY <1>2, AbsentType DEF Row, Status
<1>4. Insert(c, row)
  BY DEF CreateLimit
<1> HIDE DEF row
<1>5. /\ o \in Orders /\ order[o].status = "ABSENT"
      /\ order' \in [Orders -> Row]
      /\ order'[o].status = "OPEN" /\ order'[o].reserved = Needed(c)
      /\ \A v \in Orders \ {o} : order'[v] = order[v]
      /\ IsFiniteSet(Rows)' /\ ClientIdOnce' /\ CallsInv' /\ MatcherInv'
      /\ UNCHANGED <<matcher, book, rate, stale, faults>> /\ calls' \subseteq calls
  BY <1>3, <1>4, InsertEffect
<1>6. ReserveEntries(o, Needed(c)) \in Entries /\ ~Empty(ReserveEntries(o, Needed(c)))
  BY <1>2, <1>5, ReserveEntriesType DEF Entries, Empty
<1>7. <<"reserve", o>> \in Keys
  BY <1>5 DEF Keys
<1>8. journal' = Record(journal, <<"reserve", o>>, ReserveEntries(o, Needed(c)))
  BY DEF CreateLimit
<1>9. /\ Journal(journal')
      /\ ~Empty(journal'[<<"reserve", o>>])
      /\ \A k \in Keys \ {<<"reserve", o>>} : journal'[k] = journal[k]
  <2>1. Journal(journal)
    BY DEF IInv, Typed
  <2> QED
    BY <1>6, <1>7, <1>8, <2>1, RecordType
<1>10. \A v \in Orders \ {o} : Same(v)
  <2>1. \A v \in Orders \ {o}, op \in Ops : <<op, v>> \in Keys \ {<<"reserve", o>>}
    BY DEF Keys, Ops
  <2> QED
    BY <1>5, <1>9, <2>1 DEF Same
<1>11. OrderInv(o)'
  <2>1. /\ Posted("reserve", o)'
        /\ Posted("release", o)' <=> Posted("release", o)
        /\ Posted("trade", o)' <=> Posted("trade", o)
    BY <1>5, <1>9 DEF Posted, Empty, Keys
  <2>2. ~Posted("release", o) /\ ~Posted("trade", o)
    BY <1>5 DEF IInv, OrderInv, Ops
  <2> QED
    BY <1>1, <1>2, <1>5, <2>1, <2>2 DEF OrderInv, IsMarket
<1>12. \A v \in Orders : OrderInv(v)'
  BY <1>10, <1>11, SameOrder DEF IInv
<1>13. Typed'
  BY <1>5, <1>9 DEF IInv, Typed
<1> QED
  BY <1>1, <1>5, <1>10, <1>12, <1>13 DEF IInv

LEMMA FillMarketEffect ==
  ASSUME IInv, NEW c \in calls, FillMarket(c)
  PROVE  /\ IInv'
         /\ order[c.o].status = "ABSENT"
         /\ \A v \in Orders \ {c.o} : Same(v)
         /\ order'[c.o].status = "FILLED" /\ UNCHANGED stale
<1> DEFINE o     == c.o
           row   == [Absent EXCEPT !.status = "FILLED", !.price = c.price]
           from  == Spot(o, PaidIn(o))
           fee   == FeeOf(Size[o] * c.price, c.rate)
           trade == TradeEntries(o, from, c.price)
           fees  == FeeEntries(Spot(o, "quote"), fee)
<1>1. /\ c \in [op : {"create", "cancel"}, o : Orders, price : Nat, rate : Nat]
      /\ IsMarket(o)
  BY DEF FillMarket, IInv, Typed
<1>2. row \in Row /\ row.status = "FILLED"
  BY <1>1, AbsentType DEF Row, Status
<1>3. Insert(c, row)
  BY DEF FillMarket
<1>4. journal' = Record(Record(journal, <<"trade", o>>, trade), <<"fee", o>>, fees)
  BY DEF FillMarket
<1> HIDE DEF row
<1>5. /\ o \in Orders /\ order[o].status = "ABSENT" /\ c.price \in Nat \ {0}
      /\ order' \in [Orders -> Row]
      /\ order'[o].status = "FILLED"
      /\ \A v \in Orders \ {o} : order'[v] = order[v]
      /\ IsFiniteSet(Rows)' /\ ClientIdOnce' /\ CallsInv' /\ MatcherInv'
      /\ UNCHANGED <<matcher, book, rate, stale, faults>> /\ calls' \subseteq calls
  BY <1>1, <1>2, <1>3, InsertEffect
<1>6. trade \in Entries /\ ~Empty(trade) /\ fees \in Entries
  <2>1. fee \in Nat
    BY <1>1, <1>5, CostType, FeeType
  <2> HIDE DEF fee
  <2> QED
    BY <1>5, <2>1, TradeEntriesType, FeeEntriesType DEF Entries, Empty
<1> HIDE DEF trade, fees
<1>8. Filled(journal, journal', o)
  <2>1. Journal(journal)
    BY DEF IInv, Typed
  <2>2. o \in Orders
    BY <1>5
  <2>3. Filled(journal, TradeAndFee(journal, o, trade, fees), o)
    BY <1>6, <2>1, <2>2, TradeAndFeeRecorded
  <2>4. journal' = TradeAndFee(journal, o, trade, fees)
    BY <1>4 DEF TradeAndFee
  <2> QED
    BY <2>3, <2>4
<1>10. \A v \in Orders \ {o} : Same(v)
  <2>1. \A v \in Orders \ {o}, op \in Ops : <<op, v>> \in Keys \ FillKeys(o)
    BY DEF Keys, Ops, FillKeys
  <2> QED
    BY <1>5, <1>8, <2>1 DEF Same, Filled
<1>11. OrderInv(o)'
  <2>1. /\ <<"reserve", o>> \in Keys \ FillKeys(o)
        /\ <<"release", o>> \in Keys \ FillKeys(o)
    BY <1>5 DEF Keys, FillKeys
  <2>2. /\ Posted("trade", o)'
        /\ Posted("release", o)' <=> Posted("release", o)
        /\ Posted("reserve", o)' <=> Posted("reserve", o)
    BY <1>8, <2>1 DEF Posted, Empty, Filled
  <2>3. ~Posted("release", o) /\ ~Posted("reserve", o)
    BY <1>5 DEF IInv, OrderInv, Ops
  <2> QED
    BY <1>1, <1>5, <2>2, <2>3 DEF OrderInv, IsMarket
<1>12. \A v \in Orders : OrderInv(v)'
  BY <1>10, <1>11, SameOrder DEF IInv
<1>13. Typed'
  BY <1>5, <1>8 DEF IInv, Typed, Filled
<1> QED
  BY <1>5, <1>10, <1>12, <1>13 DEF IInv

\* A row that is written again keeps its client order id, and no row appears.
LEMMA RewriteEffect ==
  ASSUME IInv, NEW o \in Orders, order[o].status # "ABSENT",
         order' \in [Orders -> Row], order'[o].status # "ABSENT",
         \A v \in Orders \ {o} : order'[v] = order[v], calls' \subseteq calls
  PROVE  /\ IsFiniteSet(Rows)' /\ ClientIdOnce' /\ CallsInv'
         /\ \A v \in Orders : order[v].status # "ABSENT" => order'[v].status # "ABSENT"
<1>1. Rows' = Rows
  BY DEF Rows
<1>2. \A v \in Orders : order[v].status # "ABSENT" => order'[v].status # "ABSENT"
  OBVIOUS
<1>3. \A c \in calls' : c.op = "create" => order'[c.o].status = order[c.o].status
  BY DEF IInv, Typed, CallsInv
<1>4. CallsInv'
  BY <1>2, <1>3, CallsKept
<1> QED
  BY <1>1, <1>2, <1>4 DEF IInv, Typed, ClientIdOnce

LEMMA CancelEffect ==
  ASSUME IInv, NEW o \in Orders, Cancel(o)
  PROVE  /\ IInv'
         /\ order[o].status # "ABSENT"
         /\ \A v \in Orders \ {o} : Same(v)
         /\ order'[o].status = "CANCELLED"
         /\ Posted("trade", o)' <=> Posted("trade", o)
         /\ stale' = IF order[o].status = "FILLED" THEN stale \cup {o} ELSE stale
<1>1. order[o].status # "ABSENT" /\ ~IsMarket(o)
  BY DEF Cancel, CancelCall, IInv, CallsInv
<1>2. OrderInv(o) /\ order[o] \in Row
  BY DEF IInv, Typed
<1>3. /\ order' \in [Orders -> Row]
      /\ order'[o].status = "CANCELLED"
      /\ order'[o].reserved = order[o].reserved
      /\ \A v \in Orders \ {o} : order'[v] = order[v]
  <2>1. order' = [order EXCEPT ![o] = [order[o] EXCEPT !.status = "CANCELLED"]]
    BY DEF Cancel, IInv, Typed
  <2>2. /\ [order[o] EXCEPT !.status = "CANCELLED"] \in Row
        /\ [order[o] EXCEPT !.status = "CANCELLED"].status = "CANCELLED"
        /\ [order[o] EXCEPT !.status = "CANCELLED"].reserved = order[o].reserved
    BY <1>2 DEF Row, Status
  <2> QED
    BY <2>1, <2>2 DEF IInv, Typed
<1>4. calls' \subseteq calls /\ UNCHANGED <<matcher, book, rate, faults>>
  BY DEF Cancel
<1>5. /\ IsFiniteSet(Rows)' /\ ClientIdOnce' /\ CallsInv' /\ MatcherInv'
  BY <1>1, <1>3, <1>4, RewriteEffect, MatcherKept
<1>6. order[o].reserved \in Nat \ {0}
  BY <1>1, <1>2 DEF OrderInv, Row
<1>7. ReleaseEntries(o, order[o].reserved) \in Entries /\ ~Empty(ReleaseEntries(o, order[o].reserved))
  BY <1>6, ReserveEntriesType DEF Entries, Empty
<1>8. <<"release", o>> \in Keys
  BY DEF Keys
<1>9. /\ Journal(journal')
      /\ ~Empty(journal'[<<"release", o>>])
      /\ \A k \in Keys \ {<<"release", o>>} : journal'[k] = journal[k]
  <2>1. Journal(journal)
    BY DEF IInv, Typed
  <2>2. journal' = Record(journal, <<"release", o>>, ReleaseEntries(o, order[o].reserved))
    BY DEF Cancel, Released
  <2> QED
    BY <1>7, <1>8, <2>1, <2>2, RecordType
<1>10. stale' = IF order[o].status = "FILLED" THEN stale \cup {o} ELSE stale
  BY DEF Cancel
<1>11. \A v \in Orders \ {o} : Same(v)
  <2>1. \A v \in Orders \ {o}, op \in Ops : <<op, v>> \in Keys \ {<<"release", o>>}
    BY DEF Keys, Ops
  <2> QED
    BY <1>3, <1>9, <1>10, <2>1 DEF Same
<1>12. /\ Posted("release", o)'
       /\ Posted("reserve", o)' <=> Posted("reserve", o)
       /\ Posted("trade", o)' <=> Posted("trade", o)
  <2>1. <<"reserve", o>> \in Keys \ {<<"release", o>>} /\ <<"trade", o>> \in Keys \ {<<"release", o>>}
    BY DEF Keys
  <2> QED
    BY <1>9, <2>1 DEF Posted, Empty
<1>13. OrderInv(o)'
  <2>1. Posted("trade", o) => order[o].status = "FILLED" \/ o \in stale
    BY <1>1, <1>2 DEF OrderInv, Row, Status
  <2> QED
    BY <1>1, <1>2, <1>3, <1>6, <1>10, <1>12, <2>1 DEF OrderInv, IsMarket
<1>14. \A v \in Orders : OrderInv(v)'
  BY <1>11, <1>13, SameOrder DEF IInv
<1>15. Typed'
  BY <1>3, <1>4, <1>5, <1>9, <1>10 DEF IInv, Typed
<1> QED
  BY <1>1, <1>3, <1>5, <1>10, <1>11, <1>12, <1>14, <1>15 DEF IInv

\* The matcher's transaction goes through: the order is open, its reserve
\* covers the fill.
LEMMA FillEffect ==
  ASSUME IInv, Fill, NEW o \in Orders, o = matcher.o,
         order[o].status = "OPEN", ~UNCHANGED <<order, journal>>
  PROVE  /\ IInv'
         /\ \A v \in Orders \ {o} : Same(v)
         /\ order'[o].status = "FILLED" /\ UNCHANGED stale
<1> DEFINE price   == matcher.price
           cost    == CostAt(o, price, rate)
           fee     == FeeOf(Size[o] * price, rate)
           feeFrom == IF Side[o] = "BUY" THEN Clearing("quote") ELSE Spot(o, "quote")
           trade   == TradeEntries(o, Clearing(PaidIn(o)), price)
           fees    == FeeEntries(feeFrom, fee)
           unused  == UnusedEntries(o, Unused(o, cost))
<1>1. /\ o \in Orders /\ ~IsMarket(o) /\ price \in Nat \ {0} /\ WithinLimit(o, price)
      /\ OrderInv(o) /\ order[o] \in Row
  BY DEF Fill, IInv, MatcherInv, Typed
<1>2. rate \in Nat
  BY SpotOrdersAssumption DEF IInv, Typed
<1>3. /\ Side[o] = "BUY" => order[o].reserved >= cost
      /\ order' = [order EXCEPT ![o].status = "FILLED", ![o].price = price]
      /\ journal' = WithRemainder(journal, o, trade, fees, unused)
      /\ GoOn(matcher.todo)
      /\ UNCHANGED <<calls, book, rate, stale, faults>>
  BY DEF Fill, TradeAndFee, WithRemainder
<1>4. trade \in Entries /\ ~Empty(trade) /\ fees \in Entries /\ unused \in Entries
  <2>1. fee \in Nat /\ cost \in Nat
    BY <1>1, <1>2, CostType, FeeType
  <2>2. Unused(o, cost) \in Nat
    BY <1>1, <1>3, <2>1 DEF Unused, Row
  <2> HIDE DEF cost, fee
  <2>3. trade \in Entries /\ ~Empty(trade)
    BY <1>1, TradeEntriesType DEF Entries, Empty
  <2>4. fees \in Entries
    BY <1>1, <2>1, FeeEntriesType DEF Entries
  <2>5. unused \in Entries
    BY <1>1, <2>2, UnusedEntriesType DEF Entries
  <2> QED
    BY <2>3, <2>4, <2>5
<1> HIDE DEF trade, fees, unused
<1>5. Filled(journal, journal', o)
  <2>1. Journal(journal)
    BY DEF IInv, Typed
  <2>2. o \in Orders
    BY <1>1
  <2>3. Filled(journal, WithRemainder(journal, o, trade, fees, unused), o)
    BY <1>4, <2>1, <2>2, WithRemainderRecorded
  <2> QED
    BY <1>3, <2>3
<1>6. /\ order' \in [Orders -> Row]
      /\ order'[o].status = "FILLED" /\ order'[o].price = price
      /\ order'[o].reserved = order[o].reserved
      /\ \A v \in Orders \ {o} : order'[v] = order[v]
  <2> DEFINE new == [order[o] EXCEPT !.status = "FILLED", !.price = price]
  <2>1. new \in Row /\ new.status = "FILLED" /\ new.price = price /\ new.reserved = order[o].reserved
    BY <1>1 DEF Row, Status
  <2>2. order' = [order EXCEPT ![o] = new]
    BY <1>1, <1>3 DEF IInv, Typed, Row
  <2> HIDE DEF new
  <2> QED
    BY <1>1, <2>1, <2>2 DEF IInv, Typed
<1>7. /\ IsFiniteSet(Rows)' /\ ClientIdOnce' /\ CallsInv'
      /\ \A v \in Orders : order[v].status # "ABSENT" => order'[v].status # "ABSENT"
  <2>1. calls' \subseteq calls
    BY <1>3
  <2> QED
    BY <1>1, <1>6, <2>1, RewriteEffect
<1>8. /\ MatcherInv'
      /\ matcher' \in [step : {"idle", "loop", "fill"}, todo : SUBSET Orders,
                       o : Orders \cup {None}, price : Nat]
  BY <1>3, <1>7, GoOnInv
<1>9. \A v \in Orders \ {o} : Same(v)
  <2>1. \A v \in Orders \ {o}, op \in Ops : <<op, v>> \in Keys \ FillKeys(o)
    BY DEF Keys, Ops, FillKeys
  <2> QED
    BY <1>3, <1>5, <1>6, <2>1 DEF Same, Filled
<1>10. OrderInv(o)'
  <2>1. /\ <<"reserve", o>> \in Keys \ FillKeys(o)
        /\ <<"release", o>> \in Keys \ FillKeys(o)
    BY <1>1 DEF Keys, FillKeys
  <2>2. /\ Posted("trade", o)'
        /\ Posted("release", o)' <=> Posted("release", o)
        /\ Posted("reserve", o)' <=> Posted("reserve", o)
    BY <1>5, <2>1 DEF Posted, Empty, Filled
  <2>3. Posted("reserve", o) /\ ~Posted("release", o) /\ order[o].reserved > 0
    BY <1>1 DEF OrderInv
  <2> QED
    BY <1>1, <1>6, <2>2, <2>3 DEF OrderInv, IsMarket, WithinLimit
<1>11. \A v \in Orders : OrderInv(v)'
  BY <1>9, <1>10, SameOrder DEF IInv
<1>12. Typed'
  BY <1>3, <1>5, <1>6, <1>7, <1>8 DEF IInv, Typed, Filled
<1> QED
  BY <1>1, <1>3, <1>6, <1>7, <1>8, <1>9, <1>11, <1>12 DEF IInv

-----------------------------------------------------------------------------
(* The steps that write no order *)

\* The least of a set of orders by creation exists.
LEMMA FirstType ==
  ASSUME IInv, NEW todo \in SUBSET Orders, todo # {}
  PROVE  First(todo) \in todo
<1> DEFINE ats == {order[o].at : o \in todo}
<1>1. ats \subseteq Nat /\ ats # {}
  BY DEF IInv, Typed, Row
<1>2. IsWellFoundedOn(OpToRel(<, Nat), Nat)
  BY NatLessThanWellFounded
<1>3. PICK least \in ats : \A at \in ats : ~(<<at, least>> \in OpToRel(<, Nat))
  BY <1>1, <1>2, WFMin
<1>4. PICK o \in todo : order[o].at = least
  OBVIOUS
<1>5. \A p \in todo : order[o].at <= order[p].at
  <2>1. \A at \in ats : at \in Nat /\ ~(at < least) /\ least \in Nat
    BY <1>1, <1>3 DEF OpToRel
  <2>2. \A p \in todo : order[p].at \in ats
    OBVIOUS
  <2> HIDE DEF ats
  <2> QED
    BY <1>4, <2>1, <2>2
<1> QED
  BY <1>5 DEF First

LEMMA ReadBookEffect ==
  ASSUME IInv, ReadBook
  PROVE  /\ MatcherInv'
         /\ matcher' \in [step : {"idle", "loop", "fill"}, todo : SUBSET Orders,
                          o : Orders \cup {None}, price : Nat]
<1> DEFINE o    == First(matcher.todo)
           rest == matcher.todo \ {o}
<1>1. o \in matcher.todo /\ matcher.todo \subseteq Orders
  BY FirstType DEF ReadBook, IInv, MatcherInv, Typed
<1>2. o \in Orders /\ order[o].status # "ABSENT" /\ ~IsMarket(o)
  BY <1>1 DEF IInv, MatcherInv
<1>3. IF Crosses(o)
      THEN matcher' = [step |-> "fill", todo |-> rest, o |-> o, price |-> Touch(o)]
      ELSE GoOn(rest)
  BY DEF ReadBook
<1>4. UNCHANGED order
  BY DEF ReadBook
<1> HIDE DEF o
<1>5. CASE Crosses(o)
  <2>1. Touch(o) \in Nat \ {0}
    BY SpotOrdersAssumption DEF Touch, IInv, Typed
  <2>2. WithinLimit(o, Touch(o))
    BY <1>2, <1>5, <2>1, SpotOrdersAssumption DEF WithinLimit, Crosses, Touch
  <2>3. matcher' = [step |-> "fill", todo |-> rest, o |-> o, price |-> Touch(o)]
    BY <1>3, <1>5
  <2>4. /\ matcher'.step = "fill" /\ matcher'.o = o /\ matcher'.price = Touch(o)
        /\ matcher'.todo = rest
    BY <2>3
  <2>5. matcher' \in [step : {"idle", "loop", "fill"}, todo : SUBSET Orders,
                      o : Orders \cup {None}, price : Nat]
    BY <1>1, <1>2, <2>1, <2>3
  <2>6. MatcherInv'
    BY <1>1, <1>2, <1>4, <2>1, <2>2, <2>4 DEF IInv, MatcherInv, IsMarket, WithinLimit
  <2> QED
    BY <2>5, <2>6
<1>6. CASE ~Crosses(o)
  BY <1>3, <1>4, <1>6, GoOnInv
<1> QED
  BY <1>5, <1>6

\* Steps of a call that read, of the matcher that write no row, and of the
\* market, the administrator and faults.
LEMMA QuietEffect ==
  ASSUME IInv,
         \/ \E o \in Orders : Submit(o) \/ ReadForCancel(o)
         \/ \E c \in calls : Refuse(c)
         \/ StartPass \/ ReadBook \/ SkipOrder \/ Restart \/ MoveMarket \/ SetRate
         \/ Fill /\ UNCHANGED <<order, journal>>
         \/ UNCHANGED vars
  PROVE  IInv' /\ UNCHANGED <<order, journal, stale>>
<1>0. UNCHANGED <<order, journal, stale>>
  BY DEF Submit, ReadForCancel, Refuse, StartPass, ReadBook, SkipOrder, Restart, MoveMarket,
         SetRate, Fill, vars
<1>1. /\ Journal(journal)' /\ order' \in [Orders -> Row] /\ IsFiniteSet(Rows)'
      /\ ClientIdOnce' /\ \A o \in Orders : OrderInv(o)'
      /\ stale' \subseteq Orders
  BY <1>0, QuietInv DEF IInv, Typed
<1> DEFINE Calls    == SUBSET [op : {"create", "cancel"}, o : Orders, price : Nat, rate : Nat]
           Matchers == [step : {"idle", "loop", "fill"}, todo : SUBSET Orders,
                        o : Orders \cup {None}, price : Nat]
<1> SUFFICES /\ CallsInv' /\ MatcherInv'
             /\ calls' \in Calls /\ matcher' \in Matchers
             /\ book' \in Books /\ rate' \in Rates /\ faults' \in 0..MaxFaults
  BY <1>0, <1>1 DEF IInv, Typed
<1>2. /\ calls \in Calls /\ matcher \in Matchers
      /\ book \in Books /\ rate \in Rates /\ faults \in 0..MaxFaults
      /\ \A o \in Orders : order[o].status # "ABSENT" => order'[o].status # "ABSENT"
      /\ CallsInv /\ MatcherInv
  BY <1>0 DEF IInv, Typed
<1>3. UNCHANGED matcher => MatcherInv'
  BY <1>2, MatcherKept
<1>4. calls' \subseteq calls => CallsInv' /\ calls' \in Calls
  BY <1>0, <1>2, CallsKept
<1>5. faults < MaxFaults => faults + 1 \in 0..MaxFaults
  BY <1>2, SpotOrdersAssumption
<1>6. \A rest : rest \subseteq matcher.todo /\ GoOn(rest) => MatcherInv' /\ matcher' \in Matchers
  BY <1>2, GoOnInv
<1>7. ASSUME NEW o \in Orders, Submit(o)
      PROVE  CallsInv' /\ calls' \in Calls
  <2> DEFINE new == [op |-> "create", o |-> o, price |-> Touch(o), rate |-> rate]
  <2>1. Touch(o) \in Nat \ {0} /\ rate \in Nat
    BY <1>2, SpotOrdersAssumption DEF Touch
  <2>2. /\ new \in [op : {"create", "cancel"}, o : Orders, price : Nat, rate : Nat]
        /\ new.op = "create" /\ new.o = o /\ new.price > 0
    BY <2>1
  <2>3. /\ calls' = calls \cup {new}
        /\ order[o].status = "ABSENT" /\ \A d \in calls : d.op = "create" => d.o # o
    BY <1>7 DEF Submit
  <2> HIDE DEF new
  <2> QED
    BY <1>0, <1>2, <2>2, <2>3 DEF CallsInv, IsMarket
<1>8. ASSUME NEW o \in Orders, ReadForCancel(o)
      PROVE  CallsInv' /\ calls' \in Calls
  <2>1. /\ CancelCall(o) \in [op : {"create", "cancel"}, o : Orders, price : Nat, rate : Nat]
        /\ CancelCall(o).op = "cancel" /\ CancelCall(o).o = o
    BY DEF CancelCall
  <2>2. calls' = calls \cup {CancelCall(o)} /\ order[o].status = "OPEN"
    BY <1>8 DEF ReadForCancel
  <2>3. ~IsMarket(o)
    BY <2>2 DEF IInv, OrderInv
  <2> QED
    BY <1>0, <1>2, <2>1, <2>2, <2>3 DEF CallsInv, IsMarket
<1>9. CASE \E o \in Orders : Submit(o) \/ ReadForCancel(o)
  BY <1>2, <1>3, <1>7, <1>8, <1>9 DEF Submit, ReadForCancel
<1>10. CASE \E c \in calls : Refuse(c)
  BY <1>2, <1>3, <1>4, <1>10 DEF Refuse
<1>11. CASE StartPass
  <2>1. /\ OldestOpen # {} /\ OldestOpen \subseteq Orders
        /\ \A o \in OldestOpen : order[o].status = "OPEN"
    BY <1>11 DEF StartPass, OldestOpen, Open
  <2>2. matcher' = [step |-> "loop", todo |-> OldestOpen, o |-> None, price |-> 0]
    BY <1>11 DEF StartPass, Idle
  <2>3. \A o \in OldestOpen : order[o].status # "ABSENT" /\ ~IsMarket(o)
    BY <2>1 DEF IInv, OrderInv
  <2>4. /\ matcher' \in Matchers
        /\ matcher'.step = "loop" /\ matcher'.todo = OldestOpen
    BY <2>1, <2>2
  <2>5. MatcherInv'
    BY <1>0, <2>1, <2>3, <2>4 DEF MatcherInv, IsMarket
  <2> QED
    BY <1>2, <1>4, <1>11, <2>4, <2>5 DEF StartPass
<1>12. CASE ReadBook
  BY <1>2, <1>4, <1>12, ReadBookEffect DEF ReadBook
<1>13. CASE SkipOrder
  <2>1. MatcherInv' /\ matcher' \in Matchers
    BY <1>6, <1>13 DEF SkipOrder
  <2> QED
    BY <1>2, <1>4, <1>5, <1>13, <2>1 DEF SkipOrder
<1>14. CASE Restart
  <2>1. MatcherInv' /\ matcher' \in Matchers
    BY <1>14 DEF Restart, Idle, MatcherInv
  <2> QED
    BY <1>2, <1>4, <1>5, <1>14, <2>1 DEF Restart
<1>15. CASE MoveMarket \/ SetRate
  BY <1>2, <1>3, <1>4, <1>15 DEF MoveMarket, SetRate
<1>16. CASE Fill /\ UNCHANGED <<order, journal>>
  <2>1. MatcherInv' /\ matcher' \in Matchers
    BY <1>6, <1>16 DEF Fill
  <2> QED
    BY <1>2, <1>4, <1>16, <2>1 DEF Fill
<1>17. CASE UNCHANGED vars
  BY <1>2, <1>3, <1>4, <1>17 DEF vars
<1> QED
  BY <1>9, <1>10, <1>11, <1>12, <1>13, <1>14, <1>15, <1>16, <1>17

-----------------------------------------------------------------------------
(* What a step does to an order *)

\* A row appears, is filled, or is cancelled.
Created(o) ==
  /\ order[o].status = "ABSENT" /\ order'[o].status \in {"OPEN", "FILLED"}
  /\ UNCHANGED stale
Executed(o) ==
  /\ order[o].status = "OPEN" /\ order'[o].status = "FILLED"
  /\ UNCHANGED stale
Ended(o) ==
  /\ order[o].status # "ABSENT" /\ order'[o].status = "CANCELLED"
  /\ Posted("trade", o)' <=> Posted("trade", o)
  /\ stale' = IF order[o].status = "FILLED" THEN stale \cup {o} ELSE stale

Step ==
  \/ UNCHANGED <<order, journal, stale>>
  \/ \E o \in Orders : /\ \A v \in Orders \ {o} : Same(v)
                       /\ Created(o) \/ Executed(o) \/ Ended(o)

LEMMA EveryStep ==
  ASSUME IInv, [Next]_vars
  PROVE  IInv' /\ Step
<1>1. ASSUME NEW c \in calls, CreateLimit(c) \/ FillMarket(c)
      PROVE  IInv' /\ Step
  <2>1. c.o \in Orders
    BY DEF IInv, Typed
  <2>2. /\ IInv' /\ Created(c.o)
        /\ \A v \in Orders \ {c.o} : Same(v)
    BY <1>1, CreateLimitEffect, FillMarketEffect DEF Created
  <2> QED
    BY <2>1, <2>2 DEF Step
<1>2. ASSUME NEW o \in Orders, Cancel(o)
      PROVE  IInv' /\ Step
  BY <1>2, CancelEffect DEF Step, Ended
<1>3. CASE Fill /\ ~UNCHANGED <<order, journal>>
  <2>1. PICK o \in Orders : o = matcher.o
    BY <1>3 DEF Fill, IInv, MatcherInv
  <2>2. order[o].status = "OPEN"
    BY <1>3, <2>1 DEF Fill, Claimable
  <2>3. /\ IInv' /\ Executed(o)
        /\ \A v \in Orders \ {o} : Same(v)
    BY <1>3, <2>1, <2>2, FillEffect DEF Executed
  <2> QED
    BY <2>3 DEF Step
<1>4. CASE \/ \E o \in Orders : Submit(o) \/ ReadForCancel(o)
           \/ \E c \in calls : Refuse(c)
           \/ StartPass \/ ReadBook \/ SkipOrder \/ Restart \/ MoveMarket \/ SetRate
           \/ Fill /\ UNCHANGED <<order, journal>>
           \/ UNCHANGED vars
  BY <1>4, QuietEffect DEF Step
<1> QED
  BY <1>1, <1>2, <1>3, <1>4 DEF Next, Endpoint, MatcherStep

LEMMA InitInv == Init => IInv
<1> SUFFICES ASSUME Init
             PROVE  IInv
  OBVIOUS
<1>1. Typed
  <2>1. Rows = {}
    BY DEF Init, Rows, Absent
  <2>2. Idle \in [step : {"idle", "loop", "fill"}, todo : SUBSET Orders,
                  o : Orders \cup {None}, price : Nat]
    BY DEF Idle
  <2>3. Journal(journal)
    BY DEF Init, Journal, Entries
  <2> QED
    BY <2>1, <2>2, <2>3, AbsentType, FS_EmptySet, SpotOrdersAssumption DEF Init, Typed
<1>2. CallsInv /\ MatcherInv /\ ClientIdOnce
  BY DEF Init, CallsInv, MatcherInv, Idle, ClientIdOnce, Rows, Absent
<1>3. ASSUME NEW o \in Orders
      PROVE  OrderInv(o)
  <2>1. \A op \in Ops : ~Posted(op, o)
    BY DEF Init, Posted, Keys, Ops
  <2>2. ~Posted("reserve", o) /\ ~Posted("release", o) /\ ~Posted("trade", o)
    BY <2>1 DEF Ops
  <2>3. order[o].status = "ABSENT" /\ o \notin stale
    BY DEF Init, Absent
  <2> QED
    BY <2>1, <2>2, <2>3 DEF OrderInv
<1> QED
  BY <1>1, <1>2, <1>3 DEF IInv

LEMMA Invariance == Spec => []IInv
<1>1. Init => IInv
  BY InitInv
<1>2. IInv /\ [Next]_vars => IInv'
  BY EveryStep
<1> QED
  BY <1>1, <1>2, PTL DEF Spec

-----------------------------------------------------------------------------
(* The theorems *)

\* Every row, call, ledger entry and matcher state has its type; every entry
\* posted for an order moves a positive amount, at any price and any fee.
THEOREM TypeCorrect == Spec => []TypeOK
<1>1. IInv => TypeOK
  BY TypedType DEF IInv
<1> QED
  BY <1>1, Invariance, PTL

\* No limit order is filled past its limit although the book moves between the
\* matcher's look and its transaction, and no client order id makes two orders.
THEOREM FilledAsAskedAlways == Spec => []FilledAsAsked
<1>1. IInv => FilledAsAsked
  BY DEF IInv, OrderInv, WithinLimit, FilledAsAsked, FilledAtLimitOrBetter
<1> QED
  BY <1>1, Invariance, PTL

\* The stage of an order in Escrow is that of its status.
LEMMA StageType ==
  ASSUME NEW o \in Orders, OrderInv(o), order[o] \in Row
  PROVE  /\ order[o].status = "ABSENT" => StageOf(o) = "none" /\ o \notin stale
         /\ order[o].status = "OPEN" => StageOf(o) = "held"
         /\ order[o].status = "FILLED" => StageOf(o) = "spent"
         /\ order[o].status = "CANCELLED" /\ ~Posted("trade", o) => StageOf(o) = "returned"
         /\ order[o].status = "CANCELLED" /\ Posted("trade", o) => StageOf(o) = "both" /\ o \in stale
  BY DEF OrderInv, Row, Status, StageOf, Ops

Stage == [o \in Orders |-> StageOf(o)]

LEMMA StepKeepsPromise ==
  ASSUME IInv, IInv', Step
  PROVE  [Promise!Next]_(Promise!evars)
<1>1. CASE UNCHANGED <<order, journal, stale>>
  BY <1>1 DEF Promise!evars, StageOf, Posted
<1>2. ASSUME NEW o \in Orders, \A v \in Orders \ {o} : Same(v),
             Created(o) \/ Executed(o) \/ Ended(o)
      PROVE  [Promise!Next]_(Promise!evars)
  <2>1. \A v \in Orders \ {o} : StageOf(v)' = StageOf(v)
    <3>1. \A v \in Orders \ {o} : \A op \in Ops : Posted(op, v)' <=> Posted(op, v)
      BY <1>2 DEF Same, Posted
    <3> QED
      BY <3>1 DEF StageOf, Ops
  <2>2. Stage' = [Stage EXCEPT ![o] = StageOf(o)'] /\ Stage[o] = StageOf(o)
    BY <2>1 DEF Stage
  <2>3. /\ OrderInv(o) /\ order[o] \in Row
        /\ OrderInv(o)' /\ order'[o] \in Row
    BY DEF IInv, Typed
  <2>4. \/ StageOf(o) = "none" /\ StageOf(o)' \in {"held", "spent"}
        \/ StageOf(o) = "held" /\ StageOf(o)' \in {"spent", "returned"}
        \/ StageOf(o) = "spent" /\ StageOf(o)' = "both" /\ o \in stale'
        \/ StageOf(o) # "none" /\ StageOf(o)' = StageOf(o)
    <3>1. /\ order'[o].status = "OPEN" => StageOf(o)' = "held"
          /\ order'[o].status = "FILLED" => StageOf(o)' = "spent"
          /\ order'[o].status = "CANCELLED" /\ ~Posted("trade", o)' => StageOf(o)' = "returned"
          /\ order'[o].status = "CANCELLED" /\ Posted("trade", o)' => StageOf(o)' = "both" /\ o \in stale'
      BY <2>3 DEF OrderInv, Row, Status, StageOf, Ops
    <3> QED
      BY <1>2, <2>3, <3>1, StageType DEF Created, Executed, Ended, OrderInv, Row, Status
  <2>5. stale' \in {stale, stale \cup {o}}
    BY <1>2 DEF Created, Executed, Ended
  <2>6. ASSUME StageOf(o) # "none", StageOf(o)' = StageOf(o)
        PROVE  Promise!Contest(o)
    BY <2>2, <2>6 DEF Promise!Contest, Stage
  <2>7. \/ Promise!Hold(o) \/ Promise!Pay(o) \/ Promise!Spend(o) \/ Promise!Return(o)
        \/ Promise!Contest(o)
    BY <2>2, <2>4, <2>6
       DEF Promise!Hold, Promise!Pay, Promise!Spend, Promise!Return, Promise!Moves, Stage
  <2> QED
    BY <2>5, <2>7 DEF Promise!Next
<1> QED
  BY <1>1, <1>2 DEF Step

\* The order service implements Escrow: a reserve is spent by one fill or
\* returned by one cancellation, a market order pays once, and both happens only
\* to an order whose cancellation was written over its fill.
THEOREM KeepsThePromise == Spec => KeepsPromise
<1>1. Init => Promise!Init
  <2> SUFFICES ASSUME Init
               PROVE  Promise!Init
    OBVIOUS
  <2>1. \A o \in Orders : StageOf(o) = "none"
    BY InitInv, StageType DEF Init, Absent, IInv, Typed
  <2> QED
    BY <2>1 DEF Promise!Init, Init
<1>2. IInv /\ IInv' /\ [Next]_vars => [Promise!Next]_(Promise!evars)
  BY EveryStep, StepKeepsPromise
<1> QED
  BY <1>1, <1>2, Invariance, PTL DEF Spec, KeepsPromise, Promise!Spec

-----------------------------------------------------------------------------
(* Balances *)

LEMMA KeysFinite == IsFiniteSet(Keys) /\ \A o \in Orders : IsFiniteSet(KeysOf(o))
<1>1. IsFiniteSet({"reserve", "release", "trade", "fee", "unused"})
  <2>1. IsFiniteSet({"reserve"})
    BY FS_Singleton
  <2>2. IsFiniteSet({"reserve"} \cup {"release"})
    BY <2>1, FS_AddElement
  <2>3. IsFiniteSet(({"reserve"} \cup {"release"}) \cup {"trade"})
    BY <2>2, FS_AddElement
  <2>4. IsFiniteSet((({"reserve"} \cup {"release"}) \cup {"trade"}) \cup {"fee"})
    BY <2>3, FS_AddElement
  <2>5. IsFiniteSet(((({"reserve"} \cup {"release"}) \cup {"trade"}) \cup {"fee"}) \cup {"unused"})
    BY <2>4, FS_AddElement
  <2>6. {"reserve", "release", "trade", "fee", "unused"}
          = ((({"reserve"} \cup {"release"}) \cup {"trade"}) \cup {"fee"}) \cup {"unused"}
    OBVIOUS
  <2> QED
    BY <2>5, <2>6
<1>2. IsFiniteSet(Orders)
  BY SpotOrdersAssumption
<1>3. IsFiniteSet(Keys)
  BY <1>1, <1>2, FS_Product DEF Keys
<1>4. \A o \in Orders : KeysOf(o) \subseteq Keys
  BY DEF KeysOf
<1> QED
  BY <1>3, <1>4, FS_Subset

LEMMA KeysOfOrder ==
  ASSUME NEW o \in Orders
  PROVE  KeysOf(o) = {<<"reserve", o>>, <<"release", o>>, <<"trade", o>>, <<"fee", o>>, <<"unused", o>>}
  BY DEF KeysOf, Keys

\* A fee is at most what it is taken from.
LEMMA FeeBounded ==
  ASSUME NEW notional \in Nat, NEW r \in Nat, r <= RateBase
  PROVE  FeeOf(notional, r) <= notional
<1>1. PICK q \in Nat : q = FeeOf(notional, r)
  BY FeeType
<1>2. RateBase \in Nat \ {0} /\ notional * r \in Nat
  BY SpotOrdersAssumption
<1>3. RateBase * q <= notional * r
  BY <1>1, <1>2 DEF FeeOf
<1>4. notional * r <= notional * RateBase
  BY <1>2
<1>5. ASSUME q > notional
      PROVE  FALSE
  <2>1. PICK d \in Nat : q = notional + 1 + d
    <3>1. q - notional - 1 \in Nat /\ q = notional + 1 + (q - notional - 1)
      BY <1>5
    <3> QED
      BY <3>1
  <2>2. RateBase * q = notional * RateBase + RateBase + RateBase * d
    BY <1>2, <2>1
  <2>3. RateBase * d >= 0 /\ RateBase * d \in Int /\ notional * RateBase \in Int
    BY <1>2
  <2>4. RateBase * q > notional * RateBase
    BY <1>2, <2>2, <2>3
  <2> QED
    BY <1>2, <1>3, <1>4, <2>2, <2>3
<1> QED
  BY <1>1, <1>5

LEMMA NetInt ==
  ASSUME NEW entries \in Entries, NEW account
  PROVE  NetOf(entries, account) \in Int
<1>1. DOMAIN entries = 1..Len(entries) /\ Len(entries) \in Nat
  BY DEF Entries
<1>2. \A i \in DOMAIN entries : entries[i].amount \in Int
  <2>1. \A i \in 1..Len(entries) : entries[i] \in Entry
    BY DEF Entries
  <2> QED
    BY <1>1, <2>1 DEF Entry
<1> QED
  BY <1>1, <1>2, NetType

UserSpot(u, a) == <<"USER_SPOT", u, a>>

\* What a journal holds for an order, and the balance of a user.
HeldIn(j, o) == Holding([k \in KeysOf(o) |-> j[k]], Clearing(PaidIn(o)))
BalanceIn(j, u, a) == Funding[u][a] + Holding(j, UserSpot(u, a))

LEMMA HeldRecord ==
  ASSUME NEW j, Journal(j), NEW o \in Orders, NEW key \in KeysOf(o), NEW entries \in Entries
  PROVE  HeldIn(Record(j, key, entries), o)
           = HeldIn(j, o) + (IF Empty(j[key]) THEN NetOf(entries, Clearing(PaidIn(o))) ELSE 0)
<1> DEFINE own == [k \in KeysOf(o) |-> j[k]]
           a   == Clearing(PaidIn(o))
<1>1. KeysOf(o) \subseteq Keys /\ IsFiniteSet(KeysOf(o))
  BY KeysFinite DEF KeysOf
<1>2. \A k \in KeysOf(o) : j[k] \in Entries
  BY <1>1 DEF Journal
<1>3. Countable(own, a)
  BY <1>1, <1>2, NetInt DEF Countable
<1>4. [k \in KeysOf(o) |-> Record(j, key, entries)[k]] = Record(own, key, entries)
  BY <1>1 DEF Record, Journal
<1>5. DOMAIN own = KeysOf(o) /\ own[key] = j[key]
  OBVIOUS
<1>6. NetOf(entries, a) \in Int
  BY NetInt
<1> HIDE DEF own, a
<1>7. Holding(Record(own, key, entries), a)
        = Holding(own, a) + (IF own[key] = <<>> THEN NetOf(entries, a) ELSE 0)
  BY <1>3, <1>5, <1>6, HoldingRecord
<1>8. HeldIn(Record(j, key, entries), o) = Holding(Record(own, key, entries), a)
  BY <1>4 DEF HeldIn, a
<1>9. HeldIn(j, o) = Holding(own, a)
  BY DEF HeldIn, own, a
<1> QED
  BY <1>5, <1>7, <1>8, <1>9 DEF Empty, a

LEMMA HeldType ==
  ASSUME NEW j, Journal(j), NEW o \in Orders
  PROVE  HeldIn(j, o) \in Int
<1> DEFINE own == [k \in KeysOf(o) |-> j[k]]
<1>1. KeysOf(o) \subseteq Keys /\ IsFiniteSet(KeysOf(o))
  BY KeysFinite DEF KeysOf
<1>2. \A k \in KeysOf(o) : j[k] \in Entries
  BY <1>1 DEF Journal
<1>3. Countable(own, Clearing(PaidIn(o)))
  BY <1>1, <1>2, NetInt DEF Countable
<1> HIDE DEF own
<1>4. Holding(own, Clearing(PaidIn(o))) \in Int
  BY <1>3, HoldingType
<1> QED
  BY <1>4 DEF HeldIn, own

LEMMA BalanceRecord ==
  ASSUME NEW j, Journal(j), NEW u \in Users, NEW a \in Assets, NEW key \in Keys, NEW entries \in Entries
  PROVE  /\ BalanceIn(j, u, a) \in Int
         /\ BalanceIn(Record(j, key, entries), u, a)
              = BalanceIn(j, u, a) + (IF Empty(j[key]) THEN NetOf(entries, UserSpot(u, a)) ELSE 0)
<1>1. Countable(j, UserSpot(u, a))
  BY KeysFinite, NetInt DEF Countable, Journal
<1>2. key \in DOMAIN j
  BY DEF Journal
<1>3. NetOf(entries, UserSpot(u, a)) \in Int
  BY NetInt
<1>4. Holding(Record(j, key, entries), UserSpot(u, a))
        = Holding(j, UserSpot(u, a)) + (IF j[key] = <<>> THEN NetOf(entries, UserSpot(u, a)) ELSE 0)
  BY <1>1, <1>2, <1>3, HoldingRecord
<1>5. Holding(j, UserSpot(u, a)) \in Int
  BY <1>1, HoldingType
<1>6. Funding[u][a] \in Int
  BY SpotOrdersAssumption
<1> QED
  BY <1>3, <1>4, <1>5, <1>6 DEF BalanceIn, Empty

Mine(o, asset, u, a) == u = Owner[o] /\ a = asset

LEMMA Accounts ==
  ASSUME NEW o \in Orders, NEW asset, NEW other
  PROVE  /\ Clearing(asset) # Spot(o, other) /\ Clearing(asset) # BBook(other)
         /\ Clearing(asset) # Fees
         /\ \A u, a : /\ UserSpot(u, a) = Spot(o, asset) <=> Mine(o, asset, u, a)
                      /\ UserSpot(u, a) # Clearing(asset) /\ UserSpot(u, a) # BBook(asset)
                      /\ UserSpot(u, a) # Fees
  BY DEF Clearing, Spot, BBook, Fees, UserSpot, Mine

LEMMA ReserveNets ==
  ASSUME NEW o \in Orders, NEW n \in Nat, NEW u, NEW a
  PROVE  /\ NetOf(ReserveEntries(o, n), Clearing(PaidIn(o))) = n
         /\ NetOf(ReleaseEntries(o, n), Clearing(PaidIn(o))) = -n
         /\ NetOf(ReserveEntries(o, n), UserSpot(u, a)) = IF Mine(o, PaidIn(o), u, a) THEN -n ELSE 0
         /\ NetOf(ReleaseEntries(o, n), UserSpot(u, a)) = IF Mine(o, PaidIn(o), u, a) THEN n ELSE 0
<1> DEFINE s == Spot(o, PaidIn(o))
           c == Clearing(PaidIn(o))
<1>1. \A account : /\ NetOf(ReserveEntries(o, n), account) = Weight(account, c, n) - Weight(account, s, n)
                   /\ NetOf(ReleaseEntries(o, n), account) = Weight(account, s, n) - Weight(account, c, n)
  BY NetOfMove DEF ReserveEntries, ReleaseEntries
<1>2. c # s /\ UserSpot(u, a) # c /\ (UserSpot(u, a) = s <=> Mine(o, PaidIn(o), u, a))
  BY Accounts
<1> HIDE DEF c, s
<1>3. /\ Weight(c, c, n) = n /\ Weight(c, s, n) = 0 /\ Weight(UserSpot(u, a), c, n) = 0
      /\ Weight(UserSpot(u, a), s, n) = IF Mine(o, PaidIn(o), u, a) THEN n ELSE 0
  BY <1>2 DEF Weight
<1>4. /\ NetOf(ReserveEntries(o, n), c) = n /\ NetOf(ReleaseEntries(o, n), c) = -n
      /\ NetOf(ReserveEntries(o, n), UserSpot(u, a)) = IF Mine(o, PaidIn(o), u, a) THEN -n ELSE 0
      /\ NetOf(ReleaseEntries(o, n), UserSpot(u, a)) = IF Mine(o, PaidIn(o), u, a) THEN n ELSE 0
  BY <1>1, <1>3
<1> QED
  BY <1>4 DEF c

LEMMA UnusedNets ==
  ASSUME NEW o \in Orders, NEW n \in Nat, NEW u, NEW a
  PROVE  /\ NetOf(UnusedEntries(o, n), Clearing(PaidIn(o))) = -n
         /\ NetOf(UnusedEntries(o, n), UserSpot(u, a)) = IF Mine(o, PaidIn(o), u, a) THEN n ELSE 0
<1>1. CASE n > 0
  BY <1>1, ReserveNets DEF UnusedEntries
<1>2. CASE ~(n > 0)
  <2>1. n = 0 /\ UnusedEntries(o, n) = <<>>
    BY <1>2 DEF UnusedEntries
  <2> QED
    BY <2>1, NetOfNone
<1> QED
  BY <1>1, <1>2

LEMMA FeeNets ==
  ASSUME NEW from, NEW n \in Nat, NEW account, account # Fees
  PROVE  NetOf(FeeEntries(from, n), account) = -Weight(account, from, n)
<1>1. CASE n > 0
  <2>1. NetOf(FeeEntries(from, n), account) = Weight(account, Fees, n) - Weight(account, from, n)
    BY <1>1, NetOfMove DEF FeeEntries
  <2> QED
    BY <2>1 DEF Weight
<1>2. CASE ~(n > 0)
  <2>1. n = 0 /\ FeeEntries(from, n) = <<>>
    BY <1>2 DEF FeeEntries
  <2> QED
    BY <2>1, NetOfNone DEF Weight
<1> QED
  BY <1>1, <1>2

\* The two assets of a trade: what is given for what.
OtherOf(o) == IF Side[o] = "BUY" THEN "base" ELSE "quote"
Given(o, price) == IF Side[o] = "BUY" THEN Size[o] * price ELSE Size[o]
Taken(o, price) == IF Side[o] = "BUY" THEN Size[o] ELSE Size[o] * price

LEMMA TradeNets ==
  ASSUME NEW o \in Orders, NEW from, NEW price \in Nat \ {0}, NEW account,
         account # BBook("base"), account # BBook("quote")
  PROVE  NetOf(TradeEntries(o, from, price), account)
           = Weight(account, Spot(o, OtherOf(o)), Taken(o, price)) - Weight(account, from, Given(o, price))
<1>1. Size[o] \in Int /\ Size[o] * price \in Int
  BY CostType, 0 \in Nat
<1>2. CASE Side[o] = "BUY"
  <2>1. NetOf(TradeEntries(o, from, price), account)
          = Weight(account, BBook("quote"), Size[o] * price) - Weight(account, from, Size[o] * price)
              + Weight(account, Spot(o, "base"), Size[o]) - Weight(account, BBook("base"), Size[o])
    <3>1. TradeEntries(o, from, price)
            = <<Debit(from, Size[o] * price), Credit(BBook("quote"), Size[o] * price),
                Debit(BBook("base"), Size[o]), Credit(Spot(o, "base"), Size[o])>>
      BY <1>2 DEF TradeEntries
    <3> QED
      BY <1>1, <3>1, NetOfExchange
  <2>2. /\ Weight(account, BBook("quote"), Size[o] * price) = 0
        /\ Weight(account, BBook("base"), Size[o]) = 0
        /\ Weight(account, from, Size[o] * price) \in Int
        /\ Weight(account, Spot(o, "base"), Size[o]) \in Int
    BY <1>1 DEF Weight
  <2> QED
    BY <1>2, <2>1, <2>2 DEF OtherOf, Given, Taken
<1>3. CASE Side[o] # "BUY"
  <2>1. NetOf(TradeEntries(o, from, price), account)
          = Weight(account, BBook("base"), Size[o]) - Weight(account, from, Size[o])
              + Weight(account, Spot(o, "quote"), Size[o] * price)
              - Weight(account, BBook("quote"), Size[o] * price)
    <3>1. TradeEntries(o, from, price)
            = <<Debit(from, Size[o]), Credit(BBook("base"), Size[o]),
                Debit(BBook("quote"), Size[o] * price), Credit(Spot(o, "quote"), Size[o] * price)>>
      BY <1>3 DEF TradeEntries
    <3> QED
      BY <1>1, <3>1, NetOfExchange
  <2>2. /\ Weight(account, BBook("quote"), Size[o] * price) = 0
        /\ Weight(account, BBook("base"), Size[o]) = 0
        /\ Weight(account, from, Size[o]) \in Int
        /\ Weight(account, Spot(o, "quote"), Size[o] * price) \in Int
    BY <1>1 DEF Weight
  <2> QED
    BY <1>3, <2>1, <2>2 DEF OtherOf, Given, Taken
<1> QED
  BY <1>2, <1>3

-----------------------------------------------------------------------------
(* The inductive invariant of the balances *)

\* An order is written to the ledger from empty keys, and filled or cancelled
\* with none but its reserve.
Ledgered(o) ==
  /\ order[o].status = "ABSENT" => \A k \in KeysOf(o) : Empty(journal[k])
  /\ order[o].status = "OPEN" =>
       /\ \A op \in {"release", "trade", "fee", "unused"} : Empty(journal[<<op, o>>])
       /\ Side[o] = "SELL" => order[o].reserved = Size[o]

HeldOk(o) ==
  o \notin stale => HeldIn(journal, o) = IF order[o].status = "OPEN" THEN order[o].reserved ELSE 0

BalanceInv ==
  /\ IInv
  /\ \A c \in calls : c.op = "create" => c.rate <= RateBase
  /\ \A o \in Orders : Ledgered(o) /\ HeldOk(o)
  /\ \A u \in Users, a \in Assets : BalanceIn(journal, u, a) >= 0

LEMMA BalanceInvHolds == BalanceInv => BalancesHold
<1>1. \A o \in Orders : HeldFor(o) = HeldIn(journal, o)
  BY DEF HeldFor, HeldIn
<1>2. \A u \in Users, a \in Assets : SpotBalance(u, a) = BalanceIn(journal, u, a)
  BY DEF SpotBalance, BalanceIn, UserSpot
<1> QED
  BY <1>1, <1>2 DEF BalanceInv, HeldOk, BalancesHold, ReserveAccounted, SpotNonNegative

\* What is written under the keys of one order does not concern another.
LEMMA OtherKept ==
  ASSUME NEW o \in Orders, NEW v \in Orders \ {o},
         \A k \in Keys \ KeysOf(o) : journal'[k] = journal[k], Same(v),
         Ledgered(v), HeldOk(v)
  PROVE  Ledgered(v)' /\ HeldOk(v)'
<1>1. \A k \in KeysOf(v) : k \in Keys \ KeysOf(o)
  BY DEF KeysOf
<1>2. \A k \in KeysOf(v) : journal'[k] = journal[k]
  BY <1>1
<1>3. \A op \in {"release", "trade", "fee", "unused"} : <<op, v>> \in KeysOf(v)
  BY KeysOfOrder
<1>4. Ledgered(v)'
  BY <1>2, <1>3 DEF Ledgered, Same
<1>5. [k \in KeysOf(v) |-> journal'[k]] = [k \in KeysOf(v) |-> journal[k]]
  BY <1>2
<1>6. HeldIn(journal', v) = HeldIn(journal, v)
  BY <1>5 DEF HeldIn
<1>7. HeldOk(v)'
  BY <1>6 DEF HeldOk, Same
<1> QED
  BY <1>4, <1>7

LEMMA CallRates ==
  ASSUME BalanceInv, [Next]_vars
  PROVE  \A c \in calls' : c.op = "create" => c.rate <= RateBase
<1>1. ASSUME NEW o \in Orders, Submit(o)
      PROVE  \A c \in calls' : c.op = "create" => c.rate <= RateBase
  <2>1. rate <= RateBase
    BY SpotOrdersAssumption DEF BalanceInv, IInv, Typed
  <2> QED
    BY <1>1, <2>1 DEF Submit, BalanceInv
<1>2. ASSUME NEW o \in Orders, ReadForCancel(o)
      PROVE  \A c \in calls' : c.op = "create" => c.rate <= RateBase
  BY <1>2 DEF ReadForCancel, CancelCall, BalanceInv
<1>3. ASSUME calls' \subseteq calls
      PROVE  \A c \in calls' : c.op = "create" => c.rate <= RateBase
  BY <1>3 DEF BalanceInv
<1>4. CASE \E o \in Orders : Cancel(o)
  BY <1>3, <1>4 DEF Cancel
<1>5. CASE \E c \in calls : CreateLimit(c) \/ FillMarket(c) \/ Refuse(c)
  BY <1>3, <1>5 DEF CreateLimit, FillMarket, Insert, Refuse
<1>6. CASE MatcherStep \/ SkipOrder \/ Restart \/ MoveMarket \/ SetRate \/ UNCHANGED vars
  BY <1>3, <1>6 DEF MatcherStep, StartPass, ReadBook, Fill, SkipOrder, Restart, MoveMarket, SetRate, vars
<1> QED
  BY <1>1, <1>2, <1>4, <1>5, <1>6 DEF Next, Endpoint

\* What one step does to the balances of its order.
BalanceStep(o) ==
  /\ Ledgered(o)' /\ HeldOk(o)'
  /\ \A k \in Keys \ KeysOf(o) : journal'[k] = journal[k]
  /\ \A u \in Users, a \in Assets : BalanceIn(journal', u, a) >= 0

LEMMA CreateLimitBalances ==
  ASSUME BalanceInv, NEW c \in calls, CreateLimit(c)
  PROVE  BalanceStep(c.o)
<1> DEFINE o   == c.o
           key == <<"reserve", o>>
           n   == Needed(c)
<1>1. /\ c \in [op : {"create", "cancel"}, o : Orders, price : Nat, rate : Nat]
      /\ ~IsMarket(o) /\ Limit[o] \in Nat \ {0} /\ o \in Orders
  BY SpotOrdersAssumption DEF CreateLimit, BalanceInv, IInv, Typed, IsMarket
<1>2. n \in Nat \ {0} /\ (Side[o] = "SELL" => n = Size[o])
  BY <1>1, CostType DEF Needed, CostAt
<1>3. /\ order[o].status = "ABSENT" /\ order'[o].status = "OPEN"
      /\ order'[o].reserved = n /\ UNCHANGED stale
  BY CreateLimitEffect DEF BalanceInv
<1>4. SpotBalance(Owner[o], PaidIn(o)) >= n /\ Owner[o] \in Users
  BY <1>1, SpotOrdersAssumption DEF CreateLimit, Insert, Affordable
<1>5. /\ journal' = Record(journal, key, ReserveEntries(o, n))
      /\ ReserveEntries(o, n) \in Entries /\ Journal(journal)
  BY <1>1, <1>2, ReserveEntriesType DEF CreateLimit, BalanceInv, IInv, Typed, Entries
<1>6. /\ key \in KeysOf(o) /\ key \in Keys /\ KeysOf(o) \subseteq Keys
      /\ \A k \in KeysOf(o) : Empty(journal[k])
      /\ o \notin stale /\ HeldIn(journal, o) = 0
  <2>1. Ledgered(o) /\ HeldOk(o) /\ OrderInv(o)
    BY <1>1 DEF BalanceInv, IInv
  <2> QED
    BY <1>1, <1>3, <2>1, KeysOfOrder DEF KeysOf, Ledgered, HeldOk, OrderInv
<1> HIDE DEF n, o
<1>7. HeldIn(journal', o) = n
  <2>1. NetOf(ReserveEntries(o, n), Clearing(PaidIn(o))) = n
    BY <1>1, <1>2, ReserveNets
  <2> QED
    BY <1>1, <1>2, <1>5, <1>6, <2>1, HeldRecord
<1>8. \A k \in Keys \ {key} : journal'[k] = journal[k]
  BY <1>5, <1>6, RecordType
<1>9. Ledgered(o)'
  <2>1. \A op \in {"release", "trade", "fee", "unused"} :
          <<op, o>> \in Keys \ {key} /\ <<op, o>> \in KeysOf(o)
    BY <1>1, KeysOfOrder DEF Keys
  <2> QED
    BY <1>2, <1>3, <1>6, <1>8, <2>1 DEF Ledgered
<1>10. HeldOk(o)'
  BY <1>3, <1>7 DEF HeldOk
<1>11. ASSUME NEW u \in Users, NEW a \in Assets
       PROVE  BalanceIn(journal', u, a) >= 0
  <2>1. NetOf(ReserveEntries(o, n), UserSpot(u, a)) = IF Mine(o, PaidIn(o), u, a) THEN -n ELSE 0
    BY <1>1, <1>2, ReserveNets
  <2>2. /\ BalanceIn(journal, u, a) \in Int
        /\ BalanceIn(journal', u, a)
             = BalanceIn(journal, u, a) + (IF Mine(o, PaidIn(o), u, a) THEN -n ELSE 0)
    BY <1>5, <1>6, <2>1, BalanceRecord
  <2>3. BalanceIn(journal, u, a) >= 0
    BY DEF BalanceInv
  <2>4. Mine(o, PaidIn(o), u, a) => BalanceIn(journal, u, a) >= n
    BY <1>4 DEF Mine, SpotBalance, BalanceIn, UserSpot
  <2> QED
    BY <1>2, <2>2, <2>3, <2>4
<1> QED
  BY <1>6, <1>8, <1>9, <1>10, <1>11 DEF BalanceStep, o

LEMMA CancelBalances ==
  ASSUME BalanceInv, NEW o \in Orders, Cancel(o)
  PROVE  BalanceStep(o)
<1> DEFINE key == <<"release", o>>
           n   == order[o].reserved
<1>1. /\ order[o].status # "ABSENT" /\ order'[o].status = "CANCELLED"
      /\ stale' = IF order[o].status = "FILLED" THEN stale \cup {o} ELSE stale
  BY CancelEffect DEF BalanceInv
<1>2. OrderInv(o) /\ order[o] \in Row /\ Ledgered(o) /\ HeldOk(o) /\ Journal(journal)
  BY DEF BalanceInv, IInv, Typed
<1>3. n \in Nat \ {0}
  <2>1. ~IsMarket(o)
    BY DEF Cancel, CancelCall, BalanceInv, IInv, CallsInv
  <2> QED
    BY <1>1, <1>2, <2>1 DEF OrderInv, Row
<1>4. /\ journal' = Record(journal, key, ReleaseEntries(o, n))
      /\ ReleaseEntries(o, n) \in Entries
  BY <1>3, ReserveEntriesType DEF Cancel, Released, Entries
<1>5. key \in KeysOf(o) /\ key \in Keys /\ KeysOf(o) \subseteq Keys
  BY KeysOfOrder DEF KeysOf
<1>6. \A k \in Keys \ {key} : journal'[k] = journal[k]
  BY <1>2, <1>4, <1>5, RecordType
<1>7. HeldIn(journal', o) = HeldIn(journal, o) + (IF Empty(journal[key]) THEN -n ELSE 0)
  <2>1. NetOf(ReleaseEntries(o, n), Clearing(PaidIn(o))) = -n
    BY <1>3, ReserveNets
  <2> QED
    BY <1>2, <1>4, <1>5, <2>1, HeldRecord
<1>8. HeldOk(o)'
  <2>1. CASE order[o].status = "OPEN"
    <3>1. Empty(journal[key])
      BY <1>2, <2>1 DEF Ledgered
    <3> QED
      BY <1>1, <1>2, <1>3, <1>7, <2>1, <3>1 DEF HeldOk
  <2>2. CASE order[o].status = "CANCELLED"
    <3>1. ~Empty(journal[key])
      BY <1>2, <2>2 DEF OrderInv, Posted, Empty
    <3>2. HeldIn(journal, o) \in Int
      BY <1>2, HeldType
    <3> QED
      BY <1>1, <1>2, <1>7, <2>2, <3>1, <3>2 DEF HeldOk
  <2>3. CASE order[o].status = "FILLED"
    BY <1>1, <2>3 DEF HeldOk
  <2> QED
    BY <1>1, <1>2, <2>1, <2>2, <2>3 DEF Row, Status
<1>9. Ledgered(o)'
  BY <1>1 DEF Ledgered
<1>10. ASSUME NEW u \in Users, NEW a \in Assets
       PROVE  BalanceIn(journal', u, a) >= 0
  <2>1. NetOf(ReleaseEntries(o, n), UserSpot(u, a)) = IF Mine(o, PaidIn(o), u, a) THEN n ELSE 0
    BY <1>3, ReserveNets
  <2>2. /\ BalanceIn(journal, u, a) \in Int
        /\ BalanceIn(journal', u, a) = BalanceIn(journal, u, a)
             + (IF Empty(journal[key]) THEN NetOf(ReleaseEntries(o, n), UserSpot(u, a)) ELSE 0)
    BY <1>2, <1>4, <1>5, BalanceRecord
  <2>3. BalanceIn(journal, u, a) >= 0
    BY DEF BalanceInv
  <2> QED
    BY <1>3, <2>1, <2>2, <2>3
<1> QED
  BY <1>5, <1>6, <1>8, <1>9, <1>10 DEF BalanceStep

LEMMA FillMarketBalances ==
  ASSUME BalanceInv, NEW c \in calls, FillMarket(c)
  PROVE  BalanceStep(c.o)
<1> DEFINE o     == c.o
           price == c.price
           from  == Spot(o, PaidIn(o))
           fee   == FeeOf(Size[o] * price, c.rate)
           trade == TradeEntries(o, from, price)
           fees  == FeeEntries(Spot(o, "quote"), fee)
           j1    == Record(journal, <<"trade", o>>, trade)
<1>1. /\ c \in [op : {"create", "cancel"}, o : Orders, price : Nat, rate : Nat]
      /\ IsMarket(o) /\ o \in Orders /\ c.op = "create"
  BY DEF FillMarket, Insert, BalanceInv, IInv, Typed
<1>2. price \in Nat \ {0} /\ c.rate \in Nat /\ c.rate <= RateBase
  BY <1>1 DEF BalanceInv, IInv, CallsInv
<1>3. order[o].status = "ABSENT" /\ order'[o].status = "FILLED" /\ UNCHANGED stale
  BY FillMarketEffect DEF BalanceInv
<1>4. /\ Size[o] \in Nat \ {0} /\ Size[o] * price \in Nat \ {0}
      /\ fee \in Nat /\ fee <= Size[o] * price
  BY <1>1, <1>2, CostType, FeeType, FeeBounded
<1>5. /\ SpotBalance(Owner[o], PaidIn(o)) >= Needed(c) /\ Owner[o] \in Users
      /\ Side[o] = "BUY" => Needed(c) = Size[o] * price + fee
      /\ Side[o] # "BUY" => Needed(c) = Size[o]
  BY <1>1, SpotOrdersAssumption DEF FillMarket, Insert, Affordable, Needed, CostAt
<1>6. journal' = Record(j1, <<"fee", o>>, fees)
  BY DEF FillMarket
<1>7. /\ <<"trade", o>> \in KeysOf(o) /\ <<"fee", o>> \in KeysOf(o)
      /\ KeysOf(o) \subseteq Keys /\ <<"trade", o>> # <<"fee", o>>
      /\ <<"trade", o>> \in Keys /\ <<"fee", o>> \in Keys
      /\ \A k \in KeysOf(o) : Empty(journal[k])
      /\ o \notin stale /\ HeldIn(journal, o) = 0
  <2>1. Ledgered(o) /\ HeldOk(o) /\ OrderInv(o)
    BY <1>1 DEF BalanceInv, IInv
  <2> QED
    BY <1>1, <1>3, <2>1, KeysOfOrder DEF KeysOf, Ledgered, HeldOk, OrderInv
<1>8. Journal(journal) /\ trade \in Entries /\ fees \in Entries
  <2>1. trade \in Entries
    BY <1>1, <1>2, TradeEntriesType DEF Entries
  <2>2. fees \in Entries
    BY <1>1, <1>4, FeeEntriesType DEF Entries
  <2> QED
    BY <2>1, <2>2 DEF BalanceInv, IInv, Typed
<1>n. /\ NetOf(trade, Clearing(PaidIn(o))) = 0 /\ NetOf(fees, Clearing(PaidIn(o))) = 0
      /\ \A u, a : /\ NetOf(trade, UserSpot(u, a))
                        = (IF Mine(o, OtherOf(o), u, a) THEN Taken(o, price) ELSE 0)
                            - (IF Mine(o, PaidIn(o), u, a) THEN Given(o, price) ELSE 0)
                   /\ NetOf(fees, UserSpot(u, a)) = -(IF Mine(o, "quote", u, a) THEN fee ELSE 0)
  <2>1. \A account : account # BBook("base") /\ account # BBook("quote") =>
          NetOf(trade, account) = Weight(account, Spot(o, OtherOf(o)), Taken(o, price))
                                    - Weight(account, from, Given(o, price))
    BY <1>1, <1>2, TradeNets
  <2>2. \A account : account # Fees => NetOf(fees, account) = -Weight(account, Spot(o, "quote"), fee)
    BY <1>4, FeeNets
  <2> DEFINE clearing == Clearing(PaidIn(o))
  <2>3. /\ clearing # BBook("base") /\ clearing # BBook("quote") /\ clearing # Fees
        /\ clearing # Spot(o, OtherOf(o)) /\ clearing # from /\ clearing # Spot(o, "quote")
    BY <1>1, Accounts
  <2>4. \A u, a :
          /\ UserSpot(u, a) # BBook("base") /\ UserSpot(u, a) # BBook("quote") /\ UserSpot(u, a) # Fees
          /\ UserSpot(u, a) = Spot(o, OtherOf(o)) <=> Mine(o, OtherOf(o), u, a)
          /\ UserSpot(u, a) = from <=> Mine(o, PaidIn(o), u, a)
          /\ UserSpot(u, a) = Spot(o, "quote") <=> Mine(o, "quote", u, a)
    BY <1>1, Accounts
  <2> HIDE DEF trade, fees, fee, clearing, from
  <2>5. NetOf(trade, clearing) = 0 /\ NetOf(fees, clearing) = 0
    BY <2>1, <2>2, <2>3 DEF Weight
  <2>6. ASSUME NEW u, NEW a
        PROVE  /\ NetOf(trade, UserSpot(u, a))
                    = (IF Mine(o, OtherOf(o), u, a) THEN Taken(o, price) ELSE 0)
                        - (IF Mine(o, PaidIn(o), u, a) THEN Given(o, price) ELSE 0)
               /\ NetOf(fees, UserSpot(u, a)) = -(IF Mine(o, "quote", u, a) THEN fee ELSE 0)
    BY <2>1, <2>2, <2>4 DEF Weight
  <2> QED
    BY <2>5, <2>6 DEF clearing
<1> HIDE DEF o, price, fee, trade, fees, j1
<1>9. /\ Journal(j1) /\ \A k \in Keys \ {<<"trade", o>>} : j1[k] = journal[k]
      /\ \A k \in Keys \ {<<"fee", o>>} : journal'[k] = j1[k]
  <2>1. Journal(j1) /\ \A k \in Keys \ {<<"trade", o>>} : j1[k] = journal[k]
    BY <1>7, <1>8, RecordType DEF j1
  <2> QED
    BY SMTT(30), <1>6, <1>7, <1>8, <2>1, RecordType
<1>10. Empty(journal[<<"trade", o>>]) /\ Empty(j1[<<"fee", o>>])
  BY <1>7, <1>9
<1>11. HeldIn(journal', o) = 0
  <2>1. HeldIn(j1, o) = 0
    BY <1>1, <1>7, <1>8, <1>10, <1>n, HeldRecord DEF j1
  <2> QED
    BY <1>1, <1>6, <1>7, <1>8, <1>9, <1>10, <1>n, <2>1, HeldRecord
<1>12. Ledgered(o)' /\ HeldOk(o)'
  BY <1>3, <1>11 DEF Ledgered, HeldOk
<1>13. \A k \in Keys \ KeysOf(o) : journal'[k] = journal[k]
  BY <1>7, <1>9
<1>14. ASSUME NEW u \in Users, NEW a \in Assets
       PROVE  BalanceIn(journal', u, a) >= 0
  <2>1. /\ BalanceIn(journal, u, a) \in Int
        /\ BalanceIn(j1, u, a) = BalanceIn(journal, u, a) + NetOf(trade, UserSpot(u, a))
    BY <1>7, <1>8, <1>10, BalanceRecord DEF j1
  <2>2. BalanceIn(journal', u, a) = BalanceIn(j1, u, a) + NetOf(fees, UserSpot(u, a))
    BY <1>6, <1>7, <1>8, <1>9, <1>10, BalanceRecord
  <2>3. BalanceIn(journal, u, a) >= 0
    BY DEF BalanceInv
  <2>4. Mine(o, PaidIn(o), u, a) => BalanceIn(journal, u, a) >= Needed(c)
    BY <1>5 DEF Mine, SpotBalance, BalanceIn, UserSpot
  <2>5. CASE Side[o] = "BUY"
    <3>1. /\ PaidIn(o) = "quote" /\ OtherOf(o) = "base"
          /\ Given(o, price) = Size[o] * price /\ Taken(o, price) = Size[o]
      BY <2>5 DEF PaidIn, OtherOf, Given, Taken
    <3>2. ~(Mine(o, "quote", u, a) /\ Mine(o, "base", u, a))
      BY DEF Mine
    <3> QED
      BY <1>4, <1>5, <1>n, <2>1, <2>2, <2>3, <2>4, <2>5, <3>1, <3>2
  <2>6. CASE Side[o] # "BUY"
    <3>1. /\ PaidIn(o) = "base" /\ OtherOf(o) = "quote"
          /\ Given(o, price) = Size[o] /\ Taken(o, price) = Size[o] * price
      BY <2>6 DEF PaidIn, OtherOf, Given, Taken
    <3>2. ~(Mine(o, "quote", u, a) /\ Mine(o, "base", u, a))
      BY DEF Mine
    <3> QED
      BY <1>4, <1>5, <1>n, <2>1, <2>2, <2>3, <2>4, <2>6, <3>1, <3>2
  <2> QED
    BY <2>5, <2>6
<1> QED
  BY <1>12, <1>13, <1>14 DEF BalanceStep, o

LEMMA FillBalances ==
  ASSUME BalanceInv, Fill, NEW o \in Orders, o = matcher.o,
         order[o].status = "OPEN", ~UNCHANGED <<order, journal>>
  PROVE  BalanceStep(o)
<1> DEFINE price   == matcher.price
           cost    == CostAt(o, price, rate)
           fee     == FeeOf(Size[o] * price, rate)
           feeFrom == IF Side[o] = "BUY" THEN Clearing("quote") ELSE Spot(o, "quote")
           rest    == Unused(o, cost)
           trade   == TradeEntries(o, Clearing(PaidIn(o)), price)
           fees    == FeeEntries(feeFrom, fee)
           unused  == UnusedEntries(o, rest)
           j1      == Record(journal, <<"trade", o>>, trade)
           j2      == Record(j1, <<"fee", o>>, fees)
<1>1. /\ price \in Nat \ {0} /\ order[o] \in Row
      /\ rate \in Nat /\ rate <= RateBase
  BY SpotOrdersAssumption DEF Fill, BalanceInv, IInv, MatcherInv, Typed
<1>2. order'[o].status = "FILLED" /\ UNCHANGED stale
  BY FillEffect DEF BalanceInv
<1>3. /\ Side[o] = "BUY" => order[o].reserved >= cost
      /\ journal' = Record(j2, <<"unused", o>>, unused)
  BY DEF Fill
<1>4. /\ Size[o] \in Nat \ {0} /\ Size[o] * price \in Nat \ {0}
      /\ fee \in Nat /\ fee <= Size[o] * price
      /\ Side[o] = "BUY" => cost = Size[o] * price + fee
      /\ Side[o] # "BUY" => cost = Size[o]
  BY <1>1, CostType, FeeType, FeeBounded DEF CostAt
<1>5. /\ rest \in Nat /\ order[o].reserved \in Nat
      /\ Side[o] = "BUY" => rest = order[o].reserved - cost
      /\ Side[o] # "BUY" => rest = 0
  BY <1>1, <1>3, <1>4 DEF Unused, Row
<1>6. /\ \A op \in {"trade", "fee", "unused"} :
           <<op, o>> \in KeysOf(o) /\ <<op, o>> \in Keys /\ Empty(journal[<<op, o>>])
      /\ KeysOf(o) \subseteq Keys
      /\ HeldOk(o) /\ HeldIn(journal, o) \in Int
      /\ Side[o] = "SELL" => order[o].reserved = Size[o]
  <2>1. Ledgered(o) /\ HeldOk(o) /\ Journal(journal)
    BY DEF BalanceInv, IInv, Typed
  <2> QED
    BY <2>1, KeysOfOrder, HeldType DEF KeysOf, Ledgered
<1>7. Journal(journal) /\ trade \in Entries /\ fees \in Entries /\ unused \in Entries
  <2>1. trade \in Entries
    BY <1>1, TradeEntriesType DEF Entries
  <2>2. fees \in Entries
    BY <1>1, <1>4, FeeEntriesType DEF Entries
  <2>3. unused \in Entries
    BY <1>5, UnusedEntriesType DEF Entries
  <2> QED
    BY <2>1, <2>2, <2>3 DEF BalanceInv, IInv, Typed
<1>8. /\ NetOf(trade, Clearing(PaidIn(o))) = -Given(o, price)
      /\ NetOf(fees, Clearing(PaidIn(o))) = IF Side[o] = "BUY" THEN -fee ELSE 0
      /\ NetOf(unused, Clearing(PaidIn(o))) = -rest
      /\ \A u, a : /\ NetOf(trade, UserSpot(u, a))
                        = IF Mine(o, OtherOf(o), u, a) THEN Taken(o, price) ELSE 0
                   /\ NetOf(fees, UserSpot(u, a))
                        = IF Side[o] # "BUY" /\ Mine(o, "quote", u, a) THEN -fee ELSE 0
                   /\ NetOf(unused, UserSpot(u, a)) = IF Mine(o, PaidIn(o), u, a) THEN rest ELSE 0
  <2> DEFINE clearing == Clearing(PaidIn(o))
  <2>1. \A account : account # BBook("base") /\ account # BBook("quote") =>
          NetOf(trade, account) = Weight(account, Spot(o, OtherOf(o)), Taken(o, price))
                                    - Weight(account, clearing, Given(o, price))
    BY <1>1, TradeNets
  <2>2. \A account : account # Fees => NetOf(fees, account) = -Weight(account, feeFrom, fee)
    BY <1>4, FeeNets
  <2>3. /\ NetOf(unused, clearing) = -rest
        /\ \A u, a : NetOf(unused, UserSpot(u, a)) = IF Mine(o, PaidIn(o), u, a) THEN rest ELSE 0
    BY <1>5, UnusedNets
  <2>4. /\ clearing # BBook("base") /\ clearing # BBook("quote") /\ clearing # Fees
        /\ clearing # Spot(o, OtherOf(o)) /\ clearing # Spot(o, "quote")
        /\ Side[o] = "BUY" => clearing = Clearing("quote")
    BY Accounts DEF PaidIn
  <2>5. \A u, a :
          /\ UserSpot(u, a) # BBook("base") /\ UserSpot(u, a) # BBook("quote") /\ UserSpot(u, a) # Fees
          /\ UserSpot(u, a) = Spot(o, OtherOf(o)) <=> Mine(o, OtherOf(o), u, a)
          /\ UserSpot(u, a) # clearing /\ UserSpot(u, a) # Clearing("quote")
          /\ UserSpot(u, a) = Spot(o, "quote") <=> Mine(o, "quote", u, a)
    BY Accounts
  <2>6. /\ Given(o, price) \in Int /\ Taken(o, price) \in Int /\ fee \in Int
    BY <1>4 DEF Given, Taken
  <2> HIDE DEF trade, fees, unused, fee, clearing, price, rest
  <2>7. /\ NetOf(trade, clearing) = -Given(o, price)
        /\ NetOf(fees, clearing) = IF Side[o] = "BUY" THEN -fee ELSE 0
    BY <2>1, <2>2, <2>4, <2>6 DEF Weight
  <2>8. ASSUME NEW u, NEW a
        PROVE  /\ NetOf(trade, UserSpot(u, a))
                    = IF Mine(o, OtherOf(o), u, a) THEN Taken(o, price) ELSE 0
               /\ NetOf(fees, UserSpot(u, a))
                    = IF Side[o] # "BUY" /\ Mine(o, "quote", u, a) THEN -fee ELSE 0
    BY <2>1, <2>2, <2>5, <2>6 DEF Weight
  <2> QED
    BY <2>3, <2>7, <2>8 DEF clearing
<1> HIDE DEF price, cost, fee, rest, trade, fees, unused, j1, j2
<1>9. /\ Journal(j1) /\ \A k \in Keys \ {<<"trade", o>>} : j1[k] = journal[k]
      /\ Journal(j2) /\ \A k \in Keys \ {<<"fee", o>>} : j2[k] = j1[k]
      /\ \A k \in Keys \ {<<"unused", o>>} : journal'[k] = j2[k]
  <2>k. <<"trade", o>> \in Keys /\ <<"fee", o>> \in Keys /\ <<"unused", o>> \in Keys
    BY <1>6
  <2>1. Journal(j1) /\ \A k \in Keys \ {<<"trade", o>>} : j1[k] = journal[k]
    BY <1>7, <2>k, RecordType DEF j1
  <2>2. Journal(j2) /\ \A k \in Keys \ {<<"fee", o>>} : j2[k] = j1[k]
    BY <1>7, <2>k, <2>1, RecordType DEF j2
  <2>3. \A k \in Keys \ {<<"unused", o>>} : journal'[k] = j2[k]
    <3>1. \A k \in Keys \ {<<"unused", o>>} : Record(j2, <<"unused", o>>, unused)[k] = j2[k]
      BY <1>7, <2>k, <2>2, RecordType
    <3> QED
      BY <1>3, <3>1
  <2> QED
    BY <2>1, <2>2, <2>3
<1>10. /\ Empty(journal[<<"trade", o>>]) /\ Empty(j1[<<"fee", o>>]) /\ Empty(j2[<<"unused", o>>])
       /\ <<"trade", o>> \in KeysOf(o) /\ <<"fee", o>> \in KeysOf(o) /\ <<"unused", o>> \in KeysOf(o)
       /\ <<"trade", o>> \in Keys /\ <<"fee", o>> \in Keys /\ <<"unused", o>> \in Keys
  <2>1. <<"fee", o>> # <<"trade", o>> /\ <<"unused", o>> # <<"trade", o>> /\ <<"unused", o>> # <<"fee", o>>
    OBVIOUS
  <2> QED
    BY <1>6, <1>9, <2>1
<1>11. HeldOk(o)'
  <2>1. HeldIn(j1, o) = HeldIn(journal, o) - Given(o, price)
    BY <1>4, <1>6, <1>7, <1>8, <1>10, HeldRecord DEF j1, Given
  <2>2. HeldIn(j2, o) = HeldIn(j1, o) - (IF Side[o] = "BUY" THEN fee ELSE 0)
    BY <1>4, <1>7, <1>8, <1>9, <1>10, HeldRecord, HeldType DEF j2
  <2>3. HeldIn(journal', o) = HeldIn(j2, o) - rest
    BY <1>3, <1>5, <1>7, <1>8, <1>9, <1>10, HeldRecord, HeldType
  <2>4. Given(o, price) = IF Side[o] = "BUY" THEN Size[o] * price ELSE Size[o]
    BY DEF Given
  <2>5. Side[o] # "BUY" => order[o].reserved = Size[o]
    BY <1>6, SpotOrdersAssumption
  <2>6. o \notin stale => HeldIn(journal', o) = 0
    BY <1>4, <1>5, <1>6, <2>1, <2>2, <2>3, <2>4, <2>5 DEF HeldOk
  <2> QED
    BY <1>2, <2>6 DEF HeldOk
<1>12. Ledgered(o)'
  BY <1>2 DEF Ledgered
<1>13. \A k \in Keys \ KeysOf(o) : journal'[k] = journal[k]
  BY <1>9, <1>10
<1>14. ASSUME NEW u \in Users, NEW a \in Assets
       PROVE  BalanceIn(journal', u, a) >= 0
  <2>1. /\ BalanceIn(journal, u, a) \in Int
        /\ BalanceIn(j1, u, a) = BalanceIn(journal, u, a) + NetOf(trade, UserSpot(u, a))
    BY <1>7, <1>10, BalanceRecord DEF j1
  <2>2. BalanceIn(j2, u, a) = BalanceIn(j1, u, a) + NetOf(fees, UserSpot(u, a))
    BY <1>7, <1>9, <1>10, BalanceRecord DEF j2
  <2>3. BalanceIn(journal', u, a) = BalanceIn(j2, u, a) + NetOf(unused, UserSpot(u, a))
    BY <1>3, <1>7, <1>9, <1>10, BalanceRecord
  <2>4. BalanceIn(journal, u, a) >= 0
    BY DEF BalanceInv
  <2>5. /\ Side[o] # "BUY" => OtherOf(o) = "quote"
        /\ Taken(o, price) = IF Side[o] = "BUY" THEN Size[o] ELSE Size[o] * price
    BY DEF OtherOf, Taken
  <2> QED
    BY <1>4, <1>5, <1>8, <2>1, <2>2, <2>3, <2>4, <2>5
<1> QED
  BY <1>11, <1>12, <1>13, <1>14 DEF BalanceStep

LEMMA BalanceNext ==
  ASSUME BalanceInv, [Next]_vars
  PROVE  BalanceInv'
<1>1. IInv' /\ Step
  BY EveryStep DEF BalanceInv
<1>2. \A c \in calls' : c.op = "create" => c.rate <= RateBase
  BY CallRates
<1>3. ASSUME NEW o \in Orders, BalanceStep(o), \A v \in Orders \ {o} : Same(v)
      PROVE  BalanceInv'
  <2>1. \A v \in Orders \ {o} : Ledgered(v)' /\ HeldOk(v)'
    BY <1>3, OtherKept DEF BalanceStep, BalanceInv
  <2>2. \A v \in Orders : Ledgered(v)' /\ HeldOk(v)'
    BY <1>3, <2>1 DEF BalanceStep
  <2> QED
    BY <1>1, <1>2, <1>3, <2>2 DEF BalanceInv, BalanceStep
<1>4. ASSUME UNCHANGED <<order, journal, stale>>
      PROVE  BalanceInv'
  <2>1. \A v \in Orders : Ledgered(v)' /\ HeldOk(v)'
    BY <1>4 DEF BalanceInv, Ledgered, HeldOk, HeldIn
  <2>2. \A u \in Users, a \in Assets : BalanceIn(journal', u, a) >= 0
    BY <1>4 DEF BalanceInv, BalanceIn
  <2> QED
    BY <1>1, <1>2, <2>1, <2>2 DEF BalanceInv
<1>5. ASSUME NEW c \in calls, CreateLimit(c) \/ FillMarket(c)
      PROVE  BalanceInv'
  <2>1. c.o \in Orders
    BY DEF BalanceInv, IInv, Typed
  <2>2. BalanceStep(c.o) /\ \A v \in Orders \ {c.o} : Same(v)
    BY <1>5, CreateLimitBalances, FillMarketBalances, CreateLimitEffect, FillMarketEffect
       DEF BalanceInv
  <2> QED
    BY <1>3, <2>1, <2>2
<1>6. ASSUME NEW o \in Orders, Cancel(o)
      PROVE  BalanceInv'
  BY <1>3, <1>6, CancelBalances, CancelEffect DEF BalanceInv
<1>7. CASE Fill /\ ~UNCHANGED <<order, journal>>
  <2>1. PICK o \in Orders : o = matcher.o
    BY <1>7 DEF Fill, BalanceInv, IInv, MatcherInv
  <2>2. order[o].status = "OPEN"
    BY <1>7, <2>1 DEF Fill, Claimable
  <2>3. BalanceStep(o) /\ \A v \in Orders \ {o} : Same(v)
    BY <1>7, <2>1, <2>2, FillBalances, FillEffect DEF BalanceInv
  <2> QED
    BY <1>3, <2>3
<1>8. CASE Fill /\ UNCHANGED <<order, journal>>
  BY <1>4, <1>8 DEF Fill
<1>9. CASE \/ \E o \in Orders : Submit(o) \/ ReadForCancel(o)
           \/ \E c \in calls : Refuse(c)
           \/ StartPass \/ ReadBook \/ SkipOrder \/ Restart \/ MoveMarket \/ SetRate
           \/ UNCHANGED vars
  BY <1>4, <1>9
     DEF Submit, ReadForCancel, Refuse, StartPass, ReadBook, SkipOrder, Restart, MoveMarket, SetRate, vars
<1> QED
  BY <1>5, <1>6, <1>7, <1>8, <1>9 DEF Next, Endpoint, MatcherStep

LEMMA BalanceInit == Init => BalanceInv
<1> SUFFICES ASSUME Init
             PROVE  BalanceInv
  OBVIOUS
<1>1. IInv
  BY InitInv
<1>2. \A k \in Keys : journal[k] = <<>>
  BY DEF Init
<1>3. ASSUME NEW o \in Orders
      PROVE  Ledgered(o) /\ HeldOk(o)
  <2> DEFINE own == [k \in KeysOf(o) |-> journal[k]]
  <2>1. KeysOf(o) \subseteq Keys /\ IsFiniteSet(KeysOf(o)) /\ order[o].status = "ABSENT"
    BY KeysFinite DEF KeysOf, Init, Absent
  <2>2. IsFiniteSet(DOMAIN own) /\ \A k \in DOMAIN own : own[k] = <<>>
    BY <1>2, <2>1
  <2>3. HeldIn(journal, o) = Holding(own, Clearing(PaidIn(o)))
    BY DEF HeldIn
  <2> HIDE DEF own
  <2>4. HeldIn(journal, o) = 0
    BY <2>2, <2>3, HoldingNone
  <2> QED
    BY <1>2, <2>1, <2>4 DEF Ledgered, HeldOk, Empty
<1>4. ASSUME NEW u \in Users, NEW a \in Assets
      PROVE  BalanceIn(journal, u, a) >= 0
  <2>1. DOMAIN journal = Keys
    BY DEF Init
  <2>2. Holding(journal, UserSpot(u, a)) = 0
    BY <1>2, <2>1, KeysFinite, HoldingNone
  <2>3. Funding[u][a] \in Nat
    BY SpotOrdersAssumption
  <2> QED
    BY <2>2, <2>3 DEF BalanceIn
<1>5. calls = {}
  BY DEF Init
<1> QED
  BY <1>1, <1>3, <1>4, <1>5 DEF BalanceInv

\* What the platform holds for an order is its reserve while the order is open and
\* nothing afterwards, at any prices and fees and however the matcher, cancellations
\* and restarts interleave, but for a cancellation written over a fill; and no
\* balance goes below zero, however many orders of one user race for it.
THEOREM BalancesHoldAlways == Spec => []BalancesHold
<1>1. Init => BalanceInv
  BY BalanceInit
<1>2. BalanceInv /\ [Next]_vars => BalanceInv'
  BY BalanceNext
<1>3. BalanceInv => BalancesHold
  BY BalanceInvHolds
<1> QED
  BY <1>1, <1>2, <1>3, PTL DEF Spec
==============================================================================
