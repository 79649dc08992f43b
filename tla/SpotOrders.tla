------------------------------ MODULE SpotOrders ------------------------------
(***************************************************************************)
(* Orders of one spot market, filled by the exchange itself: market orders, *)
(* limit orders with a reserve, cancellation, and the matcher that compares *)
(* the open limit orders with a third party's order book every second       *)
(* (src/apps/api/src/modules/orders/orders.service.ts).                     *)
(*                                                                          *)
(* Every interactive database transaction is one action; what a handler     *)
(* reads before it opens one is an earlier action.                          *)
(***************************************************************************)
EXTENDS Ledger

CONSTANTS
  Orders,     \* the orders that may be submitted
  Users,
  Owner,      \* the user who submits each order
  ClientId,   \* its clientOrderId, chosen by the user
  Side,       \* "BUY" or "SELL"
  Size,       \* amount of the base asset
  Limit,      \* limit price, or Market
  Market,     \* the order is to be filled at once
  Books,      \* the order books the market may show: best bid and best ask
  Rates,      \* values the admin may give the taker fee
  RateBase,   \* the fee is a rate over RateBase (basis points over 10 000)
  Funding,    \* balance of each user in each asset at the start
  Batch,      \* orders the matcher takes in one pass (50 in the code)
  MaxFaults,  \* bound on restarts and failed reads
  None        \* no order

Assets == {"base", "quote"}

ASSUME SpotOrdersAssumption ==
  /\ IsFiniteSet(Orders) /\ None \notin Orders
  /\ Market \notin Nat
  /\ Owner \in [Orders -> Users]
  /\ DOMAIN ClientId = Orders
  /\ Side \in [Orders -> {"BUY", "SELL"}]
  /\ Size \in [Orders -> Nat \ {0}]
  /\ Limit \in [Orders -> (Nat \ {0}) \cup {Market}]
  /\ Books \subseteq [bid : Nat \ {0}, ask : Nat \ {0}]
  /\ RateBase \in Nat \ {0}
  /\ Rates \subseteq 0..RateBase
  /\ Funding \in [Users -> [Assets -> Nat]]
  /\ Batch \in Nat \ {0}
  /\ MaxFaults \in Nat

VARIABLES
  order,    \* the Order rows
  journal,  \* entries of the ledger transactions by idempotency key
  calls,    \* endpoint calls that have read and not yet written
  matcher,  \* where the matcher is in its pass
  book,     \* the order book as the provider shows it now
  rate,     \* FeeConfig.takerFeeBps
  stale,    \* history: filled orders that a cancellation was written over
  faults    \* restarts and failed reads so far

vars == <<order, journal, calls, matcher, book, rate, stale, faults>>

-----------------------------------------------------------------------------
(* Rows, prices, keys and entries *)

\* ROUTED exists only inside the transaction that fills a limit order, and
\* from creation to fill inside the transaction of a market order.
Status == {"ABSENT", "OPEN", "FILLED", "CANCELLED"}

Keys == {"reserve", "release", "trade", "fee", "unused"} \X Orders

Spot(o, asset)   == <<"USER_SPOT", Owner[o], asset>>
Clearing(asset)  == <<"PROVIDER_CLEARING", "platform", asset>>
BBook(asset)     == <<"PLATFORM_BBOOK", "platform", asset>>
Fees             == <<"PLATFORM_FEES", "platform", "quote">>

SpotBalance(u, asset) == Funding[u][asset] + Holding(journal, <<"USER_SPOT", u, asset>>)

IsMarket(o) == Limit[o] = Market

\* A buyer pays quote, a seller base.
PaidIn(o) == IF Side[o] = "BUY" THEN "quote" ELSE "base"

FeeOf(notional, r) == (notional * r) \div RateBase

\* What the order needs at a price: a seller's fee comes out of the proceeds.
CostAt(o, price, r) ==
  IF Side[o] = "BUY" THEN Size[o] * price + FeeOf(Size[o] * price, r) ELSE Size[o]

ReserveEntries(o, amount) ==
  <<Debit(Spot(o, PaidIn(o)), amount), Credit(Clearing(PaidIn(o)), amount)>>
ReleaseEntries(o, amount) ==
  <<Debit(Clearing(PaidIn(o)), amount), Credit(Spot(o, PaidIn(o)), amount)>>

\* The exchange against the platform's own book; from is the account the
\* order's own side is taken from.
TradeEntries(o, from, price) ==
  IF Side[o] = "BUY"
  THEN <<Debit(from, Size[o] * price), Credit(BBook("quote"), Size[o] * price),
         Debit(BBook("base"), Size[o]), Credit(Spot(o, "base"), Size[o])>>
  ELSE <<Debit(from, Size[o]), Credit(BBook("base"), Size[o]),
         Debit(BBook("quote"), Size[o] * price), Credit(Spot(o, "quote"), Size[o] * price)>>

\* A fee or a remainder of zero posts nothing.
FeeEntries(from, fee) ==
  IF fee > 0 THEN <<Debit(from, fee), Credit(Fees, fee)>> ELSE <<>>
UnusedEntries(o, amount) ==
  IF amount > 0 THEN ReleaseEntries(o, amount) ELSE <<>>

Posted(op, o) == journal[<<op, o>>] # <<>>

-----------------------------------------------------------------------------
(* The initial state *)

Absent == [status |-> "ABSENT", reserved |-> 0, price |-> 0, at |-> 0]
Idle   == [step |-> "idle", todo |-> {}, o |-> None, price |-> 0]

Init ==
  /\ order = [o \in Orders |-> Absent]
  /\ journal = [k \in Keys |-> <<>>]
  /\ calls = {}
  /\ matcher = Idle
  /\ book \in Books
  /\ rate \in Rates
  /\ stale = {}
  /\ faults = 0

-----------------------------------------------------------------------------
(* POST /orders *)

Rows == {o \in Orders : order[o].status # "ABSENT"}

\* The unique index on userId and clientOrderId.
Unique(o) ==
  \A other \in Rows : ~(Owner[other] = Owner[o] /\ ClientId[other] = ClientId[o])

\* The price an order would be filled at: the best level of the other side.
Touch(o) == IF Side[o] = "BUY" THEN book.ask ELSE book.bid

\* createOrder and createSpotOrder up to the transaction: the client order id is
\* looked up, the fee and the order book are read.
Submit(o) ==
  /\ order[o].status = "ABSENT"
  /\ ~\E c \in calls : c.op = "create" /\ c.o = o
  /\ Unique(o)
  /\ calls' = calls \cup {[op |-> "create", o |-> o, price |-> Touch(o), rate |-> rate]}
  /\ UNCHANGED <<order, journal, matcher, book, rate, stale, faults>>

\* Mutant: the fee is left out of what a market buy needs.
NeededWithoutFee(c) ==
  IF IsMarket(c.o) THEN CostAt(c.o, c.price, 0) ELSE CostAt(c.o, Limit[c.o], c.rate)

\* What the transaction asks of the spot balance.
Needed(c) == CostAt(c.o, IF IsMarket(c.o) THEN c.price ELSE Limit[c.o], c.rate)

Affordable(c) == SpotBalance(Owner[c.o], PaidIn(c.o)) >= Needed(c)

\* Mutant: nothing but the lookup in front of the transaction.
InsertAny(o) == TRUE

\* order.create fails when another row has the same client order id.
Insertable(o) == Unique(o)

\* The call is answered; the row, when there is one, is the latest.
Insert(c, row) ==
  /\ c \in calls
  /\ c.op = "create"
  /\ Affordable(c)
  /\ Insertable(c.o)
  /\ order' = [order EXCEPT ![c.o] = [row EXCEPT !.at = Cardinality(Rows) + 1]]
  /\ calls' = calls \ {c}
  /\ UNCHANGED <<matcher, book, rate, stale, faults>>

\* The Serializable transaction of a limit order.
CreateLimit(c) ==
  /\ ~IsMarket(c.o)
  /\ Insert(c, [Absent EXCEPT !.status = "OPEN", !.reserved = Needed(c)])
  /\ journal' = Record(journal, <<"reserve", c.o>>, ReserveEntries(c.o, Needed(c)))

\* The Serializable transaction of a market order: applySpotFill at the price
\* that was read before it.
FillMarket(c) ==
  LET from == Spot(c.o, PaidIn(c.o))
      fee  == FeeOf(Size[c.o] * c.price, c.rate)
  IN  /\ IsMarket(c.o)
      /\ Insert(c, [Absent EXCEPT !.status = "FILLED", !.price = c.price])
      /\ journal' = Record(Record(journal, <<"trade", c.o>>, TradeEntries(c.o, from, c.price)),
                           <<"fee", c.o>>, FeeEntries(Spot(c.o, "quote"), fee))

\* assertSufficientUserSpotBalance or the unique index throws.
Refuse(c) ==
  /\ c \in calls
  /\ c.op = "create"
  /\ ~(Affordable(c) /\ Insertable(c.o))
  /\ calls' = calls \ {c}
  /\ UNCHANGED <<order, journal, matcher, book, rate, stale, faults>>

-----------------------------------------------------------------------------
(* DELETE /orders/:id *)

CancelCall(o) == [op |-> "cancel", o |-> o, price |-> 0, rate |-> 0]

\* cancelOrder reads the row and refuses any that is not open.
ReadForCancel(o) ==
  /\ order[o].status = "OPEN"
  /\ CancelCall(o) \notin calls
  /\ calls' = calls \cup {CancelCall(o)}
  /\ UNCHANGED <<order, journal, matcher, book, rate, stale, faults>>

\* releaseSpotReserve
Released(o) ==
  Record(journal, <<"release", o>>, ReleaseEntries(o, order[o].reserved))

\* The transaction of cancelOrder does not look at the status again.
Cancel(o) ==
  /\ CancelCall(o) \in calls
  /\ journal' = Released(o)
  /\ order' = [order EXCEPT ![o].status = "CANCELLED"]
  /\ stale' = IF order[o].status = "FILLED" THEN stale \cup {o} ELSE stale
  /\ calls' = calls \ {CancelCall(o)}
  /\ UNCHANGED <<matcher, book, rate, faults>>

-----------------------------------------------------------------------------
(* The matcher: matchOpenSpotOrders, once a second, one pass at a time *)

Open == {o \in Orders : order[o].status = "OPEN"}

\* Mutant: the newest orders first.
NewestOpen == {o \in Open : Cardinality({p \in Open : order[p].at > order[o].at}) < Batch}

\* orderBy createdAt asc, take Batch.
OldestOpen == {o \in Open : Cardinality({p \in Open : order[p].at < order[o].at}) < Batch}

First(todo) == CHOOSE o \in todo : \A p \in todo : order[o].at <= order[p].at

StartPass ==
  /\ matcher.step = "idle"
  /\ OldestOpen # {}
  /\ matcher' = [Idle EXCEPT !.step = "loop", !.todo = OldestOpen]
  /\ UNCHANGED <<order, journal, calls, book, rate, stale, faults>>

\* The pass goes on with the orders that are left, or ends.
GoOn(rest) ==
  matcher' = IF rest = {} THEN Idle ELSE [Idle EXCEPT !.step = "loop", !.todo = rest]

\* Mutant: the limit is not compared.
AlwaysCrosses(o) == TRUE

Crosses(o) == IF Side[o] = "BUY" THEN book.ask <= Limit[o] ELSE book.bid >= Limit[o]

\* The book is awaited; the price it shows now is the price of the fill.
ReadBook ==
  /\ matcher.step = "loop"
  /\ LET o    == First(matcher.todo)
         rest == matcher.todo \ {o}
     IN  IF Crosses(o)
         THEN matcher' = [step |-> "fill", todo |-> rest, o |-> o, price |-> Touch(o)]
         ELSE GoOn(rest)
  /\ UNCHANGED <<order, journal, calls, book, rate, stale, faults>>

\* Mutant: the row is filled whatever its status.
ClaimAny(o) == TRUE

\* The updateMany that opens the transaction finds the order OPEN.
Claimable(o) == order[o].status = "OPEN"

\* Mutant: a buyer's remainder stays with the platform.
UnusedForfeited(o, cost) == 0

\* What a buyer's reserve has left after notional and fee.
Unused(o, cost) == IF Side[o] = "BUY" THEN order[o].reserved - cost ELSE 0

\* fillOpenSpotLimitOrder and applyReservedSpotFill: the fee is that of the
\* moment; a reserve it no longer fits in rolls the transaction back.
Fill ==
  LET o       == matcher.o
      price   == matcher.price
      cost    == CostAt(o, price, rate)
      fee     == FeeOf(Size[o] * price, rate)
      feeFrom == IF Side[o] = "BUY" THEN Clearing("quote") ELSE Spot(o, "quote")
      covered == Side[o] = "BUY" => order[o].reserved >= cost
  IN  /\ matcher.step = "fill"
      /\ IF Claimable(o) /\ covered
         THEN /\ order' = [order EXCEPT ![o].status = "FILLED", ![o].price = price]
              /\ journal' =
                   Record(Record(Record(journal,
                     <<"trade", o>>, TradeEntries(o, Clearing(PaidIn(o)), price)),
                     <<"fee", o>>, FeeEntries(feeFrom, fee)),
                     <<"unused", o>>, UnusedEntries(o, Unused(o, cost)))
         ELSE UNCHANGED <<order, journal>>
      /\ GoOn(matcher.todo)
      /\ UNCHANGED <<calls, book, rate, stale, faults>>

\* The catch of the loop: the book could not be read, the transaction failed.
SkipOrder ==
  /\ faults < MaxFaults
  /\ \/ matcher.step = "loop" /\ GoOn(matcher.todo \ {First(matcher.todo)})
     \/ matcher.step = "fill" /\ GoOn(matcher.todo)
  /\ faults' = faults + 1
  /\ UNCHANGED <<order, journal, calls, book, rate, stale>>

\* The process restarts.
Restart ==
  /\ faults < MaxFaults
  /\ calls' = {}
  /\ matcher' = Idle
  /\ faults' = faults + 1
  /\ UNCHANGED <<order, journal, book, rate, stale>>

-----------------------------------------------------------------------------
(* The market data provider, and the administrator who sets the fee *)

MoveMarket ==
  /\ book' \in Books \ {book}
  /\ UNCHANGED <<order, journal, calls, matcher, rate, stale, faults>>

\* PATCH of the fee configuration (admin/risk-admin.controller.ts).
SetRate ==
  /\ rate' \in Rates \ {rate}
  /\ UNCHANGED <<order, journal, calls, matcher, book, stale, faults>>

-----------------------------------------------------------------------------
(* The specification *)

Endpoint ==
  \/ \E o \in Orders : Submit(o) \/ ReadForCancel(o) \/ Cancel(o)
  \/ \E c \in calls : CreateLimit(c) \/ FillMarket(c) \/ Refuse(c)

MatcherStep == StartPass \/ ReadBook \/ Fill

Next == Endpoint \/ MatcherStep \/ SkipOrder \/ Restart \/ MoveMarket \/ SetRate

Spec == Init /\ [][Next]_vars

\* The interval fires every second and its awaits return or throw.
FairSpec == Spec /\ WF_vars(MatcherStep)

-----------------------------------------------------------------------------
(* Types *)

Entry == [account : {"USER_SPOT"} \X Users \X Assets
                      \cup {"PROVIDER_CLEARING", "PLATFORM_BBOOK", "PLATFORM_FEES"}
                             \X {"platform"} \X Assets,
          direction : {"DEBIT", "CREDIT"},
          amount : Nat \ {0}]

\* Type invariant of spot orders; every entry has a positive amount.
TypeOK ==
  /\ order \in [Orders -> [status : Status, reserved : Nat, price : Nat, at : Nat]]
  /\ DOMAIN journal = Keys
  /\ \A k \in Keys : \A i \in DOMAIN journal[k] : journal[k][i] \in Entry
  /\ calls \subseteq [op : {"create", "cancel"}, o : Orders, price : Nat, rate : Nat]
  /\ matcher \in [step : {"idle", "loop", "fill"}, todo : SUBSET Orders,
                 o : Orders \cup {None}, price : Nat]
  /\ book \in Books
  /\ rate \in Rates
  /\ stale \subseteq Orders
  /\ faults \in 0..MaxFaults

-----------------------------------------------------------------------------
(* Properties *)

\* What the platform holds for an order, in the asset it pays in.
KeysOf(o)  == {k \in Keys : k[2] = o}
HeldFor(o) == Holding([k \in KeysOf(o) |-> journal[k]], Clearing(PaidIn(o)))

\* A reserve is held for exactly as long as the order is open: a fill uses it
\* up to the last unit (trade, fee and remainder), a cancellation returns it,
\* at any price and any fee in between.  Only a cancellation written over a
\* fill breaks it.
ReserveAccounted ==
  \A o \in Orders \ stale :
    HeldFor(o) = IF order[o].status = "OPEN" THEN order[o].reserved ELSE 0

\* No balance goes below zero: concurrent orders of one user are each checked
\* in their own transaction, and fees that were raised meanwhile do not reach
\* into money that was not reserved.
SpotNonNegative == \A u \in Users : \A a \in Assets : SpotBalance(u, a) >= 0

\* Orders neither keep money that is not reserved nor spend money that is not there
\* (applyReservedSpotFill, releaseSpotReserve, createSpotOrder).
BalancesHold == ReserveAccounted /\ SpotNonNegative

\* A limit order is filled at its limit or better, although the book moves
\* between the matcher's look and its transaction.
FilledAtLimitOrBetter ==
  \A o \in Orders :
    order[o].status = "FILLED" /\ ~IsMarket(o) =>
      IF Side[o] = "BUY" THEN order[o].price <= Limit[o] ELSE order[o].price >= Limit[o]

\* A client order id makes one order, however often and however concurrently it
\* is submitted.
ClientIdOnce ==
  \A o, other \in Rows :
    Owner[o] = Owner[other] /\ ClientId[o] = ClientId[other] => o = other

\* Orders are carried out as they were asked for: never past their limit, never
\* twice (fillOpenSpotLimitOrder, assertUniqueClientOrderId).
FilledAsAsked == FilledAtLimitOrBetter /\ ClientIdOnce

\* docs/frontend-trading-orders-positions.md:85 and the exception 'Order cannot
\* be cancelled': a filled order is not cancelled.
FilledStaysFilled ==
  [][\A o \in Orders : order[o].status = "FILLED" => order'[o].status = "FILLED"]_vars

\* Once the market and the fee settle, an order that is marketable, covered by
\* its reserve and among the oldest open ones does not stay open: the matcher
\* gets to it, whatever cancellations, fills, failed reads and restarts do.
Marketable(o) ==
  IF Side[o] = "BUY"
  THEN book.ask <= Limit[o] /\ order[o].reserved >= CostAt(o, book.ask, rate)
  ELSE book.bid >= Limit[o]
Reached(o) == Cardinality({p \in Open : order[p].at < order[o].at}) < Batch
MarketableIsFilled ==
  \A o \in Orders, b \in Books, r \in Rates :
    ~<>[](/\ book = b /\ rate = r
          /\ order[o].status = "OPEN" /\ Marketable(o) /\ Reached(o))

-----------------------------------------------------------------------------
(* The promise kept: an order is an item in escrow *)

StageOf(o) ==
  CASE Posted("trade", o) /\ Posted("release", o)   -> "both"
    [] Posted("trade", o) /\ ~Posted("release", o)  -> "spent"
    [] ~Posted("trade", o) /\ Posted("release", o)  -> "returned"
    [] ~Posted("trade", o) /\ ~Posted("release", o) ->
         IF Posted("reserve", o) THEN "held" ELSE "none"

Promise == INSTANCE Escrow WITH
  Items     <- Orders,
  stage     <- [o \in Orders |-> StageOf(o)],
  contested <- stale

\* SpotOrders implements Escrow: a reserve is spent once or returned once, and
\* both only when a cancellation is written over a fill.
KeepsPromise == Promise!Spec
===============================================================================
