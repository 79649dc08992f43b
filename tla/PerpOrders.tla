------------------------------ MODULE PerpOrders ------------------------------
(***************************************************************************)
(* Perpetual orders on the A-book (src/apps/api/src/modules/orders,         *)
(* liquidations, positions): an order reserves margin in one transaction,   *)
(* is placed at Hyperliquid under an in-process lock, and is settled by      *)
(* whoever asks the exchange what became of it: the call that placed it, a  *)
(* cancellation, or the worker that runs every few seconds.                 *)
(*                                                                          *)
(* One market.  Price and leverage are 1, so a unit of size needs a unit of *)
(* margin and closing it has no profit (the settlement's arithmetic is left *)
(* out).  A buy has side 1, a sell side -1.  Of the ledger                  *)
(* only the account USER_PERP_MARGIN is kept, with the idempotency keys.    *)
(***************************************************************************)
EXTENDS Ledger

CONSTANTS
  Users, Orders,
  Mixes,        \* what a behaviour is made of: the orders that may be asked for (an OPEN
                \* order may be filled already; the kinds that close take side and size
                \* from the position, NONE is no order), and how many faults (crashes,
                \* failed calls) and cancellations
  Enabled,      \* the values isExecutionEnabled may have
  None

ASSUME Attributes ==
  /\ IsFiniteSet(Users) /\ IsFiniteSet(Orders)
  /\ \A mix \in Mixes :
    /\ mix.asked \in [Orders -> [owner : Users, side : {1, -1}, size : Nat \ {0}, filled : BOOLEAN,
                                 kind : {"OPEN", "CLOSE", "TRIGGER", "LIQUIDATION", "NONE"}]]
    /\ \A o \in Orders : mix.asked[o].filled => mix.asked[o].kind = "OPEN"
    /\ mix.faults \in Nat /\ mix.cancels \in Nat

VARIABLES
  order,      \* the orders table
  provider,   \* the provider_orders table; the statuses of a row that is still polled
              \* (PENDING, OPEN, PARTIALLY_FILLED, RECONCILIATION_REQUIRED), which no
              \* step tells apart, are one, PENDING
  exchange,   \* Hyperliquid: what it has of each order
  applied,    \* provider_fills and internal-net trades: <<order, number of the fill, 0 for internal-net>> -> size
  position,   \* user -> signed size of the open A-book position
  ledger,     \* [posted: the keys, held: the users' USER_PERP_MARGIN balances]
  event,      \* order -> status of its liquidation_events row
  queue,      \* orders whose placing call waits for the lock
  place,      \* the call that holds the lock
  rec,        \* reconcileProviderOrder in each process that runs it
  over,       \* history: opening orders released from a row older than their fills,
              \* and orders ended by a snapshot newer than the fills it came with
  budget      \* how many faults and cancellations the behaviour may still have
vars == <<order, provider, exchange, applied, position, ledger, event, queue, place, rec, over, budget>>

Abs(n) == IF n < 0 THEN -n ELSE n

Recs == {"place", "worker", "user"}
Live     == {"ROUTED", "OPEN", "PARTIALLY_FILLED", "PROVIDER_PENDING"}
Owner(o) == order[o].owner
Kind(o)  == order[o].kind
ReduceOnly(o) == Kind(o) # "OPEN"

\* isTerminalProviderRejection: which of the reasons the code writes match its words.
Terminal(reason) == reason \in {"reduce-only", "order size"}

Fault  == budget.faults > 0 /\ budget' = [budget EXCEPT !.faults = @ - 1]
Cancel == budget.cancels > 0 /\ budget' = [budget EXCEPT !.cancels = @ - 1]

Idle == [pc |-> "idle", order |-> None, base |-> 0, id |-> FALSE, snap |-> "NONE", n |-> 0, why |-> "NONE"]
Free == [pc |-> "free", order |-> None, seen |-> 0, left |-> 0]

Init ==
  \E mix \in Mixes :
    LET held == {o \in Orders : mix.asked[o].filled}
        Size(o) == mix.asked[o].size
        Held(u) == SumOver([o \in {x \in held : mix.asked[x].owner = u} |-> mix.asked[o].side * Size(o)])
    IN  /\ order = [o \in Orders |-> [status |-> IF o \in held THEN "FILLED" ELSE "NEW", born |-> 0,
                                      filled |-> IF o \in held THEN Size(o) ELSE 0,
                                      owner |-> mix.asked[o].owner, kind |-> mix.asked[o].kind,
                                      side |-> mix.asked[o].side, size |-> Size(o)]]
        /\ provider = [o \in Orders |-> [status |-> IF o \in held THEN "FILLED" ELSE "NONE", id |-> o \in held,
                                         rejected |-> FALSE]]
        /\ exchange = [o \in Orders |-> IF o \in held THEN [status |-> "filled", sent |-> Size(o), got |-> Size(o)]
                                        ELSE [status |-> "NONE", sent |-> 0, got |-> 0]]
        /\ applied = [x \in UNION {{<<o, k>> : k \in 1 .. Size(o)} : o \in held} |-> 1]
        /\ position = [u \in Users |-> Held(u)]
        /\ ledger = [posted |-> {<<"reserve", o>> : o \in held}, held |-> [u \in Users |-> Abs(Held(u))]]
        /\ event = [o \in Orders |-> "NONE"]
        /\ queue = {} /\ place = Free /\ rec = [r \in Recs |-> Idle] /\ over = [released |-> {}, missed |-> {}]
        /\ budget = [faults |-> mix.faults, cancels |-> mix.cancels]

-----------------------------------------------------------------------------
(* The ledger: a key that exists is not posted again. *)
PostTo(l, key, user, amount) ==
  IF key \in l.posted \/ amount = 0 THEN l
  ELSE [posted |-> l.posted \cup {key}, held |-> [l.held EXCEPT ![user] = @ + amount]]

\* settlePositionLedger: what a closed part of a position had as margin is settled.
Settle(l, f, u, n) == PostTo(l, <<"close", f>>, u, -n)

\* Mutant: the margin of the part that closes a position is kept.
UnnettedFill(l, f, u, n, p, s) == Settle(l, f, u, IF n < Abs(p) THEN n ELSE Abs(p))

\* Ledger postings of a fill of an opening order: what it closes of an opposite
\* position is settled, and the margin reserved for that part is released.
NettingFill(l, f, u, n, p, s) ==
  LET closed == IF p * s >= 0 THEN 0 ELSE IF n < Abs(p) THEN n ELSE Abs(p)
  IN  PostTo(Settle(l, f, u, closed), <<"netted", f>>, u, -closed)

\* closePositionWithFill: refused unless the fill reduces the position.
Closes(o, n, p) == p * order[o].side < 0 /\ n <= Abs(p)

\* applyFill: the position, the ledger, the order row, the other triggers of a
\* closed position and the liquidation event, in one transaction.
ApplyFill(o, f, n) ==
  LET u == Owner(o)
      p == position[u]
      s == order[o].side * n
      filled == order[o].filled + n
      mine == [order EXCEPT ![o].filled = filled,
                            ![o].status = IF filled >= order[o].size THEN "FILLED" ELSE "PARTIALLY_FILLED"]
      flat == p # 0 /\ p * s < 0 /\ n >= Abs(p)
  IN  /\ position' = [position EXCEPT ![u] = p + s]
      /\ ledger' = IF ReduceOnly(o) THEN Settle(ledger, f, u, n)
                                    ELSE NettingFill(ledger, f, u, n, p, s)
      /\ order' = [x \in Orders |->
                     IF flat /\ x # o /\ Owner(x) = u /\ Kind(x) = "TRIGGER" /\ order[x].status = "OPEN"
                     THEN [mine[x] EXCEPT !.status = "CANCELLED"] ELSE mine[x]]
      /\ event' = IF Kind(o) = "LIQUIDATION" THEN [event EXCEPT ![o] = "COMPLETED"] ELSE event
      /\ applied' = [x \in DOMAIN applied \cup {f} |-> IF x = f THEN n ELSE applied[x]]
      /\ over' = IF ~ReduceOnly(o) /\ <<"release", o>> \in ledger.posted
                  THEN [over EXCEPT !.released = @ \cup {o}] ELSE over

-----------------------------------------------------------------------------
(* createOrder and the callers of it. *)
Born == 1 + Cardinality({o \in Orders : order[o].born > 0})

CreateOpen(o) ==
  /\ Kind(o) = "OPEN" /\ order[o].status = "NEW"
  /\ order' = [order EXCEPT ![o].status = "ROUTED", ![o].born = Born]
  /\ ledger' = PostTo(ledger, <<"reserve", o>>, Owner(o), order[o].size)
  /\ queue' = queue \cup {o}
  /\ UNCHANGED <<provider, exchange, applied, position, event, place, rec, over, budget>>

\* The market close that is still on its way and is returned instead of a new one.
ActiveClose(u) ==
  \E x \in Orders : Owner(x) = u /\ Kind(x) \in {"CLOSE", "LIQUIDATION"} /\ order[x].status \in Live

\* createOrder of a market close, up to its transaction: the position and the
\* active close are read before.  A liquidation has written its event by then.
CloseAsk(o) ==
  /\ Kind(o) \in {"CLOSE", "LIQUIDATION"} /\ order[o].status = "NEW" /\ position[Owner(o)] # 0
  /\ Kind(o) = "LIQUIDATION" =>
       ~\E x \in Orders : Owner(x) = Owner(o) /\ event[x] = "CLOSING"
  /\ LET p == position[Owner(o)]
     IN  order' = [order EXCEPT ![o] = [@ EXCEPT !.side = IF p > 0 THEN -1 ELSE 1, !.size = Abs(p),
                                        !.status = IF ActiveClose(Owner(o)) THEN "JOINED" ELSE "ASKED"]]
  /\ event' = IF Kind(o) = "LIQUIDATION" THEN [event EXCEPT ![o] = "CLOSING"] ELSE event
  /\ UNCHANGED <<provider, exchange, applied, position, ledger, queue, place, rec, over, budget>>

CloseCreate(o) ==
  /\ order[o].status = "ASKED"
  /\ order' = [order EXCEPT ![o].status = "ROUTED", ![o].born = Born]
  /\ queue' = queue \cup {o}
  /\ UNCHANGED <<provider, exchange, applied, position, ledger, event, place, rec, over, budget>>

\* createOrder throws (paused, mark too old, provider not ready): liquidate's catch.
LiquidationRefused(o) ==
  /\ Kind(o) = "LIQUIDATION" /\ order[o].status = "ASKED" /\ Fault
  /\ order' = [order EXCEPT ![o].status = "GONE"]
  /\ event' = [event EXCEPT ![o] = "FAILED"]
  /\ UNCHANGED <<provider, exchange, applied, position, ledger, queue, place, rec, over>>

\* createPerpTriggerOrder: an A-book trigger covers the whole position.
CreateTrigger(o) ==
  /\ Kind(o) = "TRIGGER" /\ order[o].status = "NEW" /\ position[Owner(o)] # 0
  /\ LET p == position[Owner(o)]
     IN  order' = [order EXCEPT ![o] = [@ EXCEPT !.side = IF p > 0 THEN -1 ELSE 1, !.size = Abs(p),
                                                 !.status = "OPEN", !.born = Born]]
  /\ UNCHANGED <<provider, exchange, applied, position, ledger, event, queue, place, rec, over, budget>>

\* matchOpenPerpTriggerOrders and triggerOpenAbookOrder: the trigger is claimed and
\* its siblings are cancelled; without a position it is cancelled itself.
FireTrigger(o) ==
  /\ Kind(o) = "TRIGGER" /\ order[o].status = "OPEN"
  /\ IF position[Owner(o)] = 0
     THEN /\ order' = [order EXCEPT ![o].status = "CANCELLED"]
          /\ UNCHANGED queue
     ELSE /\ order' = [x \in Orders |->
                 IF x = o THEN [order[x] EXCEPT !.status = "ROUTED"]
                 ELSE IF Owner(x) = Owner(o) /\ Kind(x) = "TRIGGER" /\ order[x].status = "OPEN"
                 THEN [order[x] EXCEPT !.status = "CANCELLED"] ELSE order[x]]
          /\ queue' = queue \cup {o}
  /\ UNCHANGED <<provider, exchange, applied, position, ledger, event, place, rec, over, budget>>

-----------------------------------------------------------------------------
(* placeAbookOrder, one call at a time (withProviderExecutionLock). *)
Leave == place' = Free /\ queue' = queue \ {place.order}

PlaceBegin(o) ==
  /\ place.pc = "free" /\ o \in queue
  /\ \/ /\ TRUE \in Enabled
        /\ place' = [Free EXCEPT !.order = o, !.left = order[o].size,
                                 !.pc = IF ReduceOnly(o) THEN "see" ELSE "row"]
        /\ UNCHANGED <<order, provider, ledger, queue>>
     \/ /\ FALSE \in Enabled   \* failAndRelease
        /\ order' = [order EXCEPT ![o].status = "FAILED"]
        /\ provider' = IF provider[o].status = "NONE" THEN provider ELSE [provider EXCEPT ![o].status = "FAILED"]
        /\ ledger' = IF ReduceOnly(o) THEN ledger ELSE PostTo(ledger, <<"fail", o>>, Owner(o), -order[o].size)
        /\ queue' = queue \ {o} /\ UNCHANGED place
  /\ UNCHANGED <<exchange, applied, position, event, rec, over, budget>>

\* getAccountState: the omnibus position at the exchange.
ProviderPosition == SumOver([o \in Orders |-> order[o].side * exchange[o].got])

PlaceSee ==
  /\ place.pc = "see"
  /\ \/ place' = [place EXCEPT !.pc = "cover", !.seen = ProviderPosition] /\ UNCHANGED budget
     \/ Fault /\ place' = [place EXCEPT !.pc = "row"]
  /\ UNCHANGED <<order, provider, exchange, applied, position, ledger, event, queue, rec, over>>

\* Mutant: the gap's sign is not looked at.
AnyGapCovers(gap, signed) == Abs(signed)

\* How much of a close the exchange has already hedged: all of it when filling
\* internally does not widen the gap, else what the gap holds in its direction.
Covered(gap, signed) ==
  IF Abs(gap - signed) <= Abs(gap) THEN Abs(signed)
  ELSE IF gap * signed > 0 THEN (IF Abs(gap) < Abs(signed) THEN Abs(gap) ELSE Abs(signed))
  ELSE 0

\* applyExistingProviderHedgeCoverage's transaction.  A refused fill leaves the order ROUTED.
PlaceCover ==
  LET o == place.order
      remaining == order[o].size - order[o].filled
      internal == SumOver(position)
      part == Covered(place.seen - internal, order[o].side * remaining)
      n == IF Kind(o) = "LIQUIDATION" /\ part < remaining THEN 0 ELSE part
  IN  /\ place.pc = "cover"
      /\ IF remaining <= 0 \/ n = 0
         THEN /\ IF remaining <= 0 THEN Leave ELSE place' = [place EXCEPT !.pc = "row", !.left = remaining] /\ UNCHANGED queue
              /\ UNCHANGED <<order, applied, position, ledger, event, over>>
         ELSE IF Closes(o, n, position[Owner(o)]) /\ <<o, 0>> \notin DOMAIN applied
         THEN /\ ApplyFill(o, <<o, 0>>, n)
              /\ IF n = remaining THEN Leave
                 ELSE place' = [place EXCEPT !.pc = "row", !.left = remaining - n] /\ UNCHANGED queue
         ELSE Leave /\ UNCHANGED <<order, applied, position, ledger, event, over>>
      /\ UNCHANGED <<provider, exchange, rec, budget>>

\* The provider_orders row; orderId is unique there, so a second placing throws.
PlaceRow ==
  LET o == place.order
  IN  /\ place.pc = "row"
      /\ IF provider[o].status # "NONE"
         THEN Leave /\ UNCHANGED <<order, provider>>
         ELSE /\ provider' = [provider EXCEPT ![o].status = "PENDING"]
              /\ order' = [order EXCEPT ![o].status = "PROVIDER_PENDING"]
              /\ place' = [place EXCEPT !.pc = "send"] /\ UNCHANGED queue
      /\ UNCHANGED <<exchange, applied, position, ledger, event, rec, over, budget>>

\* hyperliquid.placeOrder, its acknowledgement, and the inline reconciliation or
\* the rejection that follow.  placeOrder is not retried.
PlaceSend ==
  LET o == place.order
  IN  /\ place.pc = "send"
      /\ \/ /\ exchange' = [exchange EXCEPT ![o] = [status |-> "open", sent |-> place.left, got |-> 0]]
            /\ provider' = [provider EXCEPT ![o] = [status |-> "PENDING", id |-> TRUE, rejected |-> FALSE]]
            /\ place' = [place EXCEPT !.pc = "sync"] /\ UNCHANGED <<order, queue, rec, budget>>
         \/ /\ exchange' = [exchange EXCEPT ![o].status = "rejected"]
            /\ rec' = [rec EXCEPT !["place"] = [Idle EXCEPT !.pc = "release", !.order = o, !.base = order[o].filled,
                                                             !.snap = "TERMINAL"]]
            /\ provider' = [provider EXCEPT ![o].status = "PENDING"]
            /\ place' = [place EXCEPT !.pc = "sync"] /\ UNCHANGED <<order, queue, budget>>
         \/ /\ Fault   \* no answer: it may have arrived
            /\ \/ exchange' = [exchange EXCEPT ![o] = [status |-> "open", sent |-> place.left, got |-> 0]]
               \/ UNCHANGED exchange
            /\ provider' = [provider EXCEPT ![o].status = "PENDING", ![o].rejected = FALSE]
            /\ order' = [order EXCEPT ![o].status = "PROVIDER_PENDING"]
            /\ Leave /\ UNCHANGED rec
      /\ UNCHANGED <<applied, position, ledger, event, over>>

-----------------------------------------------------------------------------
(* Hyperliquid: an order rests, fills unit by unit, and ends. *)
ExchangeFill(o) ==
  /\ exchange[o].status = "open" /\ exchange[o].got < exchange[o].sent
  /\ exchange' = [exchange EXCEPT ![o].got = @ + 1,
                                  ![o].status = IF exchange[o].got + 1 = exchange[o].sent THEN "filled" ELSE "open"]
  /\ UNCHANGED <<order, provider, applied, position, ledger, event, queue, place, rec, over, budget>>

ExchangeEnd(o) ==
  /\ exchange[o].status = "open"
  /\ \E s \in IF exchange[o].got > 0 THEN {"filled", "canceled"} ELSE {"canceled"} :
       exchange' = [exchange EXCEPT ![o].status = s]
  /\ UNCHANGED <<order, provider, applied, position, ledger, event, queue, place, rec, over, budget>>

-----------------------------------------------------------------------------
(* reconcileProviderOrder. *)
Step(r, fields) == rec' = [rec EXCEPT ![r] = fields]
Done(r) == /\ Step(r, Idle)
           /\ IF r = "place" THEN Leave ELSE UNCHANGED <<place, queue>>

\* Mutant: an order the exchange cancelled or rejected is taken for one it has not seen yet.
SnapshotOfSeen(o) == CASE exchange[o].status \in {"NONE", "rejected", "canceled"} -> "UNKNOWN"
                       [] exchange[o].status = "open" -> "OPEN"
                       [] exchange[o].status = "filled" -> "FILLED"

\* getOrderSnapshot of the exchange's state of an order.
Snapshot(o) == CASE exchange[o].status = "NONE" -> "UNKNOWN"
                 [] exchange[o].status = "open" -> "OPEN"
                 [] exchange[o].status = "filled" -> "FILLED"
                 [] exchange[o].status = "canceled" -> "CANCELLED"
                 [] exchange[o].status = "rejected" -> "REJECTED"

\* reconcileProviderOrder begins: the row is read once, the order's filledSize with
\* it; the snapshot and the fills are asked for at once and answered in any order.
RecBegin(r, o) ==
  LET row == [Idle EXCEPT !.order = o, !.base = order[o].filled, !.id = provider[o].id]
  IN  /\ IF \/ provider[o].status = "FILLED" /\ order[o].status \in {"FILLED", "CANCELLED"}
            \/ provider[o].status \in {"CANCELLED", "FAILED"}
         THEN Done(r)
         ELSE /\ IF ~provider[o].id /\ provider[o].rejected
                 THEN Step(r, [row EXCEPT !.pc = "release", !.snap = "TERMINAL"])
                 ELSE \/ Step(r, [row EXCEPT !.pc = "ask-snap", !.n = exchange[o].got])
                      \/ Step(r, [row EXCEPT !.pc = "ask-fills", !.snap = Snapshot(o)])
              /\ UNCHANGED <<place, queue>>
      /\ UNCHANGED <<order, provider, exchange, applied, position, ledger, event, over, budget>>

\* reconcilePendingProviderOrders, and the inline reconciliation of the placing call.
WorkerBegins(o) == rec["worker"].pc = "idle" /\ provider[o].status = "PENDING" /\ RecBegin("worker", o)
PlaceSync  == place.pc = "sync" /\ rec["place"].pc = "idle" /\ RecBegin("place", place.order)
CancelSync == rec["user"].pc = "cancelled" /\ RecBegin("user", rec["user"].order)

RecAsk(r) ==
  LET o == rec[r].order
  IN  /\ \/ rec[r].pc = "ask-snap" /\ Step(r, [rec[r] EXCEPT !.pc = "apply", !.snap = Snapshot(o)])
         \/ rec[r].pc = "ask-fills" /\ Step(r, [rec[r] EXCEPT !.pc = "apply", !.n = exchange[o].got])
      /\ UNCHANGED <<order, provider, exchange, applied, position, ledger, event, queue, place, over, budget>>

RecAskFails(r) ==
  /\ rec[r].pc \in {"ask-snap", "ask-fills"} /\ Fault
  /\ Step(r, [rec[r] EXCEPT !.pc = "error", !.why = "other"])
  /\ UNCHANGED <<order, provider, exchange, applied, position, ledger, event, queue, place, over>>

\* Mutant: the last fill of a page is left out.
UnappliedButLast(r) == {k \in 1 .. rec[r].n - 1 : <<rec[r].order, k>> \notin DOMAIN applied}

Unapplied(r) == {k \in 1 .. rec[r].n : <<rec[r].order, k>> \notin DOMAIN applied}

\* applyProviderFill of the oldest fill not yet stored.
RecApply(r) ==
  LET o == rec[r].order
      f == <<o, Min(Unapplied(r))>>
  IN  /\ rec[r].pc = "apply" /\ Unapplied(r) # {}
      /\ IF order[o].size - order[o].filled < 1
         THEN /\ Step(r, [rec[r] EXCEPT !.pc = "error", !.why = "order size"])
              /\ UNCHANGED <<order, applied, position, ledger, event, over>>
         ELSE IF ReduceOnly(o) /\ ~Closes(o, 1, position[Owner(o)])
         THEN /\ Step(r, [rec[r] EXCEPT !.pc = "error", !.why = "reduce-only"])
              /\ UNCHANGED <<order, applied, position, ledger, event, over>>
         ELSE ApplyFill(o, f, 1) /\ UNCHANGED rec
      /\ UNCHANGED <<provider, exchange, queue, place, budget>>

Unused(o, base) == order[o].size - base

\* releaseUnfilledProviderMargin, by the filledSize of the row that was read.
RecRelease(r) ==
  LET o == rec[r].order
      unused == Unused(o, rec[r].base)
      late == rec[r].base # order[o].filled /\ <<"release", o>> \notin ledger.posted
  IN  /\ \/ rec[r].pc = "release"
         \/ /\ rec[r].pc = "apply" /\ Unapplied(r) = {} /\ order[o].filled < order[o].size
            /\ rec[r].snap \in {"FILLED", "CANCELLED", "REJECTED"}
      /\ ledger' = IF ReduceOnly(o) THEN ledger ELSE PostTo(ledger, <<"release", o>>, Owner(o), -unused)
      /\ over' = [released |-> over.released \cup (IF ~ReduceOnly(o) /\ unused > 0 /\ late THEN {o} ELSE {}),
                  missed   |-> over.missed \cup (IF rec[r].snap # "TERMINAL" /\ rec[r].n < exchange[o].got THEN {o} ELSE {})]
      /\ Step(r, [rec[r] EXCEPT !.pc = "write"])
      /\ UNCHANGED <<order, provider, exchange, applied, position, event, queue, place, budget>>

\* The row and the order by verdict: written whatever they have become since.
Write(r, verdict, row, status) ==
  LET o == rec[r].order
  IN  /\ provider' = [provider EXCEPT ![o] = [status |-> row, rejected |-> verdict = "TERMINAL",
                                             id |-> @.id \/ verdict \notin {"UNKNOWN", "TERMINAL"}]]
      /\ order' = [order EXCEPT ![o].status = status]
      /\ Done(r)
      /\ UNCHANGED <<exchange, applied, position, ledger, event, over, budget>>

\* Fully filled, not visible yet (scheduleProviderRetry), or still open.
RecWriteLive(r) ==
  LET o == rec[r].order
      full == order[o].filled >= order[o].size
  IN  /\ rec[r].pc = "apply" /\ Unapplied(r) = {}
      /\ \/ full /\ Write(r, "FULL", "FILLED", "FILLED")
         \/ ~full /\ rec[r].snap = "UNKNOWN" /\ Write(r, "UNKNOWN", "PENDING", order[o].status)
         \/ ~full /\ rec[r].snap = "OPEN"
            /\ Write(r, "OPEN", "PENDING", IF order[o].filled > 0 THEN "PARTIALLY_FILLED" ELSE "OPEN")

\* Ended at the exchange, or rejected (finalizeProviderRejection).
RecWriteEnd(r) ==
  /\ rec[r].pc = "write"
  /\ CASE rec[r].snap = "FILLED"    -> Write(r, "FILLED", "FILLED", "CANCELLED")
       [] rec[r].snap = "CANCELLED" -> Write(r, "CANCELLED", "CANCELLED", "CANCELLED")
       [] rec[r].snap = "REJECTED"  -> Write(r, "REJECTED", "FAILED", "FAILED")
       [] rec[r].snap = "TERMINAL"  ->
            Write(r, "TERMINAL", "FAILED", IF rec[r].base > 0 THEN "CANCELLED" ELSE "FAILED")

\* tryTerminalizeSupersededReduceOnlyOrder: the fill was accounted by a later close.
Superseded(r) ==
  LET o == rec[r].order
  IN  /\ ReduceOnly(o) /\ rec[r].id /\ rec[r].why = "reduce-only" /\ position[Owner(o)] = 0
      /\ \E x \in Orders \ {o} :
           /\ Owner(x) = Owner(o) /\ ReduceOnly(x) /\ order[x].status = "FILLED" /\ order[x].born > order[o].born
           /\ order[x].side = order[o].side
           /\ <<x, 0>> \in DOMAIN applied /\ applied[<<x, 0>>] = order[o].size

\* The catch of reconcileProviderOrder, and for the placing call its own catch after it.
RecError(r) ==
  LET o == rec[r].order
  IN  /\ rec[r].pc = "error"
      /\ IF Superseded(r)
         THEN /\ provider' = [provider EXCEPT ![o].status = "FILLED", ![o].rejected = FALSE]
              /\ order' = [order EXCEPT ![o].status = "CANCELLED"]
              /\ Done(r)
         ELSE /\ provider' = [provider EXCEPT ![o].status = "PENDING", ![o].rejected = Terminal(rec[r].why)]
              /\ IF r = "place" /\ Terminal(rec[r].why)
                 THEN /\ Step(r, [rec[r] EXCEPT !.pc = "release", !.snap = "TERMINAL", !.base = order[o].filled])
                      /\ UNCHANGED <<order, place, queue>>
                 ELSE /\ order' = IF r = "place" THEN [order EXCEPT ![o].status = "PROVIDER_PENDING"] ELSE order
                      /\ Done(r)
      /\ UNCHANGED <<exchange, applied, position, ledger, event, over, budget>>

-----------------------------------------------------------------------------
(* cancelOrder. *)
Cancellable == {"OPEN", "PARTIALLY_FILLED", "PROVIDER_PENDING"}

\* The order is read first; what is written below does not look at it again.
CancelAsk(o) ==
  /\ rec["user"].pc = "idle" /\ order[o].status \in Cancellable /\ Cancel
  /\ Step("user", [Idle EXCEPT !.pc = "cancel", !.order = o, !.id = provider[o].status # "NONE"])
  /\ UNCHANGED <<order, provider, exchange, applied, position, ledger, event, queue, place, over>>

\* With a provider row: the exchange is asked, and the row reconciled or retried.
CancelAtProvider ==
  LET o == rec["user"].order
  IN  /\ rec["user"].pc = "cancel" /\ rec["user"].id
      /\ \/ /\ exchange' = IF exchange[o].status = "open"
                           THEN [exchange EXCEPT ![o].status = IF exchange[o].got > 0 THEN "filled" ELSE "canceled"]
                           ELSE exchange
            /\ Step("user", [Idle EXCEPT !.pc = "cancelled", !.order = o])
            /\ UNCHANGED budget
         \/ Fault /\ Step("user", Idle) /\ UNCHANGED exchange
      /\ provider' = [provider EXCEPT ![o].status = "PENDING", ![o].rejected = FALSE]
      /\ UNCHANGED <<order, applied, position, ledger, event, queue, place, over>>

\* Without one: the reserve is released and the order cancelled.
CancelWrite ==
  LET o == rec["user"].order
  IN  /\ rec["user"].pc = "cancel" /\ ~rec["user"].id
      /\ order' = [order EXCEPT ![o].status = "CANCELLED"]
      /\ ledger' = IF ReduceOnly(o) THEN ledger ELSE PostTo(ledger, <<"fail", o>>, Owner(o), -order[o].size)
      /\ Step("user", Idle)
      /\ UNCHANGED <<provider, exchange, applied, position, event, queue, place, over, budget>>

\* The process dies: calls, lock and queue are gone, rows stay.
Crash ==
  /\ Fault
  /\ place' = Free /\ queue' = {} /\ rec' = [r \in Recs |-> Idle]
  /\ order' = [o \in Orders |-> IF order[o].status = "ASKED" THEN [order[o] EXCEPT !.status = "GONE"] ELSE order[o]]
  /\ UNCHANGED <<provider, exchange, applied, position, ledger, event, over>>

Reconcile(r) == RecAsk(r) \/ RecApply(r) \/ RecRelease(r) \/ RecWriteLive(r) \/ RecWriteEnd(r) \/ RecError(r)
Placing      == PlaceSee \/ PlaceCover \/ PlaceRow \/ PlaceSend \/ PlaceSync
Cancelling   == CancelAtProvider \/ CancelWrite \/ CancelSync

Next ==
  \/ \E o \in Orders : \/ CreateOpen(o) \/ CloseAsk(o) \/ CloseCreate(o) \/ LiquidationRefused(o)
                       \/ CreateTrigger(o) \/ FireTrigger(o) \/ PlaceBegin(o)
                       \/ ExchangeFill(o) \/ ExchangeEnd(o) \/ WorkerBegins(o) \/ CancelAsk(o)
  \/ Placing \/ Cancelling
  \/ \E r \in Recs : Reconcile(r) \/ RecAskFails(r)
  \/ Crash

Spec == Init /\ [][Next]_vars

\* The lock is handed on, an order at the exchange ends, the worker's timer polls
\* every pending row (it walks all of them, so also one it is often away from),
\* and a process that runs goes on.  Nobody has to ask for anything.
Fairness ==
  /\ \A o \in Orders : WF_vars(PlaceBegin(o)) /\ WF_vars(ExchangeEnd(o)) /\ SF_vars(WorkerBegins(o))
  /\ WF_vars(Placing) /\ WF_vars(Cancelling)
  /\ \A r \in Recs : WF_vars(Reconcile(r))
FairSpec == Spec /\ Fairness

-----------------------------------------------------------------------------
(* Properties. *)
Statuses == Live \cup {"NEW", "ASKED", "JOINED", "GONE", "FILLED", "CANCELLED", "FAILED"}

\* Types; no order is filled beyond its size (applyProviderFill refuses it, and the
\* coverage by the omnibus position fills what is left), and filledSize is the sum
\* of the fills that are stored.
TypeOK ==
  /\ \A o \in Orders : /\ order[o].status \in Statuses /\ order[o].filled \in 0 .. order[o].size
                      /\ order[o].filled = SumOver([f \in {g \in DOMAIN applied : g[1] = o} |-> applied[f]])
  /\ \A o \in Orders : provider[o].status \in {"NONE", "PENDING", "FILLED", "CANCELLED", "FAILED"}
  /\ position \in [Users -> Int] /\ ledger.held \in [Users -> Int]
  /\ queue \subseteq Orders

\* What an opening order still holds in reserve.
Reserved(o) ==
  IF Kind(o) = "OPEN" /\ order[o].status \in Live /\ {<<"release", o>>, <<"fail", o>>} \cap ledger.posted = {}
  THEN order[o].size - order[o].filled ELSE 0

\* The USER_PERP_MARGIN account holds exactly the margin of the open position and
\* the reserves of the orders on their way: nothing stays behind with an order that
\* ended, whoever ended it and however often, and nothing is taken twice.  Users
\* with an order whose margin was released from a row read before its last fills
\* are excepted: see PositionIsMargined.
MarginIsAccounted ==
  \A u \in Users :
    (\A o \in over.released : Owner(o) # u) =>
       ledger.held[u] = Abs(position[u]) + SumOver([o \in {x \in Orders : Owner(x) = u} |-> Reserved(o)])

\* Only unused margin is released: an open position keeps its own.
PositionIsMargined == \A u \in Users : ledger.held[u] >= Abs(position[u])

\* "Provider fills are authoritative": an opening order whose provider row is closed
\* has every fill of the exchange posted, unless the fills were asked for before the
\* last of them and the snapshot after it.
FillsArePosted ==
  \A o \in Orders \ over.missed :
    Kind(o) = "OPEN" /\ provider[o].status \in {"FILLED", "CANCELLED", "FAILED"} =>
      \A k \in 1 .. exchange[o].got : <<o, k>> \in DOMAIN applied

\* Covering a close by the omnibus position never moves the users' positions away
\* from what the exchange held when it was asked.
NettingNarrowsTheGap ==
  [][PlaceCover =>
       LET Gap(p) == Abs(place.seen - SumOver(p))
       IN  Gap(position') <= Gap(position)]_vars

\* An opening order that reached the exchange is settled in the end, whatever calls
\* failed and whichever process died.
OpeningOrderEnds ==
  \A o \in Orders :
    Kind(o) = "OPEN" /\ provider[o].status = "PENDING" /\ exchange[o].status # "NONE"
      ~> provider[o].status # "PENDING"
===============================================================================
